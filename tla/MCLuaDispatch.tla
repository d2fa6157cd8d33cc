---------------------------- MODULE MCLuaDispatch ----------------------------
(* The smallest instance of LuaDispatch: one table, served once.  The larger *)
(* one is a part of MCCalls.                                                 *)
EXTENDS LuaDispatch

=============================================================================
