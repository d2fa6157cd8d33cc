------------------------------- MODULE MCControl -------------------------------
(* Small instances of Control, with hosts that are WellBehaved.            *)
EXTENDS Control

================================================================================
