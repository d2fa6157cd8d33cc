----------------------------- MODULE MCEnumerators -----------------------------
(* Small instances of Enumerators; every element is a number. *)
EXTENDS Enumerators

OneVerb == <<11>>
TwoCollections == {<<21>>, <<Null, 22>>}

================================================================================
