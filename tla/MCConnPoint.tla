----------------------------- MODULE MCConnPoint -----------------------------
(* Model checking of ConnPoint on small instances.                         *)
EXTENDS ConnPoint

=============================================================================
