------------------------ MODULE MCWrapperConnections ------------------------
(* Model checking of WrapperConnections on small instances.                *)
EXTENDS WrapperConnections, TLC

PointSymmetry == Permutations(Points)

=============================================================================
