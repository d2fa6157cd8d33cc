\* Two source interfaces with two cookies each: enough for an older and a
\* newer connection on the same point and on another one with the same
\* cookie.  Three operations at once: a callback within a callback.
CONSTANTS
  p1 = p1
  p2 = p2
  none = none
  Points = {p1, p2}
  MaxCookie = 2
  MaxGrants = 3
  MaxDepth = 3
  NoConn = none
SPECIFICATION Spec
SYMMETRY PointSymmetry
INVARIANTS
  TypeOK
  Tracked
  OneOwner
  AliveDuringCallback
  CleanReleaseLeavesNothing
PROPERTIES
  LegacyTargetsNewest
  ImplementsPromise
\* The wrapper's life ends with its destruction.
CHECK_DEADLOCK FALSE
