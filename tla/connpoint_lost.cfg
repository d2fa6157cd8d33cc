\* The release of a client's last reference calls back, into an Advise.
CONSTANTS
  MaxAdvises = 2
  MaxTables = 1
  MaxDepth = 2
  Callbacks = {"unlock"}
SPECIFICATION Spec
INVARIANT EachSinkHasObject
CHECK_DEADLOCK FALSE
