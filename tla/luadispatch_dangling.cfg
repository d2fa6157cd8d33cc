\* One table, served once, and passed on when nobody holds the object.
CONSTANTS
  Tables = {t1}
  MaxDispatches = 1
  MaxRefs = 1
  MaxDepth = 0
SPECIFICATION DispatchSpec
INVARIANT PassesExistingObject
CHECK_DEADLOCK FALSE
