\* Three Advise calls: a slot that is freed and reused while a third client
\* stays connected.  Three operations at once: an event, what a client does
\* in it, and what that calls.  Four tables: a sink called again from within
\* its own event.
CONSTANTS
  MaxAdvises = 3
  MaxTables = 4
  MaxDepth = 3
  Callbacks = {"query", "event"}
SPECIFICATION Spec
INVARIANTS
  TypeOK
  EachSinkHasObject
  KeepsGranted
  LocksCounted
  AliveDuringEvent
  DeliversToAll
PROPERTIES
  DeliversOnce
\* The point's life ends with its destruction.
CHECK_DEADLOCK FALSE
