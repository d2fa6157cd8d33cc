CONSTANTS
  Infos <- MCInfos
  NoScript = "none"
  NoLibrary = NoLibrary
  NoClass = "noclass"
  MaxOperations = 3
  MaxFactories = 2
  MaxRunning = 2
  MaxHeld = 1
SPECIFICATION Spec
CHECK_DEADLOCK FALSE
INVARIANTS
  TypeOK
  RegisteredWorks
  UnregisteringWorks
  UsedStateOpen
