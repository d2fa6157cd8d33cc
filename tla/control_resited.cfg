\* The host moves the control from one site to another.
CONSTANTS
  Sites = {s1, s2}
  NoSite = NoSite
  MaxWindows = 2
  MaxDepth = 2
  Refrains <- WellBehaved
SPECIFICATION Spec
PROPERTIES
  ActivatesInItsSite
CHECK_DEADLOCK FALSE
