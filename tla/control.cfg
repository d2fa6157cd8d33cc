\* One site, given and taken away at any time.  Three windows: one is destroyed
\* and another made, twice.  Three operations inside one another.
CONSTANTS
  Sites = {s1}
  NoSite = NoSite
  MaxWindows = 3
  MaxDepth = 3
  Refrains <- WellBehaved
SPECIFICATION FairSpec
INVARIANTS
  TypeOK
  UsesLiveFrame
  HostKnows
  WindowWithActivation
  RegionTracked
  LeavesNoWindow
PROPERTIES
  CloseEnds
\* A deleted control does nothing.
CHECK_DEADLOCK FALSE
