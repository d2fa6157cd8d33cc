\* Two enumerators, one perhaps a clone of the other, over up to two elements,
\* of which one may be nil in Lua, while two clients come and go; requests below,
\* at and past what is left.
CONSTANTS
  Ids = {e1, e2}
  MaxCookie = 2
  MaxRefs = 2
  MaxGiven = 1
  Verbs <- OneVerb
  Collections <- TwoCollections
  Null = 20
  Requests = {1, 2}
SPECIFICATION FairSpec
INVARIANTS
  TypeOK
  Accounted
PROPERTIES
  KeepsContract
  PairsVisits
CHECK_DEADLOCK FALSE
