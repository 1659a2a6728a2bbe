SPECIFICATION FairSpec
CONSTANTS
  Docs = {d1, d2}
  MaxEvents = 3
  MaxResets = 1
  MaxFails = 1
INVARIANT TypeOK
PROPERTIES
  LateResultDropped
  LatestServed
  CompleteServed
