SPECIFICATION FairSpec
CONSTANTS
  Docs = {d1}
  MaxEvents = 1
  MaxResets = 0
  MaxFails = 1
PROPERTY ReissuedAlways
