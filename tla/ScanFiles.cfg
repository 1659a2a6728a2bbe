SPECIFICATION Spec
CONSTANTS
  f1 = f1
  f2 = f2
  Files = {f1, f2}
  TypeFile = rbs
  Threads = {t1, t2}
  Srv = srv
  Texts = {}
  NoDoc = NoDoc
  NoEntry = NoEntry
  DependsOn <- MCDependsOn
  ChunkSize = 1
  MaxClock = 2
  MaxPanics = 0
SYMMETRY ThreadSymmetry
INVARIANTS
  TypeOK
  OneLiveScan
  DiscoveryComplete
  TypesReach
PROPERTIES
  NoRegress
  PendingServed
  LifecycleSpec
