SPECIFICATION Spec
CONSTANTS
  f1 = f1
  f2 = f2
  Files = {f1, f2}
  TypeFile = rbs
  Threads = {t1, t2}
  Srv = srv
  Texts = {x, y}
  NoDoc = NoDoc
  NoEntry = NoEntry
  DependsOn <- MCDependsOn
  ChunkSize = 2
  MaxClock = 2
  MaxPanics = 1
SYMMETRY ThreadAndTextSymmetry
INVARIANTS
  OneLiveScan
  DiscoveryComplete
PROPERTY PendingServed
