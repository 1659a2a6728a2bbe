SPECIFICATION Spec
CONSTANTS
  f1 = f1
  f2 = f2
  Files = {f1, f2}
  TypeFile = rbs
  Threads = {t1}
  Srv = srv
  Texts = {}
  NoDoc = NoDoc
  NoEntry = NoEntry
  DependsOn <- MCDependsOn
  ChunkSize = 1
  MaxClock = 1
  MaxPanics = 0
INVARIANT DirtyRescanned
