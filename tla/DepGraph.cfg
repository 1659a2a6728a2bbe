SPECIFICATION MCSpec
CONSTANTS
  Paths = {p1, p2, p3}
  Symbols = {s1}
  KindCount = 3
  FileLimit = 2
  Untracked = Untracked
  NoId = NoId
  RbFiles = {a, b}
  OpenFiles = {a, b}
  Names = {"A"}
  Snapshots <- MCTheSnapshots
  NoFile = NoFile
  DisplayLimit = 1
  MaxReloads = 1
  Edits = {e}
  Signature = sig
  NoText = NoText
  MaxChanges = 3
  MaxCommands = 1
  MaxJobs = 3
  Owners = {"A", "B", "C", "nil"}
  NilClass = "nil"
  Methods = {"f"}
  Bodies <- MCBodies
  MaxNesting = 1
  MaxAlternatives = 3
  DepthLimit = 4
  RoundBackstop = 5
  HashedFiles = {h1, h2, h3}
  Hashes = {0, 1, 128, 201, 255}
  NoHash = NoHash
  Log = 3
  Salt = 21
  TypesThatMeet <- MCTypes
  SomeValues <- MCValues
  MaxMeeting = 4
  UnionLimit = 4
  MaxDepth = 2
  TupleLimit = 2
  Strings = {"A", "B", "C"}
  Interners = {i1, i2, i3}
  Shards = {0, 1}
  ShardFor <- MCShardFor
  NoString = NoString
INVARIANTS
  TypeOK
  QueriesExact
  StateTypeOK
  RegistryCurrent
  DisplayCurrent
  MarkHasTask
  SnapshotCatchesUp
  LensesFollow
  TextFollowsEdits
  ReturnsResolved
  AggregateExact
  UnionCovers
  UnionsAgree
  SymbolsIdentify
PROPERTY AbstractSpec
