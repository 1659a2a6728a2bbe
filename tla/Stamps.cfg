SPECIFICATION MCSpec
CONSTANTS
  Files = {f1, f2}
  NoEntry = NoEntry
  MaxClock = 4
  RbiFiles = {r1, r2}
  RbiClasses = {c1, c2}
  RbiThreads = {t1, t2}
  FileSlots = {1, 2, 3, 4}
  NoSlot = NoSlot
  Cap = 1
  MaxWrites = 1
  RbsFiles = {s1, s2}
  RbsClasses = {"C", "D"}
  RbsNames = {"alias", "K"}
  RbsAliases = {"alias"}
  RbsContents <- MCRbsContents
  MaxRbsWrites = 3
INVARIANTS
  TypeOK
  StampVouches
  RbiTypeOK
  NoShapeOutdated
  FirstShapesWhole
  ShapesWholeOutsideReload
  FileCacheCoherent
  UserRbsTrue
PROPERTY RescanRefreshes
SYMMETRY MCSymmetry
