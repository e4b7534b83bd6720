SPECIFICATION Spec
CONSTANTS
  NBlocks = 2
  PagesPerBlock = 2
  PageSize = 2
  OpLenMax = 2
  Kinds <- MCKinds
  Blank = "blank"
  Mixed = "mixed"
  Parties <- MCParties
  Mtd = "mtd"
  Nobody = "nobody"
  Idle = Idle
  Text <- MCText
  Starts = {0, 3, 4}
  Lengths = {3, 5}
  StackOffsets = {0}
  MaxOps = 3
INVARIANTS
  TypeOK
  CacheIsThePage
PROPERTY
  StoreIsFaithful
