SPECIFICATION Spec
CONSTANTS
  NBlocks = 7
  NPages = 2
  IdxBits <- ThreeBits
  Values = {v1, v2}
  Erased = Erased
  Garbage = Garbage
  Unknown = Unknown
  NeedValid = 4
  MaxPool = 5
  FactoryBad <- OneBad
  Worn <- NoBlock
  Faults <- HomesSafe
  Modes <- Clean
  MaxFails = 2
  MaxCrashes = 2
  MaxOps = 3
SYMMETRY Symmetry
INVARIANTS PoolFixed TablesSaved
