SPECIFICATION Spec
CONSTANTS
  NBlocks = 7
  NPages = 2
  IdxBits <- ThreeBits
  Values = {v1, v2}
  Erased = Erased
  Garbage = Garbage
  Unknown = Unknown
  NeedValid = 4
  MaxPool = 5
  FactoryBad <- OneBad
  Worn <- NoBlock
  Faults <- ProgramOrErase0
  Modes <- Clean
  MaxFails = 2
  MaxCrashes = 0
  MaxOps = 4
SYMMETRY Symmetry
INVARIANTS TypeOK ReadBack
