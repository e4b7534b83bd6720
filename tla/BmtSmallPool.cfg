SPECIFICATION FairSpec
CONSTANTS
  NBlocks = 6
  NPages = 2
  IdxBits <- ThreeBits
  Values = {v1}
  Erased = Erased
  Garbage = Garbage
  Unknown = Unknown
  NeedValid = 3
  MaxPool = 4
  FactoryBad <- CrowdedPool
  Worn <- NoBlock
  Faults <- AnyFault
  Modes <- CleanTorn
  MaxFails = 2
  MaxCrashes = 1
  MaxOps = 2
INVARIANTS InUseApart
PROPERTIES ReplacementsKept Returns
CHECK_DEADLOCK FALSE
