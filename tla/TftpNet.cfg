SPECIFICATION Spec
CONSTANTS
  s1 = s1
  s2 = s2
  s3 = s3
  h1 = h1
  h2 = h2
  h3 = h3
  Sessions <- Three
  Host <- SharedHost
  Port <- ThreePorts
  Name <- BootNames
  File <- KernelBootHuge
  Bytes <- Contents
  Others <- Nobody
  NoHost = NoHost
  ArpSlots = 1
  LimitSize = 1100
  BootLen = 512
  KernelAbove = 512
  KernelMax = 800
  RootfsAbove = 1600
  RootfsMax = 1800
  FlashLen = 2000
  TcbootSize = 512
  Sealed <- GoodImages
  Copies <- Stays
  MaxLosses = 0
  Orderly = FALSE
INVARIANTS TypeOK StoredIsSent AcknowledgedWasStored
