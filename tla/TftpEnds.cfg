SPECIFICATION FairSpec
CONSTANTS
  s1 = s1
  s2 = s2
  s3 = s3
  h1 = h1
  h2 = h2
  h3 = h3
  Sessions <- Two
  Host <- TwoHosts
  Port <- TwoPorts
  Name <- LinuxNames
  File <- LinuxKernel
  Bytes <- Contents
  Others <- Bystander
  NoHost = NoHost
  ArpSlots = 2
  LimitSize = 2048
  BootLen = 512
  KernelAbove = 512
  KernelMax = 800
  RootfsAbove = 1600
  RootfsMax = 1800
  FlashLen = 2000
  TcbootSize = 512
  Sealed <- GoodImages
  Copies <- Leaves
  MaxLosses = 3
  Orderly = TRUE
PROPERTIES UploadEnds
