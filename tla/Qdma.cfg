SPECIFICATION FairSpec
CONSTANTS
  TX0_DSCP_NUM = 3
  RX0_DSCP_NUM = 2
  Cpus = {"c0", "c1"}
  Devs = {"eth0", "eth1"}
  MaxSends = 4
  MaxFrames = 2
  MaxTraffic = 4
  MaxOpens = 2
  MaxFails = 1
INVARIANTS TypeOK NotFreedUnsent SkbsAccounted RunsWhileOpen DeliveredOnce
PROPERTIES QuietIsServed QueuedIsSent QueueIsEmptied
CHECK_DEADLOCK FALSE
