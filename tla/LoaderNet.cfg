SPECIFICATION FairSpec
CONSTANTS
  NBufs = 11
  NTx = 3
  NRx = 3
  Threshold = 2
  MaxPkts = 3
  Macs = {"mac", "l2mac", "gmac", "femac", "qdma"}
  Kinds = {"arp", "tftp", "damaged"}
  MaxFrames = 2
  MaxSends = 1
INVARIANTS TypeOK BuffersAccounted IndicesAgree NotReentered
PROPERTIES SendsInOrder ReceivedIsServed GivenIsSent
CHECK_DEADLOCK FALSE
