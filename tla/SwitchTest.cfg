CONSTANTS
  AllPorts <- MCPorts
  CounterMod = 12
  Devices <- MCDevices
  TestPkt = 5
  Limit10 = 1
  LimitFast = 2
  MaxWait = 3
  MaxTries = 3
SPECIFICATION Spec
INVARIANTS
  TypeOK
  RegistersAsTold
  VerdictIsDeserved
