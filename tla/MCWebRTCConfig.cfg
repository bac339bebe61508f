SPECIFICATION SpecConf
CONSTANTS
  p4 = p4
  q4 = q4
  r6 = r6
  k4 = k4
  j6 = j6
  o4 = o4
  d4 = d4
  x4 = x4
  y4 = y4
  z6 = z6
  LocalIPs <- MCLocalIPs
  External = {x4, y4, z6}
  FamilyOf <- MCFamilyOf
  Ports = 2
  None = None
  Addresses <- MCAddresses
  EnableLoopback = FALSE
  IncludeIfs = {}
  ExcludeIfs = {"docker0"}
  IncludeIPs = {}
  ExcludeIPs = {}
  Configs <- MCConfigs
  NumCPU = 2
  StunPort = 3478
  Tries = 2
  CounterHalf = 8
  MaxRounds = 2
CHECK_DEADLOCK FALSE
INVARIANTS GraceWhenSettled OpenIsAccounted SocketsMapped PublicAddress RoundRobin
PROPERTIES CallsReturn
