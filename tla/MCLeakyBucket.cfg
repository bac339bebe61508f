SPECIFICATION SpecLeaky
CONSTANTS
  Callers = {c1, c2}
  MaxPackets = 3
  SizeOf <- MCSizes
  Bitrates = {2, 4}
  Unit = 2
  MaxLatency = 2
  MaxElapsed = 2
CHECK_DEADLOCK FALSE
INVARIANTS WithinRate
PROPERTIES ImplementsPacer
