SPECIFICATION Spec
CONSTANTS
  Workers = {w1}
  MaxPackets = 6
  None = None
CHECK_DEADLOCK FALSE
INVARIANTS NeverPanics NoLostWakeup EachOnce
PROPERTIES ImplementsPacer
