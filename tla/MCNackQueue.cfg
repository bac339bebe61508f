SPECIFICATION Spec
CONSTANTS
  SNRange = 8
  Width = 2
  DefaultRtt = 1
  MaxNacks = 3
  MaxTries = 2
  MinInterval = 2
  MaxInterval = 3
  MaxLifetime = 4
  Rtts <- MCRtts
  RttInputs <- MCRttInputs
  Backoff <- MCBackoff
  RangeCounts = {2, 4}
  PushesForward = TRUE
  ClockMoves = TRUE
PROPERTIES NackSpacing PairsNameAllSent
