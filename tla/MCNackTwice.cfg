SPECIFICATION FairSpec
CONSTANTS
  SNRange = 3
  Width = 0
  DefaultRtt = 1
  MaxNacks = 3
  MaxTries = 2
  MinInterval = 2
  MaxInterval = 3
  MaxLifetime = 3
  Rtts <- MCRtts
  RttInputs <- MCRttInputs
  Backoff <- MCBackoff
  RangeCounts = {2}
  PushesForward = FALSE
  ClockMoves = FALSE
INVARIANTS QueueByAge
PROPERTIES PurgesTheExpired Drains
