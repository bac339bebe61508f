SPECIFICATION SpecRtt
CONSTANTS
  Nanos = 10
  Fractions = 64
  Seconds = 8
  Units = 8
  Millis = 2
  Words = 32
  Ssrcs = {0, 1}
  MaxStreams = 2
  StartTime = 72
  MaxTime = 18
  Steps <- MCSteps
INVARIANTS AnswersForBound RttExact
PROPERTIES EndsAfterClose
