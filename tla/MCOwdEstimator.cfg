SPECIFICATION Spec
CONSTANTS
  FallFactor = 75
  RiseFactor = 50
  SpikeFactor = 50
  ThresholdMin = 2
  MaxFactor = 2
  AdaptationThreshold = 10
  ResetReports = 2
  ResetWait = 2
  Delays <- MCDelays
  SenderSteps <- MCSenderSteps
  Elapses = {0, 1, 2}
  Adjustments <- MCAdjustments
  MaxReports = 10
INVARIANTS EstimateWithin ResetOnlyIfPersistent
