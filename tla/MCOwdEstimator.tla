---------------------------- MODULE MCOwdEstimator ----------------------------
(* OwdEstimator with thresholds in units of five milliseconds and a wait   *)
(* in two steps.  A TLC cfg cannot hold negative numbers.                  *)
EXTENDS OwdEstimator

MCDelays == {-4, 4, 6, 20}
MCSenderSteps == {-1, 0, 1}
MCAdjustments == {-2, 1}
=============================================================================
