----------------------------- MODULE MCNackQueue -----------------------------
(***************************************************************************)
(* Small queues for TLC.  The round-trip times make the backoff of the     *)
(* second try fall below MinInterval, between the two limits and above     *)
(* MaxInterval; the factor is 1.25 as in NackQueueParamsDefault.           *)
(***************************************************************************)
EXTENDS NackQueue

MCRtts == {1, 3, 4}
MCRttInputs == {0, 4}
MCBackoff == [r \in MCRtts |-> [t \in 1 .. MaxTries |-> (r * 5 ^ (t - 1)) \div 4 ^ (t - 1)]]
=============================================================================
