----------------------------- MODULE PacedStream -----------------------------
(***************************************************************************)
(* What a queueing pacer promises: the packets it accepts, numbered in the *)
(* order of acceptance, leave one by one in that order, each exactly once, *)
(* and all of them unless the pacer is stopped.  Nothing leaves before     *)
(* Start.  After Stop at most one more leaves, the one that was already on *)
(* its way, and the worker ends.                                           *)
(***************************************************************************)
EXTENDS Naturals, Sequences

VARIABLES accepted, \* how many packets were accepted
          left,     \* the packets that left, in order
          stopped,
          active,   \* between Start and the end of the worker
          last      \* how many had left at Stop

vars == <<accepted, left, stopped, active, last>>

Init == accepted = 0 /\ left = <<>> /\ stopped = FALSE /\ active = FALSE /\ last = 0

Accept == accepted' = accepted + 1 /\ UNCHANGED <<left, stopped, active, last>>

Start ==
  /\ ~active /\ ~stopped
  /\ active' = TRUE
  /\ UNCHANGED <<accepted, left, stopped, last>>

Leave ==
  /\ active /\ Len(left) < accepted
  /\ stopped => Len(left) = last
  /\ left' = Append(left, Len(left) + 1)
  /\ UNCHANGED <<accepted, stopped, active, last>>

Stop ==
  /\ ~stopped
  /\ stopped' = TRUE /\ last' = Len(left)
  /\ UNCHANGED <<accepted, left, active>>

End ==
  /\ active /\ stopped
  /\ active' = FALSE
  /\ UNCHANGED <<accepted, left, stopped, last>>

Next == Accept \/ Start \/ Leave \/ Stop \/ End

\* Nothing waits for ever in a pacer that keeps running, and a stopped one ends.
Fairness == WF_vars(Start) /\ WF_vars(Leave /\ ~stopped) /\ WF_vars(End)

Spec == Init /\ [][Next]_vars /\ Fairness
=============================================================================
