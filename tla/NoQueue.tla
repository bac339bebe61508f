------------------------------- MODULE NoQueue -------------------------------
(***************************************************************************)
(* pkg/pacer/no_queue.go: a queue drained by sendWorker, which sleeps on   *)
(* the channel wake.  The code between Lock and Unlock is one step; the    *)
(* receive from wake and SendPacket, outside the lock, are steps of their  *)
(* own.                                                                    *)
(***************************************************************************)
EXTENDS PacerBase, FiniteSets

CONSTANTS
  Workers,    \* one per call of Start
  MaxPackets, \* bound: how many packets are enqueued
  None

ASSUME WorkersAssumption ==
  /\ IsFiniteSet(Workers)
  /\ MaxPackets \in Nat /\ None \notin 1 .. MaxPackets

VARIABLES packets, wake, closed, isStopped,
          pc,       \* where each worker is
          held,     \* the packet a worker popped
          enqueued, \* how many packets were enqueued
          panicked, \* whether a closed channel was sent on or closed again
          last      \* history: how many packets had left at Stop

vars == <<wire, returned, packets, wake, closed, isStopped, pc, held, enqueued, panicked, last>>

Init ==
  /\ BaseInit
  /\ packets = <<>> /\ wake = 0 /\ closed = FALSE /\ isStopped = FALSE
  /\ pc = [w \in Workers |-> "none"]
  /\ held = [w \in Workers |-> None]
  /\ enqueued = 0 /\ panicked = FALSE /\ last = 0

-----------------------------------------------------------------------------
Start(w) ==
  /\ pc[w] = "none"
  /\ ~isStopped
  /\ pc' = [pc EXCEPT ![w] = "sleep"]
  /\ UNCHANGED <<wire, returned, packets, wake, closed, isStopped, held, enqueued, panicked, last>>

MayStop == ~isStopped

Stop ==
  /\ MayStop
  /\ panicked' = (panicked \/ closed)
  /\ closed' = TRUE
  /\ isStopped' = TRUE
  /\ last' = IF isStopped THEN last ELSE Len(returned)
  /\ UNCHANGED <<wire, returned, packets, wake, pc, held, enqueued>>

\* Mutants: a wake-up for a stopped pacer; no wake-up for the first packet.
MutWakes == Len(packets') = 1
MutWakesLate == Len(packets') = 2 /\ ~isStopped

Wakes == Len(packets') = 1 /\ ~isStopped

\* The channel holds one token.
Token == 1

\* The send never blocks: a token that is already there will do.
Enqueue ==
  /\ enqueued < MaxPackets
  /\ enqueued' = enqueued + 1
  /\ packets' = Append(packets, enqueued')
  /\ IF Wakes
     THEN wake' = Token /\ panicked' = (panicked \/ closed)
     ELSE UNCHANGED <<wake, panicked>>
  /\ UNCHANGED <<wire, returned, closed, isStopped, pc, held, last>>

\* A closed channel always yields, after what it still holds.
Wake(w) ==
  /\ pc[w] = "sleep"
  /\ wake = 1 \/ closed
  /\ wake' = 0
  /\ pc' = [pc EXCEPT ![w] = "loop"]
  /\ UNCHANGED <<wire, returned, packets, closed, isStopped, held, enqueued, panicked, last>>

\* Mutant: a worker that sleeps after every packet.
MutAfterSend == "sleep"

Exits(w) == pc[w] = "loop" /\ isStopped
AfterSend == "loop"

Exit(w) ==
  /\ Exits(w)
  /\ pc' = [pc EXCEPT ![w] = "done"]
  /\ UNCHANGED <<wire, returned, packets, wake, closed, isStopped, held, enqueued, panicked, last>>

Sleep(w) ==
  /\ pc[w] = "loop" /\ ~Exits(w)
  /\ packets = <<>>
  /\ pc' = [pc EXCEPT ![w] = "sleep"]
  /\ UNCHANGED <<wire, returned, packets, wake, closed, isStopped, held, enqueued, panicked, last>>

Pop(w) ==
  /\ pc[w] = "loop" /\ ~Exits(w)
  /\ packets # <<>>
  /\ held' = [held EXCEPT ![w] = Head(packets)]
  /\ packets' = Tail(packets)
  /\ pc' = [pc EXCEPT ![w] = "send"]
  /\ UNCHANGED <<wire, returned, wake, closed, isStopped, enqueued, panicked, last>>

Send(w) ==
  /\ pc[w] = "send"
  /\ SendPacket(held[w])
  /\ held' = [held EXCEPT ![w] = None]
  /\ pc' = [pc EXCEPT ![w] = AfterSend]
  /\ UNCHANGED <<packets, wake, closed, isStopped, enqueued, panicked, last>>

sendWorker(w) == Wake(w) \/ Exit(w) \/ Sleep(w) \/ Pop(w) \/ Send(w)

Next == (\E w \in Workers : Start(w) \/ sendWorker(w)) \/ Stop \/ Enqueue

\* Start is called for every worker unless Stop comes first, and goroutines run.
Fairness == \A w \in Workers : WF_vars(Start(w)) /\ WF_vars(sendWorker(w))

Spec == Init /\ [][Next]_vars /\ Fairness

-----------------------------------------------------------------------------
(* Correctness.                                                            *)

TypeOK ==
  /\ packets \in Seq(1 .. MaxPackets) /\ wire \in Seq(1 .. MaxPackets)
  /\ returned \in Seq(1 .. MaxPackets)
  /\ wake \in {0, 1} /\ {closed, isStopped, panicked} \subseteq BOOLEAN
  /\ pc \in [Workers -> {"none", "sleep", "loop", "send", "done"}]
  /\ held \in [Workers -> (1 .. MaxPackets) \cup {None}]
  /\ enqueued \in 0 .. MaxPackets /\ last \in 0 .. MaxPackets

\* No send on the closed channel and no second close, whatever order Stop and
\* Enqueue come in (lines 57, 72).
NeverPanics == ~panicked

\* Enqueue only wakes for the first packet of an empty queue; no packet is left
\* behind by a worker that goes to sleep just then.
NoLostWakeup ==
  packets # <<>> /\ ~isStopped =>
    \/ wake = 1
    \/ \E w \in Workers : pc[w] \in {"loop", "send"}

\* Types, and: a packet is in the queue, in a worker's hand or done with, and only in one of
\* these; its buffer goes back to the pool once, and not before it is written.
EachOnce ==
  TypeOK /\
  LET in(q) == { q[i] : i \in 1 .. Len(q) }
      inHand == { held[w] : w \in { v \in Workers : pc[v] = "send" } }
  IN
  /\ in(packets) \cup inHand \cup in(returned) = 1 .. enqueued
  /\ Len(packets) + Cardinality({ w \in Workers : pc[w] = "send" }) + Len(returned) = enqueued
  /\ in(wire) \subseteq in(returned) /\ Cardinality(in(wire)) = Len(wire)

\* With one worker it is the pacer PacedStream describes: packets leave in order,
\* none waits for ever, and the worker ends after Stop, whether it slept, was about
\* to sleep or was sending.
Paced == INSTANCE PacedStream WITH
           accepted <- enqueued, left <- returned, stopped <- isStopped,
           active <- \E w \in Workers : pc[w] \notin {"none", "done"}

ImplementsPacer == Paced!Spec
=============================================================================
