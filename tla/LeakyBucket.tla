----------------------------- MODULE LeakyBucket -----------------------------
(***************************************************************************)
(* pkg/pacer/leaky_bucket.go: a queue drained on a ticker, a budget of     *)
(* bytes per interval.  Callers check isStopped before they take the lock, *)
(* and so does the worker before every pop, so each check is a step of its *)
(* own.  Time is counted in ticks; a bitrate is in bytes per Unit ticks.   *)
(***************************************************************************)
EXTENDS PacerBase, FiniteSetsExt

CONSTANTS
  Callers,     \* goroutines that call Enqueue
  MaxPackets,  \* bound: how many packets are enqueued
  SizeOf,      \* their sizes, as getPktSize computes them once
  Bitrates,    \* the bitrates given to the constructor and to SetBitrate
  Unit,        \* ticks over which a bitrate counts bytes
  MaxLatency,  \* in ticks; 0 for none
  MaxElapsed   \* bound: ticks between two looks at the queue

ASSUME SizesAssumption ==
  /\ MaxPackets \in Nat
  /\ SizeOf \in [1 .. MaxPackets -> Nat \ {0}]
ASSUME RatesAssumption ==
  /\ Bitrates \subseteq Nat /\ Bitrates # {}
  /\ Unit \in Nat \ {0} /\ MaxLatency \in Nat /\ MaxElapsed \in Nat \ {0}

VARIABLES bitrate, packets, queueBytes, isStopped,
          caller,    \* where each caller of Enqueue is
          enqueued,  \* how many packets were enqueued
          pc,        \* where sendWorker is
          held,      \* the packet it popped
          toSendBytes, overage, intervalBytes,
          last,      \* history: how many packets had left at Stop
          sent,      \* history: bytes sent in this interval
          excess,    \* history: by how much the bytes sent exceed the intervals'
                     \* bytes, over the stretch of intervals where it is most
          widest     \* history: the largest intervalBytes so far

queue == <<packets, queueBytes, enqueued>>
budget == <<toSendBytes, overage, intervalBytes, sent, excess, widest>>
varsLeaky == <<wire, returned, bitrate, isStopped, caller, pc, held, last, queue, budget>>

InitLeaky ==
  /\ BaseInit
  /\ bitrate \in Bitrates
  /\ packets = <<>> /\ queueBytes = 0 /\ isStopped = FALSE
  /\ caller = [c \in Callers |-> "idle"] /\ enqueued = 0
  /\ pc = "none" /\ held = 0
  /\ toSendBytes = 0 /\ overage = 0 /\ intervalBytes = 0
  /\ last = 0 /\ sent = 0 /\ excess = 0 /\ widest = 0

-----------------------------------------------------------------------------
SetBitrate(b) ==
  /\ bitrate' = b
  /\ UNCHANGED <<wire, returned, isStopped, caller, pc, held, last, queue, budget>>

Stop ==
  /\ isStopped' = TRUE
  /\ last' = IF isStopped THEN last ELSE Len(returned)
  /\ UNCHANGED <<wire, returned, bitrate, caller, pc, held, queue, budget>>

\* Enqueue in two steps: the check, and the push under the lock.
EnqueueCheck(c) ==
  /\ caller[c] = "idle"
  /\ ~isStopped
  /\ caller' = [caller EXCEPT ![c] = "push"]
  /\ UNCHANGED <<wire, returned, bitrate, isStopped, pc, held, last, queue, budget>>

Enqueue(c) ==
  /\ caller[c] = "push"
  /\ enqueued < MaxPackets
  /\ enqueued' = enqueued + 1
  /\ packets' = Append(packets, enqueued')
  /\ queueBytes' = queueBytes + SizeOf[enqueued']
  /\ caller' = [caller EXCEPT ![c] = "idle"]
  /\ UNCHANGED <<wire, returned, bitrate, isStopped, pc, held, last, budget>>

-----------------------------------------------------------------------------
(* sendWorker.                                                             *)

Goto(l) == pc' = l

Start ==
  /\ pc = "none" /\ ~isStopped
  /\ Goto("check")
  /\ UNCHANGED <<wire, returned, bitrate, isStopped, caller, held, last, queue, budget>>

\* The outer loop's condition.
Check ==
  /\ pc = "check"
  /\ Goto(IF isStopped THEN "done" ELSE "tick")
  /\ UNCHANGED <<wire, returned, bitrate, isStopped, caller, held, last, queue, budget>>

\* The configured bitrate, or what drains the queue within the latency.
Rate ==
  IF MaxLatency > 0 /\ (queueBytes * Unit) \div MaxLatency > bitrate
  THEN (queueBytes * Unit) \div MaxLatency ELSE bitrate

Capped(n, overshoot) == IF n > overshoot THEN overshoot ELSE n

\* After a round that sent, a tick may already wait in the ticker's channel.
ShortestWait == IF sent > 0 THEN 0 ELSE 1

\* A tick: the budget of the interval, less the overage of the ones before.
Tick ==
  /\ pc = "tick"
  /\ \E elapsed \in ShortestWait .. MaxElapsed :
       LET bytes == (elapsed * Rate) \div Unit IN
       /\ intervalBytes' = bytes
       /\ sent' = 0
       /\ excess' = Max({0, excess}) - bytes
       /\ widest' = Max({widest, bytes})
       /\ \/ /\ bytes - overage < 0
             /\ overage' = overage - bytes
             /\ Goto("check")
             /\ UNCHANGED toSendBytes
          \/ /\ bytes - overage >= 0
             /\ toSendBytes' = Capped(bytes - overage, 2 * bytes)
             /\ Goto("inner")
             /\ UNCHANGED overage
  /\ UNCHANGED <<wire, returned, bitrate, isStopped, caller, held, last, queue>>

\* Mutant: a round goes on after Stop until its budget is spent.
MutInner ==
  /\ pc = "inner"
  /\ Goto("pop")
  /\ UNCHANGED <<wire, returned, bitrate, isStopped, caller, held, last, queue, budget>>

\* The inner loop's condition.
Inner ==
  /\ pc = "inner"
  /\ Goto(IF isStopped THEN "check" ELSE "pop")
  /\ UNCHANGED <<wire, returned, bitrate, isStopped, caller, held, last, queue, budget>>

\* An empty queue: what is left of the budget is lent to the next interval.
Shortage ==
  /\ pc = "pop" /\ packets = <<>>
  /\ overage' = -toSendBytes
  /\ Goto("check")
  /\ UNCHANGED <<wire, returned, bitrate, isStopped, caller, held, last, queue,
                 toSendBytes, intervalBytes, sent, excess, widest>>

BytesWithout(p) == queueBytes - SizeOf[p]

Pop ==
  /\ pc = "pop" /\ packets # <<>>
  /\ held' = Head(packets)
  /\ packets' = Tail(packets)
  /\ queueBytes' = BytesWithout(Head(packets))
  /\ Goto("send")
  /\ UNCHANGED <<wire, returned, bitrate, isStopped, caller, last, enqueued, budget>>

\* Mutant: an overage is forgotten.
MutOverageAfter(n) == IF n < 0 THEN 0 ELSE overage

OverageAfter(n) == IF n < 0 THEN -n ELSE overage

Send ==
  LET left == toSendBytes - SizeOf[held] IN
  /\ pc = "send"
  /\ SendPacket(held)
  /\ held' = 0
  /\ toSendBytes' = left
  /\ overage' = OverageAfter(left)
  /\ sent' = sent + SizeOf[held] /\ excess' = excess + SizeOf[held]
  /\ Goto(IF left < 0 THEN "check" ELSE "inner")
  /\ UNCHANGED <<bitrate, isStopped, caller, last, queue, intervalBytes, widest>>

sendWorker == Check \/ Tick \/ Inner \/ Shortage \/ Pop \/ Send

NextLeaky ==
  \/ \E b \in Bitrates : SetBitrate(b)
  \/ Start \/ Stop \/ sendWorker
  \/ \E c \in Callers : EnqueueCheck(c) \/ Enqueue(c)

\* Start is called, the goroutine runs and its ticker ticks.
Fairness == WF_varsLeaky(Start) /\ WF_varsLeaky(sendWorker)

SpecLeaky == InitLeaky /\ [][NextLeaky]_varsLeaky /\ Fairness

-----------------------------------------------------------------------------
(* Correctness.                                                            *)

Largest == Max({0} \cup { SizeOf[p] : p \in 1 .. MaxPackets })

\* What the packets of q amount to.
Total(q) ==
  LET total[i \in 0 .. Len(q)] == IF i = 0 THEN 0 ELSE total[i - 1] + SizeOf[q[i]]
  IN total[Len(q)]

\* Every variable has its type, and the budget is never above what the cap of
\* line 121 allows nor below what one packet takes (lines 119-122, 139).
TypeOKLeaky ==
  /\ bitrate \in Bitrates /\ packets \in Seq(1 .. MaxPackets) /\ queueBytes \in Nat
  /\ {wire, returned} \subseteq Seq(1 .. MaxPackets)
  /\ isStopped \in BOOLEAN
  /\ caller \in [Callers -> {"idle", "push"}]
  /\ enqueued \in 0 .. MaxPackets /\ held \in 0 .. MaxPackets /\ last \in 0 .. MaxPackets
  /\ pc \in {"none", "check", "tick", "inner", "pop", "send", "done"}
  /\ {overage, excess} \subseteq Int /\ {intervalBytes, sent, widest} \subseteq Nat
  /\ toSendBytes \in -Largest .. 2 * widest

\* Types, and: queueBytes, which the latency limit turns into a bitrate (line 100),
\* is what the queue amounts to; one interval sends at most twice its bytes and the
\* packet that crosses that line (lines 119-122); and over any stretch of
\* intervals, however shortage and overage were carried from one to the next
\* (lines 111-114, 129, 141), the bytes sent exceed what the bitrate gave by at
\* most one interval's bytes and one packet.
WithinRate ==
  /\ TypeOKLeaky
  /\ queueBytes = Total(packets)
  /\ pc # "none" => sent <= 2 * intervalBytes + Largest
  /\ excess <= widest + Largest

\* It is the pacer PacedStream describes: nothing is reordered or sent twice, no
\* packet waits for ever when a tick is worth a byte, and the worker ends after
\* Stop, whatever it was waiting for.
Paced == INSTANCE PacedStream WITH
           accepted <- enqueued, left <- returned, stopped <- isStopped,
           active <- pc \notin {"none", "done"}

ImplementsPacer == Paced!Spec
=============================================================================
