---------------------------- MODULE NoQueueProofs ---------------------------
(***************************************************************************)
(* The pacer without a budget, for any number of workers and packets:      *)
(* nothing is sent on the closed channel, and no packet waits for a        *)
(* wake-up that was lost.  Both hold because the channel is closed in the  *)
(* critical section that sets isStopped, and are inductive together.       *)
(* Every packet is in one place; and with one worker every step is one of  *)
(* PacedStream's.                                                          *)
(***************************************************************************)
EXTENDS NoQueue, FiniteSetTheorems, WellFoundedInduction, TLAPS

Labels == {"none", "sleep", "loop", "send", "done"}

\* Closed exactly when stopped.
ClosedIfStopped == closed = isStopped /\ isStopped \in BOOLEAN

Shapes == packets \in Seq(Nat) /\ enqueued \in Nat /\ pc \in [Workers -> Labels]

IInv == Shapes /\ ClosedIfStopped /\ NeverPanics /\ NoLostWakeup

\* The only queue of length one after a push is the one that was empty.
LEMMA AppendToEmpty ==
  ASSUME NEW q \in Seq(Nat), NEW x \in Nat
  PROVE  /\ Append(q, x) \in Seq(Nat)
         /\ Len(Append(q, x)) = 1 <=> q = <<>>
  OBVIOUS

LEMMA IInvHolds == Spec => []IInv
<1>1. Init => IInv
  <2>1. Init => Shapes
    BY DEF Init, Shapes, Labels
  <2>2. Init => ClosedIfStopped /\ NeverPanics /\ NoLostWakeup
    BY DEF Init, ClosedIfStopped, NeverPanics, NoLostWakeup
  <2> QED BY <2>1, <2>2 DEF IInv
<1>2. IInv /\ [Next]_vars => IInv'
  <2> SUFFICES ASSUME IInv, [Next]_vars PROVE IInv'
    OBVIOUS
  <2> USE DEF IInv, Shapes, ClosedIfStopped, NeverPanics, NoLostWakeup, Labels
  <2>1. ASSUME NEW w \in Workers, Start(w) PROVE IInv'
    BY <2>1 DEF Start
  <2>2. CASE Stop
    BY <2>2 DEF Stop, MayStop
  <2>3. CASE Enqueue
    <3>1. packets' = Append(packets, enqueued + 1) /\ enqueued' = enqueued + 1
      BY <2>3 DEF Enqueue
    <3>2. packets' \in Seq(Nat) /\ (Len(packets') = 1 <=> packets = <<>>)
      BY <3>1, AppendToEmpty
    <3>3. Shapes'
      BY <2>3, <3>1, <3>2 DEF Enqueue
    <3>4. ClosedIfStopped' /\ NeverPanics'
      BY <2>3 DEF Enqueue, Wakes
    <3>5. NoLostWakeup'
      BY <2>3, <3>2 DEF Enqueue, Wakes, Token
    <3> QED BY <3>3, <3>4, <3>5
  <2>4. ASSUME NEW w \in Workers, Wake(w) PROVE IInv'
    BY <2>4 DEF Wake
  <2>5. ASSUME NEW w \in Workers, Exit(w) PROVE IInv'
    BY <2>5 DEF Exit, Exits
  <2>6. ASSUME NEW w \in Workers, Sleep(w) PROVE IInv'
    BY <2>6 DEF Sleep, Exits
  <2>7. ASSUME NEW w \in Workers, Pop(w) PROVE IInv'
    BY <2>7 DEF Pop, Exits
  <2>8. ASSUME NEW w \in Workers, Send(w) PROVE IInv'
    BY <2>8 DEF Send, AfterSend
  <2>9. CASE UNCHANGED vars
    BY <2>9 DEF vars
  <2> QED
    BY <2>1, <2>2, <2>3, <2>4, <2>5, <2>6, <2>7, <2>8, <2>9 DEF Next, sendWorker
<1> QED BY <1>1, <1>2, PTL DEF Spec

\* No send on the closed channel and no second close, for any number of workers
\* and any order of Start, Stop and Enqueue (lines 57-63, 72-76).
THEOREM NoPanic == Spec => []NeverPanics
<1>1. IInv => NeverPanics
  BY DEF IInv
<1> QED BY <1>1, IInvHolds, PTL

\* A packet in the queue of a running pacer has a token in the channel or a worker
\* that will look at the queue again (lines 72-76, 82-95).
THEOREM NothingLeftBehind == Spec => []NoLostWakeup
<1>1. IInv => NoLostWakeup
  BY DEF IInv
<1> QED BY <1>1, IInvHolds, PTL

-----------------------------------------------------------------------------
(* Each packet once.  The counts and the union of EachOnce are inductive   *)
(* together with what keeps the three places of a packet apart.            *)

Elems(q) == { q[i] : i \in 1 .. Len(q) }
Senders == { w \in Workers : pc[w] = "send" }
InHand == { held[w] : w \in Senders }
Distinct(q) == \A i, j \in 1 .. Len(q) : q[i] = q[j] => i = j

\* Every packet is in the queue, in a worker's hand or done with.
Complete ==
  /\ Elems(packets) \cup InHand \cup Elems(returned) = 1 .. enqueued
  /\ Len(packets) + Cardinality(Senders) + Len(returned) = enqueued

\* Nothing is written that has not been done with, and nothing twice.
WrittenOnce == Elems(wire) \subseteq Elems(returned) /\ Cardinality(Elems(wire)) = Len(wire)

\* No packet is in two places, or twice in one.
Apart ==
  /\ Distinct(packets)
  /\ \A v, w \in Senders : held[v] = held[w] => v = w
  /\ \A w \in Senders : held[w] \in 1 .. MaxPackets
  /\ Elems(packets) \cap InHand = {}
  /\ Elems(packets) \cap Elems(returned) = {}
  /\ InHand \cap Elems(returned) = {}

OnceInv == TypeOK /\ Complete /\ WrittenOnce /\ Apart

LEMMA AppendElems ==
  ASSUME NEW S, NEW q \in Seq(S), NEW x \in S
  PROVE  /\ Append(q, x) \in Seq(S) /\ Len(Append(q, x)) = Len(q) + 1
         /\ Elems(Append(q, x)) = Elems(q) \cup {x}
         /\ Distinct(q) /\ x \notin Elems(q) => Distinct(Append(q, x))
<1>1. /\ Append(q, x) \in Seq(S) /\ Len(Append(q, x)) = Len(q) + 1 /\ Len(q) \in Nat
      /\ \A i \in 1 .. Len(q) : Append(q, x)[i] = q[i]
      /\ Append(q, x)[Len(q) + 1] = x
  OBVIOUS
<1>2. 1 .. Len(q) + 1 = (1 .. Len(q)) \cup {Len(q) + 1}
  BY <1>1
<1>3. Elems(Append(q, x)) = Elems(q) \cup {x}
  BY <1>1, <1>2 DEF Elems
<1>4. Distinct(q) /\ x \notin Elems(q) => Distinct(Append(q, x))
  BY <1>1, <1>2 DEF Elems, Distinct
<1> QED BY <1>1, <1>3, <1>4

LEMMA TailElems ==
  ASSUME NEW S, NEW q \in Seq(S), q # <<>>
  PROVE  /\ Tail(q) \in Seq(S) /\ Len(Tail(q)) = Len(q) - 1 /\ Head(q) \in S
         /\ Elems(q) = {Head(q)} \cup Elems(Tail(q))
         /\ Distinct(q) => Distinct(Tail(q)) /\ Head(q) \notin Elems(Tail(q))
<1>1. /\ Tail(q) \in Seq(S) /\ Len(Tail(q)) = Len(q) - 1 /\ Len(q) \in Nat \ {0}
      /\ Head(q) = q[1] /\ Head(q) \in S
      /\ \A i \in 1 .. Len(q) - 1 : Tail(q)[i] = q[i + 1]
  OBVIOUS
<1>2. Elems(q) = {Head(q)} \cup Elems(Tail(q))
  <2>1. ASSUME NEW i \in 1 .. Len(q), i # 1 PROVE q[i] \in Elems(Tail(q))
    <3>1. i - 1 \in 1 .. Len(q) - 1 /\ (i - 1) + 1 = i
      BY <1>1, <2>1
    <3>2. Tail(q)[i - 1] = q[i]
      BY <1>1, <3>1
    <3> QED BY <1>1, <3>1, <3>2 DEF Elems
  <2>2. \A i \in 1 .. Len(q) - 1 : i + 1 \in 1 .. Len(q) /\ Tail(q)[i] = q[i + 1]
    BY <1>1
  <2>3. 1 \in 1 .. Len(q)
    BY <1>1
  <2> QED BY <1>1, <2>1, <2>2, <2>3 DEF Elems
<1>3. Distinct(q) => Distinct(Tail(q)) /\ Head(q) \notin Elems(Tail(q))
  BY <1>1 DEF Distinct, Elems
<1> QED BY <1>1, <1>2, <1>3

LEMMA ElemsOf ==
  ASSUME NEW S, NEW q \in Seq(S)
  PROVE  Elems(q) \in SUBSET S
<1>1. \A i \in 1 .. Len(q) : q[i] \in S
  OBVIOUS
<1> QED BY <1>1 DEF Elems

LEMMA FewSenders ==
  IsFiniteSet(Senders) /\ Cardinality(Senders) \in Nat
BY WorkersAssumption, FS_Subset, FS_CardinalityType DEF Senders

LEMMA OnceInit == Init => OnceInv
<1> SUFFICES ASSUME Init PROVE OnceInv
  OBVIOUS
<1>1. packets = <<>> /\ wire = <<>> /\ returned = <<>> /\ enqueued = 0
  BY DEF Init, BaseInit
<1>2. Elems(packets) = {} /\ Elems(wire) = {} /\ Elems(returned) = {} /\ 1 .. enqueued = {}
  BY <1>1 DEF Elems
<1>3. Senders = {} /\ InHand = {}
  BY DEF Init, Senders, InHand
<1>4. Cardinality({}) = 0
  BY FS_EmptySet
<1>5. Len(packets) = 0 /\ Len(wire) = 0 /\ Len(returned) = 0
  BY <1>1
<1>6. TypeOK
  <2>1. /\ pc \in [Workers -> {"none", "sleep", "loop", "send", "done"}]
        /\ held \in [Workers -> (1 .. MaxPackets) \cup {None}]
    BY DEF Init
  <2>2. enqueued \in 0 .. MaxPackets /\ last \in 0 .. MaxPackets /\ wake \in {0, 1}
    BY WorkersAssumption DEF Init
  <2>3. {closed, isStopped, panicked} \subseteq BOOLEAN
    BY DEF Init
  <2>4. <<>> \in Seq(1 .. MaxPackets)
    OBVIOUS
  <2> QED BY <1>1, <2>1, <2>2, <2>3, <2>4 DEF TypeOK
<1>7. Complete
  <2>1. Elems(packets) \cup InHand \cup Elems(returned) = 1 .. enqueued
    BY <1>2, <1>3
  <2>2. Cardinality(Senders) = 0
    BY <1>3, <1>4
  <2> QED BY <2>1, <2>2, <1>1, <1>5 DEF Complete
<1>9. WrittenOnce
  BY <1>2, <1>4, <1>5 DEF WrittenOnce
<1>8. Apart
  BY <1>2, <1>3, <1>5 DEF Apart, Distinct
<1> QED BY <1>6, <1>7, <1>8, <1>9 DEF OnceInv

\* Steps that only move workers that hold nothing, or nothing at all.
LEMMA OnceUnmoved ==
  ASSUME OnceInv, TypeOK', Senders' = Senders,
         UNCHANGED <<packets, wire, returned, enqueued, held>>
  PROVE  OnceInv'
<1>1. InHand' = InHand
  BY DEF InHand
<1>2. Complete' /\ WrittenOnce'
  BY <1>1 DEF OnceInv, Complete, WrittenOnce, Elems
<1>3. Apart'
  BY <1>1 DEF OnceInv, Apart, Distinct, Elems
<1> QED BY <1>2, <1>3 DEF OnceInv

LEMMA EnqueueOnce ==
  ASSUME OnceInv, Enqueue
  PROVE  OnceInv'
<1> DEFINE x == enqueued + 1
<1>1. /\ packets \in Seq(1 .. MaxPackets) /\ enqueued \in 0 .. MaxPackets /\ enqueued < MaxPackets
      /\ packets' = Append(packets, x) /\ enqueued' = x
      /\ UNCHANGED <<wire, returned, closed, isStopped, pc, held, last>>
  BY DEF OnceInv, TypeOK, Enqueue
<1>2. x \in 1 .. MaxPackets /\ MaxPackets \in Nat
  BY <1>1, WorkersAssumption
<1>3. /\ packets' \in Seq(1 .. MaxPackets) /\ Len(packets') = Len(packets) + 1
      /\ Elems(packets') = Elems(packets) \cup {x}
      /\ Distinct(packets) /\ x \notin Elems(packets) => Distinct(packets')
  BY <1>1, <1>2, AppendElems
<1>4. wake' \in {0, 1} /\ panicked' \in BOOLEAN
  <2>1. wake \in {0, 1} /\ panicked \in BOOLEAN /\ closed \in BOOLEAN
    BY DEF OnceInv, TypeOK
  <2>2. \/ wake' = 1 /\ panicked' = (panicked \/ closed)
        \/ wake' = wake /\ panicked' = panicked
    BY DEF Enqueue, Token
  <2> QED BY <2>1, <2>2
<1>5. TypeOK'
  BY <1>1, <1>2, <1>3, <1>4 DEF OnceInv, TypeOK
<1>6. Senders' = Senders /\ InHand' = InHand /\ Elems(returned)' = Elems(returned) /\ Elems(wire)' = Elems(wire)
  BY <1>1 DEF Senders, InHand, Elems
<1>7. 1 .. enqueued' = (1 .. enqueued) \cup {x} /\ x \notin 1 .. enqueued
  BY <1>1
<1>8. Len(packets) \in Nat /\ Len(returned) \in Nat /\ Cardinality(Senders) \in Nat
  BY FewSenders DEF OnceInv, TypeOK
<1> HIDE DEF x
<1>9. x \notin Elems(packets) /\ x \notin InHand /\ x \notin Elems(returned)
  BY <1>7 DEF OnceInv, Complete
<1>10. Elems(packets') \cup InHand' \cup Elems(returned') = 1 .. enqueued'
  BY <1>3, <1>6, <1>7 DEF OnceInv, Complete
<1>11. Len(packets') + Cardinality(Senders') + Len(returned') = enqueued'
  BY <1>1, <1>3, <1>6, <1>8 DEF OnceInv, Complete, x
<1>12. WrittenOnce'
  BY <1>1, <1>6 DEF OnceInv, WrittenOnce
<1>13. Apart'
  BY <1>1, <1>3, <1>6, <1>9 DEF OnceInv, Apart
<1> QED BY <1>5, <1>10, <1>11, <1>12, <1>13 DEF OnceInv, Complete

LEMMA PopOnce ==
  ASSUME OnceInv, NEW w \in Workers, Pop(w)
  PROVE  OnceInv'
<1> DEFINE x == Head(packets)
<1>1. /\ packets \in Seq(1 .. MaxPackets) /\ packets # <<>> /\ w \notin Senders
      /\ pc \in [Workers -> {"none", "sleep", "loop", "send", "done"}]
      /\ held \in [Workers -> (1 .. MaxPackets) \cup {None}]
      /\ packets' = Tail(packets)
      /\ pc' = [pc EXCEPT ![w] = "send"] /\ held' = [held EXCEPT ![w] = x]
      /\ UNCHANGED <<wire, returned, wake, closed, isStopped, enqueued, panicked, last>>
  BY DEF OnceInv, TypeOK, Pop, Senders
<1>2. /\ packets' \in Seq(1 .. MaxPackets) /\ Len(packets') = Len(packets) - 1
      /\ x \in 1 .. MaxPackets
      /\ Elems(packets) = {x} \cup Elems(packets')
      /\ Distinct(packets) => Distinct(packets') /\ x \notin Elems(packets')
  BY <1>1, TailElems
<1> HIDE DEF x
<1>3. Senders' = Senders \cup {w} /\ held'[w] = x /\ \A v \in Senders : held'[v] = held[v]
  BY <1>1 DEF Senders
<1>4. InHand' = InHand \cup {x}
  BY <1>3 DEF InHand
<1>5. Elems(returned)' = Elems(returned) /\ Elems(wire)' = Elems(wire)
  BY <1>1 DEF Elems
<1>6. TypeOK'
  <2>1. /\ pc' \in [Workers -> {"none", "sleep", "loop", "send", "done"}]
        /\ held' \in [Workers -> (1 .. MaxPackets) \cup {None}]
    BY <1>1, <1>2
  <2> QED BY <2>1, <1>1, <1>2 DEF OnceInv, TypeOK
<1>7. Len(packets') + Cardinality(Senders') + Len(returned') = enqueued'
  <2>1. Cardinality(Senders \cup {w}) = Cardinality(Senders) + 1
    BY <1>1, FewSenders, FS_AddElement
  <2>2. Len(packets) \in Nat /\ Len(returned) \in Nat /\ Cardinality(Senders) \in Nat
    BY FewSenders DEF OnceInv, TypeOK
  <2> QED BY <2>1, <2>2, <1>1, <1>2, <1>3 DEF OnceInv, Complete
<1>8. Elems(packets') \cup InHand' \cup Elems(returned') = 1 .. enqueued'
  BY <1>1, <1>2, <1>4, <1>5 DEF OnceInv, Complete
<1>9. WrittenOnce'
  BY <1>1, <1>5 DEF OnceInv, WrittenOnce
<1>10. Apart'
  <2>1. x \notin InHand /\ x \notin Elems(returned) /\ Distinct(packets') /\ x \notin Elems(packets')
    BY <1>2 DEF OnceInv, Apart
  <2>2. \A v \in Senders : held[v] \in InHand
    BY DEF InHand
  <2>3. \A v, u \in Senders' : held'[v] = held'[u] => v = u
    BY <1>3, <2>1, <2>2 DEF OnceInv, Apart
  <2>4. \A v \in Senders' : held'[v] \in 1 .. MaxPackets
    BY <1>2, <1>3 DEF OnceInv, Apart
  <2>5. /\ Elems(packets') \cap InHand' = {}
        /\ Elems(packets') \cap Elems(returned)' = {}
        /\ InHand' \cap Elems(returned)' = {}
    BY <2>1, <1>2, <1>4, <1>5 DEF OnceInv, Apart
  <2> QED BY <2>1, <2>3, <2>4, <2>5 DEF Apart
<1> QED BY <1>6, <1>7, <1>8, <1>9, <1>10 DEF OnceInv, Complete

LEMMA SendOnce ==
  ASSUME OnceInv, NEW w \in Workers, Send(w)
  PROVE  OnceInv'
<1> DEFINE x == held[w]
           S == 1 .. MaxPackets
<1>1. /\ returned \in Seq(1 .. MaxPackets) /\ wire \in Seq(1 .. MaxPackets) /\ w \in Senders
      /\ pc \in [Workers -> {"none", "sleep", "loop", "send", "done"}]
      /\ held \in [Workers -> (1 .. MaxPackets) \cup {None}]
      /\ returned' = Append(returned, x) /\ (wire' = wire \/ wire' = Append(wire, x))
      /\ pc' = [pc EXCEPT ![w] = "loop"] /\ held' = [held EXCEPT ![w] = None]
      /\ UNCHANGED <<packets, wake, closed, isStopped, enqueued, panicked, last>>
  BY DEF OnceInv, TypeOK, Send, SendPacket, AfterSend, Senders
<1>2. x \in 1 .. MaxPackets /\ x \in InHand
  BY <1>1 DEF OnceInv, Apart, InHand
<1>3. x \notin Elems(returned) /\ x \notin Elems(packets) /\ x \notin Elems(wire)
  BY <1>2 DEF OnceInv, Apart, WrittenOnce
<1>20. returned \in Seq(S) /\ wire \in Seq(S) /\ x \in S
  BY <1>1, <1>2
<1> HIDE DEF x, S
<1>4. /\ returned' \in Seq(S) /\ Len(returned') = Len(returned) + 1
      /\ Elems(returned') = Elems(returned) \cup {x}
  <2>1. returned' = Append(returned, x)
    BY <1>1
  <2>2. /\ Append(returned, x) \in Seq(S) /\ Len(Append(returned, x)) = Len(returned) + 1
        /\ Elems(Append(returned, x)) = Elems(returned) \cup {x}
    BY <1>20, AppendElems
  <2> QED BY <2>1, <2>2
<1>5. Senders' = Senders \ {w} /\ \A v \in Senders' : held'[v] = held[v]
  BY <1>1 DEF Senders
<1>6. InHand' = InHand \ {x}
  <2>1. \A v \in Senders \ {w} : held[v] # x
    BY <1>1 DEF OnceInv, Apart, x
  <2>2. InHand' = { held[v] : v \in Senders \ {w} }
    BY <1>5 DEF InHand
  <2>3. InHand = { held[v] : v \in Senders \ {w} } \cup {x}
    BY <1>1 DEF InHand, x
  <2> QED BY <2>1, <2>2, <2>3
<1>7. wire' \in Seq(S) /\ WrittenOnce'
  <2>1. CASE wire' = wire
    BY <2>1, <1>1, <1>4, <1>20 DEF OnceInv, WrittenOnce
  <2>2. CASE wire' = Append(wire, x)
    <3>1. /\ wire' \in Seq(S) /\ Len(wire') = Len(wire) + 1
          /\ Elems(wire') = Elems(wire) \cup {x}
      <4>1. /\ Append(wire, x) \in Seq(S) /\ Len(Append(wire, x)) = Len(wire) + 1
            /\ Elems(Append(wire, x)) = Elems(wire) \cup {x}
        BY <1>20, AppendElems
      <4> QED BY <4>1, <2>2
    <3>2. Elems(wire) \in SUBSET S
      BY <1>20, ElemsOf
    <3>3. IsFiniteSet(S)
      BY WorkersAssumption, FS_Interval DEF S
    <3>5. IsFiniteSet(Elems(wire))
      BY <3>2, <3>3, FS_Subset
    <3>4. Cardinality(Elems(wire) \cup {x}) = Cardinality(Elems(wire)) + 1
      BY <3>5, <1>3, FS_AddElement
    <3> QED BY <3>1, <3>4, <1>4 DEF OnceInv, WrittenOnce
  <2> QED BY <1>1, <1>20, <2>1, <2>2
<1>8. TypeOK'
  <2>1. /\ pc' \in [Workers -> {"none", "sleep", "loop", "send", "done"}]
        /\ held' \in [Workers -> (1 .. MaxPackets) \cup {None}]
    BY <1>1
  <2> QED BY <2>1, <1>1, <1>4, <1>7 DEF OnceInv, TypeOK, S
<1>9. Len(packets') + Cardinality(Senders') + Len(returned') = enqueued'
  <2>1. Cardinality(Senders \ {w}) = Cardinality(Senders) - 1
    BY <1>1, FewSenders, FS_RemoveElement
  <2>2. Len(packets) \in Nat /\ Len(returned) \in Nat /\ Cardinality(Senders) \in Nat
    BY FewSenders DEF OnceInv, TypeOK
  <2>3. Len(packets) + Cardinality(Senders) + Len(returned) = enqueued
    BY DEF OnceInv, Complete
  <2>4. /\ Len(packets') = Len(packets) /\ Cardinality(Senders') = Cardinality(Senders) - 1
        /\ Len(returned') = Len(returned) + 1 /\ enqueued' = enqueued
    BY <2>1, <1>1, <1>4, <1>5
  <2> QED BY <2>2, <2>3, <2>4
<1>10. Elems(packets') \cup InHand' \cup Elems(returned') = 1 .. enqueued'
  BY <1>1, <1>2, <1>4, <1>6 DEF OnceInv, Complete
<1>11. Apart'
  <2>1. Elems(packets)' = Elems(packets) /\ Distinct(packets)' /\ Elems(returned') = Elems(returned)'
    BY <1>1 DEF OnceInv, Apart, Elems, Distinct
  <2>2. /\ Elems(packets)' \cap InHand' = {}
        /\ Elems(packets)' \cap Elems(returned)' = {}
        /\ InHand' \cap Elems(returned)' = {}
    BY <2>1, <1>3, <1>4, <1>6 DEF OnceInv, Apart
  <2>3. /\ \A v, u \in Senders' : held'[v] = held'[u] => v = u
        /\ \A v \in Senders' : held'[v] \in 1 .. MaxPackets
    BY <1>5 DEF OnceInv, Apart
  <2> QED BY <2>1, <2>2, <2>3 DEF Apart
<1> QED BY <1>7, <1>8, <1>9, <1>10, <1>11 DEF OnceInv, Complete

LEMMA OnceHolds == Spec => []OnceInv
<1>1. OnceInv /\ [Next]_vars => OnceInv'
  <2> SUFFICES ASSUME OnceInv, [Next]_vars PROVE OnceInv'
    OBVIOUS
  <2>1. ASSUME NEW w \in Workers, \/ Start(w) \/ Wake(w) \/ Exit(w) \/ Sleep(w)
        PROVE  OnceInv'
    <3>1. /\ UNCHANGED <<packets, wire, returned, enqueued, held, closed, isStopped, panicked, last>>
          /\ pc[w] # "send" /\ wake' \in {wake, 0}
          /\ \E to \in {"sleep", "loop", "done"} : pc' = [pc EXCEPT ![w] = to]
      BY <2>1 DEF Start, Wake, Exit, Exits, Sleep
    <3>2. pc \in [Workers -> {"none", "sleep", "loop", "send", "done"}] /\ wake \in {0, 1}
      BY DEF OnceInv, TypeOK
    <3>3. pc' \in [Workers -> {"none", "sleep", "loop", "send", "done"}] /\ wake' \in {0, 1}
      BY <3>1, <3>2
    <3>4. Senders' = Senders
      BY <3>1, <3>2 DEF Senders
    <3>5. TypeOK'
      BY <3>1, <3>3 DEF OnceInv, TypeOK
    <3> QED BY <3>1, <3>4, <3>5, OnceUnmoved
  <2>2. CASE Stop
    <3>1. /\ UNCHANGED <<packets, wire, returned, enqueued, held, pc, wake>>
          /\ closed' = TRUE /\ isStopped' = TRUE /\ panicked' \in BOOLEAN
          /\ last' = last \/ last' = Len(returned)
      BY <2>2 DEF Stop
    <3>2. Len(returned) \in 0 .. MaxPackets
      <4>1. Len(packets) \in Nat /\ Len(returned) \in Nat /\ Cardinality(Senders) \in Nat
            /\ enqueued \in 0 .. MaxPackets
        BY FewSenders DEF OnceInv, TypeOK
      <4> QED BY <4>1, WorkersAssumption DEF OnceInv, Complete
    <3>3. last' \in 0 .. MaxPackets
      BY <3>1, <3>2 DEF OnceInv, TypeOK
    <3>4. TypeOK'
      BY <3>1, <3>3 DEF OnceInv, TypeOK
    <3>5. Senders' = Senders
      BY <3>1 DEF Senders
    <3> QED BY <3>1, <3>4, <3>5, OnceUnmoved
  <2>3. CASE Enqueue
    BY <2>3, EnqueueOnce
  <2>4. ASSUME NEW w \in Workers, Pop(w) PROVE OnceInv'
    BY <2>4, PopOnce
  <2>5. ASSUME NEW w \in Workers, Send(w) PROVE OnceInv'
    BY <2>5, SendOnce
  <2>6. CASE UNCHANGED vars
    <3>1. UNCHANGED <<packets, wire, returned, enqueued, held>> /\ TypeOK' /\ Senders' = Senders
      BY <2>6 DEF vars, OnceInv, TypeOK, Senders
    <3> QED BY <3>1, OnceUnmoved
  <2> QED BY <2>1, <2>2, <2>3, <2>4, <2>5, <2>6 DEF Next, sendWorker
<1> QED BY <1>1, OnceInit, PTL DEF Spec

\* For any number of workers and packets: each packet is in one place, its buffer
\* goes back to the pool once, and only what goes back was written (base.go:46-66,
\* no_queue.go:66-95).
THEOREM EachPacketOnce == Spec => []EachOnce
<1>1. OnceInv => EachOnce
  BY DEF OnceInv, Complete, WrittenOnce, EachOnce, Elems, Senders, InHand
<1> QED BY <1>1, OnceHolds, PTL
-----------------------------------------------------------------------------
(* One worker implements the pacer of PacedStream: what left, the packet   *)
(* in hand and the queue are the packets in the order of acceptance.       *)

Hand(w) == IF pc[w] = "send" THEN 1 ELSE 0

OrderInv(w) ==
  /\ TypeOK
  /\ \A i \in 1 .. Len(returned) : returned[i] = i
  /\ pc[w] = "send" => held[w] = Len(returned) + 1
  /\ \A i \in 1 .. Len(packets) : packets[i] = Len(returned) + Hand(w) + i
  /\ Len(returned) + Hand(w) + Len(packets) = enqueued
  /\ isStopped /\ pc[w] = "send" => Len(returned) = last

\* A state is the abstract one's counts and whether the worker is between its start
\* and its end.
LEMMA OneWorkerActive ==
  ASSUME NEW w, Workers = {w}
  PROVE  /\ (\E v \in Workers : pc[v] \notin {"none", "done"}) <=> pc[w] \notin {"none", "done"}
         /\ (\E v \in Workers : pc[v] \notin {"none", "done"})' <=> pc'[w] \notin {"none", "done"}
OBVIOUS

LEMMA OrderInit ==
  ASSUME NEW w, Workers = {w}, Init
  PROVE  OrderInv(w) /\ Paced!Init
<1>1. TypeOK
  BY OnceInit DEF OnceInv
<1>2. /\ packets = <<>> /\ returned = <<>> /\ enqueued = 0 /\ isStopped = FALSE /\ last = 0
      /\ pc[w] = "none" /\ w \in Workers
  BY DEF Init, BaseInit
<1>3. OrderInv(w)
  BY <1>1, <1>2 DEF OrderInv, Hand
<1>4. Paced!Init
  BY <1>2, OneWorkerActive DEF Paced!Init
<1> QED BY <1>3, <1>4

\* What SendPacket takes is the next packet to leave.
LEMMA SendLeaves ==
  ASSUME NEW w, Workers = {w}, OrderInv(w), TypeOK', Send(w)
  PROVE  OrderInv(w)' /\ Paced!Leave
<1> DEFINE n == Len(returned)
<1>1. /\ w \in Workers /\ pc[w] = "send" /\ held[w] = n + 1 /\ Hand(w) = 1
      /\ returned \in Seq(1 .. MaxPackets) /\ packets \in Seq(1 .. MaxPackets)
      /\ pc \in [Workers -> {"none", "sleep", "loop", "send", "done"}]
  BY DEF OrderInv, TypeOK, Send, Hand
<1>2. n \in Nat /\ Len(packets) \in Nat
  BY <1>1
<1>3. /\ returned' = Append(returned, n + 1) /\ pc' = [pc EXCEPT ![w] = "loop"]
      /\ UNCHANGED <<packets, wake, closed, isStopped, enqueued, panicked, last>>
  BY <1>1 DEF Send, SendPacket, AfterSend
<1>4. pc'[w] = "loop" /\ Hand(w)' = 0
  BY <1>1, <1>3 DEF Hand
<1>5. Len(returned') = n + 1 /\ \A i \in 1 .. n + 1 : returned'[i] = IF i = n + 1 THEN n + 1 ELSE returned[i]
  BY <1>1, <1>3
<1> HIDE DEF n
<1>6. \A i \in 1 .. n + 1 : returned'[i] = i
  <2>1. \A i \in 1 .. n + 1 : i = n + 1 \/ i \in 1 .. n
    BY <1>2
  <2> QED BY <1>5, <2>1 DEF OrderInv, n
<1>7. \A i \in 1 .. Len(packets) : packets[i] = (n + 1) + 0 + i
  BY <1>1, <1>2 DEF OrderInv, n
<1>8. (n + 1) + 0 + Len(packets) = enqueued /\ n < enqueued
  BY <1>1, <1>2 DEF OrderInv, n
<1>9. OrderInv(w)'
  BY <1>3, <1>4, <1>5, <1>6, <1>7, <1>8 DEF OrderInv
<1>10. isStopped => n = last
  BY <1>1 DEF OrderInv, n
<1>11. Paced!Leave
  BY <1>1, <1>3, <1>4, <1>8, <1>10, OneWorkerActive DEF Paced!Leave, n
<1> QED BY <1>9, <1>11

LEMMA PopStutters ==
  ASSUME NEW w, Workers = {w}, OrderInv(w), TypeOK', Pop(w)
  PROVE  OrderInv(w)' /\ UNCHANGED Paced!vars
<1>1. /\ w \in Workers /\ pc[w] = "loop" /\ packets # <<>> /\ ~isStopped /\ Hand(w) = 0
      /\ packets \in Seq(1 .. MaxPackets) /\ returned \in Seq(1 .. MaxPackets)
      /\ pc \in [Workers -> {"none", "sleep", "loop", "send", "done"}]
      /\ held \in [Workers -> (1 .. MaxPackets) \cup {None}]
      /\ packets' = Tail(packets)
      /\ pc' = [pc EXCEPT ![w] = "send"] /\ held' = [held EXCEPT ![w] = Head(packets)]
      /\ UNCHANGED <<wire, returned, wake, closed, isStopped, enqueued, panicked, last>>
  BY DEF OrderInv, TypeOK, Pop, Exits, Hand
<1>2. pc'[w] = "send" /\ held'[w] = Head(packets) /\ Hand(w)' = 1
  BY <1>1 DEF Hand
<1>3. /\ Len(packets) \in Nat \ {0} /\ Len(returned) \in Nat
      /\ Head(packets) = packets[1] /\ Len(Tail(packets)) = Len(packets) - 1
      /\ \A i \in 1 .. Len(packets) - 1 : Tail(packets)[i] = packets[i + 1]
  BY <1>1
<1>4. packets[1] = Len(returned) + 1
  <2>1. 1 \in 1 .. Len(packets)
    BY <1>3
  <2>2. packets[1] = Len(returned) + 0 + 1
    BY <1>1, <2>1 DEF OrderInv
  <2> QED BY <1>3, <2>2
<1>5. \A i \in 1 .. Len(Tail(packets)) : Tail(packets)[i] = Len(returned) + 1 + i
  <2> SUFFICES ASSUME NEW i \in 1 .. Len(packets) - 1 PROVE Tail(packets)[i] = Len(returned) + 1 + i
    BY <1>3
  <2>1. i + 1 \in 1 .. Len(packets)
    BY <1>3
  <2>2. packets[i + 1] = Len(returned) + 0 + (i + 1)
    BY <1>1, <2>1 DEF OrderInv
  <2> QED BY <1>3, <2>2
<1>6. Len(returned) + 1 + Len(Tail(packets)) = enqueued
  <2>1. Len(returned) + 0 + Len(packets) = enqueued
    BY <1>1 DEF OrderInv
  <2> QED BY <1>3, <2>1
<1>7. OrderInv(w)'
  BY <1>1, <1>2, <1>3, <1>4, <1>5, <1>6 DEF OrderInv
<1>8. UNCHANGED Paced!vars
  BY <1>1, <1>2, OneWorkerActive DEF Paced!vars
<1> QED BY <1>7, <1>8

LEMMA EnqueueAccepts ==
  ASSUME NEW w, Workers = {w}, OrderInv(w), TypeOK', Enqueue
  PROVE  OrderInv(w)' /\ Paced!Accept
<1>1. /\ packets \in Seq(1 .. MaxPackets) /\ returned \in Seq(1 .. MaxPackets)
      /\ enqueued \in Nat /\ packets' = Append(packets, enqueued + 1) /\ enqueued' = enqueued + 1
      /\ UNCHANGED <<wire, returned, closed, isStopped, pc, held, last>>
  BY DEF OrderInv, TypeOK, Enqueue
<1>2. /\ Len(packets) \in Nat /\ Len(packets') = Len(packets) + 1 /\ Len(returned) \in Nat
      /\ \A i \in 1 .. Len(packets) + 1 : packets'[i] = IF i = Len(packets) + 1 THEN enqueued + 1 ELSE packets[i]
  BY <1>1
<1>3. Hand(w) \in Nat /\ Hand(w)' = Hand(w)
  BY <1>1 DEF Hand
<1>4. Len(returned) + Hand(w) + Len(packets) = enqueued
  BY DEF OrderInv
<1>5. \A i \in 1 .. Len(packets') : packets'[i] = Len(returned) + Hand(w) + i
  <2> SUFFICES ASSUME NEW i \in 1 .. Len(packets) + 1 PROVE packets'[i] = Len(returned) + Hand(w) + i
    BY <1>2
  <2>1. CASE i = Len(packets) + 1
    BY <1>2, <1>3, <1>4, <2>1
  <2>2. CASE i # Len(packets) + 1
    <3>1. i \in 1 .. Len(packets)
      BY <1>2, <2>2
    <3> QED BY <1>2, <2>2, <3>1 DEF OrderInv
  <2> QED BY <2>1, <2>2
<1>6. Len(returned) + Hand(w) + Len(packets') = enqueued'
  <2>1. Len(packets') = Len(packets) + 1 /\ enqueued' = enqueued + 1
    BY <1>1, <1>2
  <2>2. Len(returned) \in Nat /\ Len(packets) \in Nat /\ Hand(w) \in Nat
    BY <1>2, <1>3
  <2> QED BY <1>4, <2>1, <2>2
<1>7. OrderInv(w)'
  BY <1>1, <1>3, <1>5, <1>6 DEF OrderInv
<1>8. Paced!Accept
  BY <1>1 DEF Paced!Accept
<1> QED BY <1>7, <1>8

\* Steps that move neither packets nor the worker's hand.
LEMMA OrderUnmoved ==
  ASSUME NEW w, OrderInv(w), TypeOK', UNCHANGED <<packets, returned, enqueued, held>>,
         pc'[w] = "send" <=> pc[w] = "send",
         isStopped' /\ pc'[w] = "send" => Len(returned) = last'
  PROVE  OrderInv(w)'
<1>1. Hand(w)' = Hand(w)
  BY DEF Hand
<1> QED BY <1>1 DEF OrderInv

LEMMA StepsArePaced ==
  ASSUME NEW w, Workers = {w}, OrderInv(w), TypeOK', [Next]_vars
  PROVE  OrderInv(w)' /\ [Paced!Next]_(Paced!vars)
<1>1. w \in Workers /\ pc \in [Workers -> {"none", "sleep", "loop", "send", "done"}]
  BY DEF OrderInv, TypeOK
<1>2. CASE Start(w)
  <2>1. /\ pc[w] = "none" /\ ~isStopped /\ pc'[w] = "sleep"
        /\ UNCHANGED <<packets, returned, enqueued, held, isStopped, last>>
    BY <1>1, <1>2 DEF Start
  <2>2. Paced!Start
    BY <2>1, OneWorkerActive DEF Paced!Start
  <2> QED BY <2>1, <2>2, OrderUnmoved DEF Paced!Next
<1>3. CASE Wake(w) \/ Sleep(w)
  <2>1. /\ pc[w] \in {"sleep", "loop"} /\ pc'[w] \in {"sleep", "loop"}
        /\ UNCHANGED <<packets, returned, enqueued, held, isStopped, last>>
    BY <1>1, <1>3 DEF Wake, Sleep
  <2>2. UNCHANGED Paced!vars
    BY <2>1, OneWorkerActive DEF Paced!vars
  <2> QED BY <2>1, <2>2, OrderUnmoved
<1>4. CASE Exit(w)
  <2>1. /\ pc[w] = "loop" /\ isStopped /\ pc'[w] = "done"
        /\ UNCHANGED <<packets, returned, enqueued, held, isStopped, last>>
    BY <1>1, <1>4 DEF Exit, Exits
  <2>2. Paced!End
    BY <2>1, OneWorkerActive DEF Paced!End
  <2> QED BY <2>1, <2>2, OrderUnmoved DEF Paced!Next
<1>5. CASE Stop
  <2>1. /\ ~isStopped /\ isStopped' = TRUE /\ last' = Len(returned)
        /\ UNCHANGED <<packets, returned, enqueued, held, pc>>
    BY <1>5 DEF Stop, MayStop
  <2>2. Paced!Stop
    BY <2>1 DEF Paced!Stop
  <2> QED BY <2>1, <2>2, OrderUnmoved DEF Paced!Next
<1>6. CASE Pop(w)
  BY <1>6, PopStutters
<1>7. CASE Send(w)
  BY <1>7, SendLeaves DEF Paced!Next
<1>8. CASE Enqueue
  BY <1>8, EnqueueAccepts DEF Paced!Next
<1>9. CASE UNCHANGED vars
  <2>1. UNCHANGED <<packets, returned, enqueued, held, isStopped, last, pc>>
    BY <1>9 DEF vars
  <2>2. UNCHANGED Paced!vars
    BY <2>1 DEF Paced!vars
  <2>3. isStopped' /\ pc'[w] = "send" => Len(returned) = last'
    BY <2>1 DEF OrderInv
  <2> QED BY <2>1, <2>2, <2>3, OrderUnmoved
<1> QED BY <1>2, <1>3, <1>4, <1>5, <1>6, <1>7, <1>8, <1>9 DEF Next, sendWorker

\* The pacer with one worker, for any number of packets: packets leave one by one in
\* the order of acceptance, none before Start, and after Stop at most the one that the
\* worker had in hand (no_queue.go:46-100).  That each of them does leave, the
\* fairness of the abstract pacer, is liveness and not part of the theorem.
THEOREM PacerSteps ==
  ASSUME NEW w, Workers = {w}
  PROVE  Spec => Paced!Init /\ [][Paced!Next]_(Paced!vars)
<1>1. Init => OrderInv(w) /\ Paced!Init
  BY OrderInit
<1>2. OrderInv(w) /\ OnceInv' /\ [Next]_vars => OrderInv(w)' /\ [Paced!Next]_(Paced!vars)
  BY StepsArePaced DEF OnceInv
<1> QED BY <1>1, <1>2, OnceHolds, PTL DEF Spec
=============================================================================
