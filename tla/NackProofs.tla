----------------------------- MODULE NackProofs ------------------------------
(***************************************************************************)
(* The NACK queue for every capacity, limit, backoff and clock: its types, *)
(* its order by age, and that a purge takes out exactly what expired; and  *)
(* for callers that push the gaps of one stream, the time between requests *)
(* and that the pairs name exactly what is asked for.                      *)
(***************************************************************************)
EXTENDS NackQueue, WellFoundedInduction, SequenceTheorems, FiniteSetTheorems, TLAPS

-----------------------------------------------------------------------------
(* Loops that count up: induction and recursion over 0 .. n, with sets in  *)
(* place of predicates.                                                    *)

\* A nonempty set of naturals has a least element.
LEMMA LeastElement ==
  ASSUME NEW T \in SUBSET Nat, T # {}
  PROVE  \E x \in T : \A y \in T : x <= y
<1> DEFINE Less == { ss \in Nat \X Nat : ss[1] < ss[2] }
<1>1. IsWellFoundedOn(Less, Nat)
  BY NatLessThanWellFounded DEF OpToRel
<1>2. PICK x \in T : \A y \in T : ~(<<y, x>> \in Less)
  <2> HIDE DEF Less
  <2> QED BY <1>1, WFMin
<1>3. \A y \in T : ~(y < x)
  BY <1>2
<1> QED BY <1>3

\* A set that holds 0, and i + 1 whenever it holds i, holds 0 .. hi.
LEMMA UpwardInduction ==
  ASSUME NEW hi \in Nat, NEW P \in SUBSET (0 .. hi), 0 \in P,
         \A i \in 0 .. hi - 1 : i \in P => i + 1 \in P
  PROVE  \A i \in 0 .. hi : i \in P
<1> DEFINE T == (0 .. hi) \ P
<1> SUFFICES ASSUME T # {} PROVE FALSE
  OBVIOUS
<1>1. PICK x \in T : \A y \in T : x <= y
  <2>1. T \in SUBSET Nat
    OBVIOUS
  <2> HIDE DEF T
  <2> QED BY <2>1, LeastElement
<1>2. x \in 0 .. hi /\ x \notin P /\ x # 0
  OBVIOUS
<1>3. x - 1 \in 0 .. hi - 1 /\ (x - 1) + 1 = x /\ ~(x <= x - 1)
  BY <1>2
<1>4. x - 1 \in P
  BY <1>1, <1>3
<1> QED BY <1>2, <1>3, <1>4

\* f[i] is the value after the body G[1], ..., G[i] ran on base.
CountsUp(f, n, V, base, G) ==
  /\ f \in [0 .. n -> V]
  /\ f[0] = base
  /\ \A i \in 1 .. n : f[i] = G[i][f[i - 1]]

LEMMA UpwardRecursion ==
  ASSUME NEW n \in Nat, NEW V, NEW base \in V, NEW G \in [1 .. n -> [V -> V]]
  PROVE  \E f : CountsUp(f, n, V, base, G)
<1> DEFINE P == { k \in 0 .. n : \E f : CountsUp(f, k, V, base, G) }
<1>1. 0 \in P
  <2>1. CountsUp([i \in 0 .. 0 |-> base], 0, V, base, G)
    BY DEF CountsUp
  <2> QED BY <2>1
<1>2. ASSUME NEW k \in 0 .. n - 1, k \in P PROVE k + 1 \in P
  <2>1. PICK f : CountsUp(f, k, V, base, G)
    BY <1>2
  <2> DEFINE v == G[k + 1][f[k]]
             g == [i \in 0 .. k + 1 |-> IF i = k + 1 THEN v ELSE f[i]]
  <2>2. v \in V
    BY <2>1 DEF CountsUp
  <2>3. g \in [0 .. k + 1 -> V] /\ g[0] = base
    BY <2>1, <2>2 DEF CountsUp
  <2>4. g[k + 1] = v /\ \A i \in 0 .. k : g[i] = f[i]
    OBVIOUS
  <2> HIDE DEF g
  <2>5. ASSUME NEW i \in 1 .. k + 1 PROVE g[i] = G[i][g[i - 1]]
    <3>1. i - 1 \in 0 .. k /\ g[i - 1] = f[i - 1]
      BY <2>4
    <3>2. CASE i = k + 1
      BY <2>4, <3>1, <3>2
    <3>3. CASE i \in 1 .. k
      BY <2>1, <2>4, <3>1, <3>3 DEF CountsUp
    <3> QED BY <3>2, <3>3
  <2>6. CountsUp(g, k + 1, V, base, G)
    BY <2>3, <2>5 DEF CountsUp
  <2> QED BY <2>6
<1>3. n \in P
  <2>1. P \in SUBSET (0 .. n)
    OBVIOUS
  <2> HIDE DEF P
  <2>2. \A i \in 0 .. n : i \in P
    BY <1>1, <1>2, <2>1, UpwardInduction
  <2> QED BY <2>2
<1> QED BY <1>3

-----------------------------------------------------------------------------

\* What the proofs know about the constants.
LEMMA Params ==
  /\ SNRange \in Nat \ {0} /\ Width \in Nat
  /\ MaxNacks \in Nat \ {0} /\ MaxTries \in Nat \ {0}
  /\ MinInterval \in Nat /\ MaxInterval \in Nat /\ MaxLifetime \in Nat
  /\ IdleCap \in Nat /\ AgeCap \in Nat
  /\ MinInterval <= IdleCap /\ MaxInterval <= IdleCap
  /\ RangeCounts \subseteq Nat
  /\ DefaultRtt \in Rtts /\ Rtts \subseteq Nat
<1>1. MinInterval \in Nat /\ MaxInterval \in Nat /\ MaxLifetime \in Nat
  BY ParamsAssumption
<1>2. IdleCap \in Nat /\ AgeCap \in Nat /\ MinInterval <= IdleCap /\ MaxInterval <= IdleCap
  BY <1>1 DEF IdleCap, AgeCap
<1>3. SNRange \in Nat \ {0}
  BY ParamsAssumption
<1> QED BY <1>1, <1>2, <1>3, ParamsAssumption, RttAssumption

LEMMA SNClosed ==
  ASSUME NEW a \in Int, NEW b \in Int
  PROVE  Minus(a, b) \in SN /\ Plus(a, b) \in SN
BY Params DEF Minus, Plus, SN

-----------------------------------------------------------------------------
(* Queues.                                                                 *)

Queues == Seq(Entries)

LEMMA NewNackType == ASSUME NEW sn \in SN PROVE newNack(sn) \in Entries
BY Params DEF newNack, Entries

\* Taking one element out.
LEMMA WithoutFacts ==
  ASSUME NEW S, NEW q \in Seq(S), NEW i \in 1 .. Len(q)
  PROVE  /\ Without(q, i) \in Seq(S)
         /\ Len(Without(q, i)) = Len(q) - 1
         /\ \A j \in 1 .. Len(q) - 1 :
              Without(q, i)[j] = IF j < i THEN q[j] ELSE q[j + 1]
<1> DEFINE front == SubSeq(q, 1, i - 1)
           back == SubSeq(q, i + 1, Len(q))
<1>0. Len(q) \in Nat
  OBVIOUS
<1>1. /\ front \in Seq(S) /\ Len(front) = i - 1
      /\ \A j \in 1 .. i - 1 : front[j] = q[j]
  BY <1>0
<1>2. /\ back \in Seq(S) /\ Len(back) = Len(q) - i
      /\ \A j \in 1 .. Len(q) - i : back[j] = q[j + i]
  BY <1>0
<1> HIDE DEF front, back
<1>3. /\ front \o back \in Seq(S)
      /\ Len(front \o back) = Len(q) - 1
  <2>1. front \o back \in Seq(S) /\ Len(front \o back) = Len(front) + Len(back)
    BY <1>1, <1>2, ConcatProperties
  <2> QED BY <1>0, <1>1, <1>2, <2>1
<1>4. \A j \in 1 .. Len(q) - 1 : (front \o back)[j] = IF j < i THEN q[j] ELSE q[j + 1]
  <2> SUFFICES ASSUME NEW j \in 1 .. Len(q) - 1
               PROVE  (front \o back)[j] = IF j < i THEN q[j] ELSE q[j + 1]
    OBVIOUS
  <2>1. CASE j < i
    BY <1>0, <1>1, <1>2, <2>1
  <2>2. CASE ~(j < i)
    <3>1. (front \o back)[j] = back[j - (i - 1)]
      BY <1>0, <1>1, <1>2, <2>2
    <3>2. j - (i - 1) \in 1 .. Len(q) - i /\ (j - (i - 1)) + i = j + 1
      BY <1>0, <2>2
    <3> QED BY <1>2, <2>2, <3>1, <3>2
  <2> QED BY <2>1, <2>2
<1> QED BY <1>3, <1>4 DEF Without, front, back

\* FirstPlace is what its name says.
LEMMA FirstPlaceFacts ==
  ASSUME NEW q \in Queues, NEW sn, Places(q, sn) # {}
  PROVE  /\ FirstPlace(q, sn) \in 1 .. Len(q)
         /\ q[FirstPlace(q, sn)].seqNum = sn
         /\ \A j \in 1 .. Len(q) : q[j].seqNum = sn => FirstPlace(q, sn) <= j
<1>1. Places(q, sn) \in SUBSET Nat
  BY DEF Places, Queues
<1>2. \E i \in Places(q, sn) : \A j \in Places(q, sn) : i <= j
  BY <1>1, LeastElement
<1>3. /\ FirstPlace(q, sn) \in Places(q, sn)
      /\ \A j \in Places(q, sn) : FirstPlace(q, sn) <= j
  BY <1>2 DEF FirstPlace
<1> QED BY <1>3 DEF Places

LEMMA RemovedType ==
  ASSUME NEW q \in Queues, NEW sn
  PROVE  Removed(q, sn) \in Queues /\ Len(Removed(q, sn)) <= Len(q)
<1>1. CASE Places(q, sn) = {}
  BY <1>1 DEF Removed, Queues
<1>2. CASE Places(q, sn) # {}
  <2>1. FirstPlace(q, sn) \in 1 .. Len(q)
    BY <1>2, FirstPlaceFacts
  <2>2. /\ Without(q, FirstPlace(q, sn)) \in Queues
        /\ Len(Without(q, FirstPlace(q, sn))) = Len(q) - 1
    BY <2>1, WithoutFacts DEF Queues
  <2>3. Len(q) \in Nat
    BY DEF Queues
  <2> QED BY <1>2, <2>2, <2>3 DEF Removed
<1> QED BY <1>1, <1>2

LEMMA PushedType ==
  ASSUME NEW q \in Queues, NEW sn \in SN, Len(q) <= MaxNacks
  PROVE  Pushed(q, sn) \in Queues /\ Len(Pushed(q, sn)) <= MaxNacks
<1>1. newNack(sn) \in Entries
  BY NewNackType
<1>2. CASE Len(q) = MaxNacks
  <2>1. Tail(q) \in Queues /\ Len(Tail(q)) = MaxNacks - 1
    BY <1>2, Params DEF Queues
  <2> QED BY <1>1, <1>2, <2>1, Params DEF Pushed, Queues
<1>3. CASE Len(q) # MaxNacks
  BY <1>1, <1>3, Params DEF Pushed, Queues
<1> QED BY <1>2, <1>3

-----------------------------------------------------------------------------
(* Time, and one entry of Pairs.                                           *)

LEMMA EntryFields ==
  ASSUME NEW e \in Entries
  PROVE  /\ e.seqNum \in SN /\ e.tries \in 0 .. MaxTries
         /\ e.age \in 0 .. AgeCap /\ e.idle \in 0 .. IdleCap
         /\ e.tries \in Nat /\ e.age \in Nat /\ e.idle \in Nat
BY Params DEF Entries

LEMMA TickFacts ==
  ASSUME NEW e \in Entries
  PROVE  /\ Tick(e) \in Entries
         /\ Tick(e).seqNum = e.seqNum /\ Tick(e).tries = e.tries
         /\ Tick(e).age = Older(e.age, AgeCap) /\ Tick(e).idle = Older(e.idle, IdleCap)
<1>1. Older(e.age, AgeCap) \in 0 .. AgeCap /\ Older(e.idle, IdleCap) \in 0 .. IdleCap
  BY Params, EntryFields DEF Older
<1> QED BY <1>1 DEF Tick, Entries

LEMMA IntervalType ==
  ASSUME NEW e \in Entries, rtt \in Rtts
  PROVE  RequiredInterval(e) \in Nat
<1>1. e.tries # 0 => Backoff[rtt][e.tries] \in Nat
  <2>1. e.tries # 0 => e.tries \in 1 .. MaxTries
    BY Params, EntryFields
  <2> QED BY <2>1, RttAssumption
<1> QED BY <1>1, Params DEF RequiredInterval

\* An entry keeps its number and its age; it is sent or left alone.
LEMMA GetNackFacts ==
  ASSUME NEW e \in Entries, NEW late \in {0, 1}, rtt \in Rtts
  PROVE  /\ getNack(e, late) \in Entries
         /\ getNack(e, late).seqNum = e.seqNum /\ getNack(e, late).age = e.age
         /\ Sends(e, late) => /\ getNack(e, late).tries = e.tries + 1
                              /\ getNack(e, late).idle = 0
         /\ ~Sends(e, late) => getNack(e, late) = e
<1>1. CASE Sends(e, late)
  <2>1. e.tries + 1 \in 0 .. MaxTries /\ 0 \in 0 .. IdleCap
    BY <1>1, Params, EntryFields DEF Sends, Expired
  <2> QED BY <1>1, <2>1 DEF getNack, Entries
<1>2. CASE ~Sends(e, late)
  BY <1>2 DEF getNack
<1> QED BY <1>1, <1>2

-----------------------------------------------------------------------------
(* The two loops over the queue.                                           *)

LEMMA VisitedFacts ==
  ASSUME nacks \in Queues, rtt \in Rtts, NEW moved \in 1 .. Len(nacks) + 1
  PROVE  /\ Visited(moved) \in Queues /\ Len(Visited(moved)) = Len(nacks)
         /\ \A i \in 1 .. Len(nacks) :
              /\ nacks[i] \in Entries /\ Late(i, moved) \in {0, 1}
              /\ Visited(moved)[i] = getNack(nacks[i], Late(i, moved))
<1>1. \A i \in 1 .. Len(nacks) : nacks[i] \in Entries /\ Late(i, moved) \in {0, 1}
  BY DEF Queues, Late
<1>2. \A i \in 1 .. Len(nacks) : getNack(nacks[i], Late(i, moved)) \in Entries
  BY <1>1, GetNackFacts
<1>3. Len(nacks) \in Nat
  BY DEF Queues
<1>4. Visited(moved) \in Queues
  BY <1>2, <1>3 DEF Visited, Queues
<1> QED BY <1>1, <1>3, <1>4 DEF Visited

\* q[i] is the queue after the first i entries had their say in the purge.
Purging(q, moved) ==
  /\ q \in [0 .. Len(nacks) -> Queues]
  /\ q[0] = Visited(moved)
  /\ \A i \in 1 .. Len(nacks) :
       q[i] = IF Expired(nacks[i], Late(i, moved)) THEN Removed(q[i - 1], nacks[i].seqNum)
              ELSE q[i - 1]

LEMMA PurgedIsALoop ==
  ASSUME nacks \in Queues, rtt \in Rtts, NEW moved \in 1 .. Len(nacks) + 1
  PROVE  \E q : Purging(q, moved) /\ Purged(moved) = q[Len(nacks)]
<1> DEFINE n == Len(nacks)
           G == [i \in 1 .. n |->
                  [s \in Queues |-> IF Expired(nacks[i], Late(i, moved))
                                    THEN Removed(s, nacks[i].seqNum) ELSE s]]
           Body(f) == [i \in 0 .. n |->
                        IF i = 0 THEN Visited(moved)
                        ELSE IF Expired(nacks[i], Late(i, moved))
                        THEN Removed(f[i - 1], nacks[i].seqNum)
                        ELSE f[i - 1]]
           q == CHOOSE f : f = Body(f)
<1>0. n \in Nat /\ Visited(moved) \in Queues
  BY VisitedFacts DEF Queues
<1>1. G \in [1 .. n -> [Queues -> Queues]]
  BY RemovedType
<1>2. PICK f : CountsUp(f, n, Queues, Visited(moved), G)
  <2> HIDE DEF n, G
  <2> QED BY <1>0, <1>1, UpwardRecursion
<1>3. ASSUME NEW i \in 1 .. n
      PROVE  f[i] = IF Expired(nacks[i], Late(i, moved))
                    THEN Removed(f[i - 1], nacks[i].seqNum) ELSE f[i - 1]
  <2>1. f[i - 1] \in Queues /\ f[i] = G[i][f[i - 1]]
    <3> HIDE DEF n, G
    <3> QED BY <1>0, <1>2 DEF CountsUp
  <2> QED BY <2>1
<1>4. f = Body(f)
  BY <1>0, <1>2, <1>3 DEF CountsUp
<1>5. Purged(moved) = q[n]
  BY DEF Purged
<1> HIDE DEF Body
<1>6. q = Body(q)
  BY <1>4
<1> HIDE DEF q
<1>7. /\ q[0] = Visited(moved)
      /\ \A i \in 1 .. n : q[i] = IF Expired(nacks[i], Late(i, moved))
                                  THEN Removed(q[i - 1], nacks[i].seqNum) ELSE q[i - 1]
      /\ DOMAIN q = 0 .. n /\ q = [i \in 0 .. n |-> q[i]]
  <2> HIDE DEF n
  <2> QED BY <1>0, <1>6 DEF Body
<1> DEFINE P == { i \in 0 .. n : q[i] \in Queues }
<1>8. \A i \in 0 .. n : i \in P
  <2>1. 0 \in P
    BY <1>0, <1>7
  <2>2. \A i \in 0 .. n - 1 : i \in P => i + 1 \in P
    <3> SUFFICES ASSUME NEW i \in 0 .. n - 1, i \in P PROVE i + 1 \in P
      OBVIOUS
    <3>1. i + 1 \in 1 .. n /\ (i + 1) - 1 = i /\ i + 1 \in 0 .. n
      BY <1>0
    <3>2. q[i + 1] = IF Expired(nacks[i + 1], Late(i + 1, moved))
                     THEN Removed(q[i], nacks[i + 1].seqNum) ELSE q[i]
      BY <1>7, <3>1
    <3>3. Removed(q[i], nacks[i + 1].seqNum) \in Queues
      BY RemovedType
    <3> QED BY <3>1, <3>2, <3>3
  <2>3. P \in SUBSET (0 .. n)
    OBVIOUS
  <2> HIDE DEF P, n
  <2> QED BY <1>0, <2>1, <2>2, <2>3, UpwardInduction
<1>9. Purging(q, moved)
  BY <1>7, <1>8 DEF Purging
<1> QED BY <1>5, <1>9

LEMMA PurgedType ==
  ASSUME nacks \in Queues, rtt \in Rtts, NEW moved \in 1 .. Len(nacks) + 1
  PROVE  Purged(moved) \in Queues /\ Len(Purged(moved)) <= Len(nacks)
<1> DEFINE n == Len(nacks)
<1>1. PICK q : Purging(q, moved) /\ Purged(moved) = q[n]
  BY PurgedIsALoop
<1>0. n \in Nat /\ Len(Visited(moved)) = n
  BY VisitedFacts DEF Queues
<1>2. \A i \in 0 .. n : q[i] \in Queues /\ Len(q[i]) \in Nat
  BY <1>1 DEF Purging, Queues
<1> DEFINE P == { i \in 0 .. n : Len(q[i]) <= n }
<1>3. 0 \in P
  BY <1>0, <1>1 DEF Purging
<1>4. \A i \in 0 .. n - 1 : i \in P => i + 1 \in P
  <2> SUFFICES ASSUME NEW i \in 0 .. n - 1, i \in P PROVE i + 1 \in P
    OBVIOUS
  <2>1. i + 1 \in 1 .. n /\ (i + 1) - 1 = i /\ i + 1 \in 0 .. n /\ i \in 0 .. n
    BY <1>0
  <2>2. q[i + 1] = IF Expired(nacks[i + 1], Late(i + 1, moved))
                   THEN Removed(q[i], nacks[i + 1].seqNum) ELSE q[i]
    BY <1>1, <2>1 DEF Purging
  <2>3. /\ Removed(q[i], nacks[i + 1].seqNum) \in Queues
        /\ Len(Removed(q[i], nacks[i + 1].seqNum)) <= Len(q[i])
    BY <1>2, <2>1, RemovedType
  <2>4. Len(q[i + 1]) <= n
    <3>1. Len(q[i + 1]) \in Nat /\ Len(q[i]) \in Nat /\ Len(q[i]) <= n
      BY <1>2, <2>1
    <3> QED BY <1>0, <2>2, <2>3, <3>1
  <2> QED BY <2>1, <2>4
<1>5. P \in SUBSET (0 .. n)
  OBVIOUS
<1>6. \A i \in 0 .. n : i \in P
  <2> HIDE DEF P, n
  <2> QED BY <1>0, <1>3, <1>4, <1>5, UpwardInduction
<1> QED BY <1>0, <1>1, <1>2, <1>6

-----------------------------------------------------------------------------
(* The order by age.                                                       *)

Before(d, e) ==
  /\ d.age >= e.age
  /\ d.tries > e.tries \/ (d.tries = e.tries /\ d.idle >= e.idle)

Ordered(q) == \A i, j \in 1 .. Len(q) : i < j => Before(q[i], q[j])

LEMMA TickBefore ==
  ASSUME NEW d \in Entries, NEW e \in Entries, Before(d, e)
  PROVE  Before(Tick(d), Tick(e))
<1>1. Older(d.age, AgeCap) >= Older(e.age, AgeCap)
  BY Params, EntryFields DEF Older, Before
<1>2. d.idle >= e.idle => Older(d.idle, IdleCap) >= Older(e.idle, IdleCap)
  BY Params, EntryFields DEF Older
<1> QED BY <1>1, <1>2, TickFacts DEF Before

LEMMA TickedFacts ==
  ASSUME NEW q \in Queues
  PROVE  /\ Ticked(q) \in Queues /\ Len(Ticked(q)) = Len(q)
         /\ Ordered(q) => Ordered(Ticked(q))
<1>0. Len(q) \in Nat /\ \A i \in 1 .. Len(q) : q[i] \in Entries
  BY DEF Queues
<1>1. \A i \in 1 .. Len(q) : Tick(q[i]) \in Entries
  BY <1>0, TickFacts
<1>2. Ticked(q) \in Queues /\ Len(Ticked(q)) = Len(q)
  BY <1>0, <1>1 DEF Ticked, Queues
<1>3. \A i \in 1 .. Len(q) : Ticked(q)[i] = Tick(q[i])
  BY DEF Ticked
<1>4. ASSUME Ordered(q) PROVE Ordered(Ticked(q))
  <2> SUFFICES ASSUME NEW i \in 1 .. Len(q), NEW j \in 1 .. Len(q), i < j
               PROVE  Before(Ticked(q)[i], Ticked(q)[j])
    BY <1>2 DEF Ordered
  <2>1. Before(q[i], q[j])
    BY <1>4 DEF Ordered
  <2>2. Before(Tick(q[i]), Tick(q[j]))
    BY <1>0, <2>1, TickBefore
  <2> QED BY <1>3, <2>2
<1> QED BY <1>2, <1>4

LEMMA RemovedOrdered ==
  ASSUME NEW q \in Queues, NEW sn, Ordered(q)
  PROVE  Ordered(Removed(q, sn))
<1>1. CASE Places(q, sn) = {}
  BY <1>1 DEF Removed
<1>2. CASE Places(q, sn) # {}
  <2> DEFINE k == FirstPlace(q, sn)
             r == Without(q, k)
  <2>0. Len(q) \in Nat /\ k \in 1 .. Len(q)
    BY <1>2, FirstPlaceFacts DEF Queues
  <2>1. /\ Len(r) = Len(q) - 1
        /\ \A j \in 1 .. Len(q) - 1 : r[j] = IF j < k THEN q[j] ELSE q[j + 1]
    <3> HIDE DEF k
    <3> QED BY <2>0, WithoutFacts DEF Queues
  <2>2. Removed(q, sn) = r
    BY <1>2 DEF Removed
  <2> HIDE DEF r, k
  <2>3. ASSUME NEW i \in 1 .. Len(r), NEW j \in 1 .. Len(r), i < j
        PROVE  Before(r[i], r[j])
    <3> DEFINE a == IF i < k THEN i ELSE i + 1
               b == IF j < k THEN j ELSE j + 1
    <3>1. a \in 1 .. Len(q) /\ b \in 1 .. Len(q) /\ a < b
      BY <2>0, <2>1, <2>3
    <3>2. r[i] = q[a] /\ r[j] = q[b]
      BY <2>0, <2>1
    <3> HIDE DEF a, b
    <3> QED BY <3>1, <3>2 DEF Ordered
  <2> QED BY <2>2, <2>3 DEF Ordered
<1> QED BY <1>1, <1>2

\* A new entry comes after every other.
LEMMA NewNackLast ==
  ASSUME NEW d \in Entries, NEW sn
  PROVE  Before(d, newNack(sn))
BY EntryFields DEF Before, newNack

LEMMA PushedOrdered ==
  ASSUME NEW q \in Queues, NEW sn \in SN, Len(q) <= MaxNacks, Ordered(q)
  PROVE  Ordered(Pushed(q, sn))
<1> DEFINE t == IF Len(q) = MaxNacks THEN Tail(q) ELSE q
<1>0. Len(q) \in Nat /\ MaxNacks \in Nat \ {0}
  BY Params DEF Queues
<1>1. t \in Queues /\ Len(t) \in Nat /\ Ordered(t)
  <2>1. CASE Len(q) = MaxNacks
    <3>1. q # <<>>
      BY <1>0, <2>1
    <3>2. /\ Tail(q) \in Queues /\ Len(Tail(q)) = Len(q) - 1
          /\ \A i \in 1 .. Len(Tail(q)) : Tail(q)[i] = q[i + 1]
      BY <3>1, HeadTailProperties DEF Queues
    <3>3. ASSUME NEW i \in 1 .. Len(Tail(q)), NEW j \in 1 .. Len(Tail(q)), i < j
          PROVE  Before(Tail(q)[i], Tail(q)[j])
      <4>1. i + 1 \in 1 .. Len(q) /\ j + 1 \in 1 .. Len(q) /\ i + 1 < j + 1
        BY <1>0, <3>2, <3>3
      <4> QED BY <3>2, <4>1 DEF Ordered
    <3> QED BY <1>0, <2>1, <3>2, <3>3 DEF Ordered
  <2>2. CASE Len(q) # MaxNacks
    BY <1>0, <2>2
  <2> QED BY <2>1, <2>2
<1>2. Pushed(q, sn) = Append(t, newNack(sn))
  BY DEF Pushed
<1> HIDE DEF t
<1> DEFINE r == Append(t, newNack(sn))
<1>3. /\ Len(r) = Len(t) + 1
      /\ \A i \in 1 .. Len(t) : r[i] = t[i]
      /\ r[Len(t) + 1] = newNack(sn)
  BY <1>1, NewNackType DEF Queues
<1> HIDE DEF r
<1>4. ASSUME NEW i \in 1 .. Len(r), NEW j \in 1 .. Len(r), i < j
      PROVE  Before(r[i], r[j])
  <2>1. CASE j \in 1 .. Len(t)
    <3>1. i \in 1 .. Len(t)
      BY <1>1, <1>4, <2>1
    <3> QED BY <1>1, <1>3, <1>4, <2>1, <3>1 DEF Ordered
  <2>2. CASE j = Len(t) + 1
    <3>1. i \in 1 .. Len(t)
      BY <1>1, <1>4, <2>2
    <3>2. t[i] \in Entries
      BY <1>1, <3>1 DEF Queues
    <3> QED BY <1>3, <2>2, <3>1, <3>2, NewNackLast
  <2> QED BY <1>1, <1>3, <2>1, <2>2
<1>5. Pushed(q, sn) = r
  BY <1>2 DEF r
<1> QED BY <1>4, <1>5 DEF Ordered

-----------------------------------------------------------------------------
(* What a purge leaves.                                                    *)

\* Taking out the number of the first entry takes out the first entry.
LEMMA RemovedHead ==
  ASSUME NEW q \in Queues, q # <<>>
  PROVE  Removed(q, q[1].seqNum) = Tail(q)
<1> DEFINE sn == q[1].seqNum
<1>0. Len(q) \in Nat \ {0} /\ 1 \in 1 .. Len(q)
  BY EmptySeq DEF Queues
<1>1. Places(q, sn) # {}
  BY <1>0 DEF Places
<1>2. FirstPlace(q, sn) = 1
  <2>1. FirstPlace(q, sn) \in 1 .. Len(q) /\ FirstPlace(q, sn) <= 1
    <3> HIDE DEF sn
    <3>1. /\ FirstPlace(q, sn) \in 1 .. Len(q)
          /\ \A j \in 1 .. Len(q) : q[j].seqNum = sn => FirstPlace(q, sn) <= j
      BY <1>1, FirstPlaceFacts
    <3> QED BY <1>0, <3>1 DEF sn
  <2> QED BY <1>0, <2>1
<1>3. Removed(q, sn) = Without(q, 1)
  BY <1>1, <1>2 DEF Removed
<1>4. /\ Without(q, 1) \in Queues /\ Len(Without(q, 1)) = Len(q) - 1
      /\ \A j \in 1 .. Len(q) - 1 : Without(q, 1)[j] = q[j + 1]
  <2>1. /\ Without(q, 1) \in Seq(Entries) /\ Len(Without(q, 1)) = Len(q) - 1
        /\ \A j \in 1 .. Len(q) - 1 : Without(q, 1)[j] = IF j < 1 THEN q[j] ELSE q[j + 1]
    BY <1>0, WithoutFacts DEF Queues
  <2> QED BY <1>0, <2>1 DEF Queues
<1>5. /\ Tail(q) \in Queues /\ Len(Tail(q)) = Len(q) - 1
      /\ \A j \in 1 .. Len(q) - 1 : Tail(q)[j] = q[j + 1]
  BY HeadTailProperties DEF Queues
<1>6. Without(q, 1) = Tail(q)
  BY <1>0, <1>4, <1>5, SeqEqual DEF Queues
<1> QED BY <1>3, <1>6

LEMMA ExpiredFirst ==
  ASSUME NEW d \in Entries, NEW e \in Entries, Before(d, e), Expired(e, 0)
  PROVE  Expired(d, 0)
BY Params, EntryFields DEF Before, Expired

\* In an ordered queue the expired entries are the first ones.
LEMMA ExpiredPrefix ==
  ASSUME nacks \in Queues, Ordered(nacks)
  PROVE  \E gone \in 0 .. Len(nacks) :
           \A i \in 1 .. Len(nacks) : Expired(nacks[i], 0) <=> i <= gone
<1> DEFINE T == { i \in 1 .. Len(nacks) : ~Expired(nacks[i], 0) }
<1>0. Len(nacks) \in Nat /\ \A i \in 1 .. Len(nacks) : nacks[i] \in Entries
  BY DEF Queues
<1>1. CASE T = {}
  <2> WITNESS Len(nacks) \in 0 .. Len(nacks)
  <2> QED BY <1>0, <1>1
<1>2. CASE T # {}
  <2>1. PICK k \in T : \A j \in T : k <= j
    <3>1. T \in SUBSET Nat
      BY <1>0
    <3> HIDE DEF T
    <3> QED BY <1>2, <3>1, LeastElement
  <2>2. k \in 1 .. Len(nacks) /\ ~Expired(nacks[k], 0)
    BY <2>1
  <2>3. ASSUME NEW i \in 1 .. Len(nacks) PROVE Expired(nacks[i], 0) <=> i <= k - 1
    <3>1. CASE i <= k - 1
      <4>1. ~(k <= i)
        BY <1>0, <2>2, <3>1
      <4> QED BY <2>1, <3>1, <4>1
    <3>2. CASE i = k
      BY <1>0, <2>2, <3>2
    <3>3. CASE k < i
      <4>1. Before(nacks[k], nacks[i])
        BY <2>2, <3>3 DEF Ordered
      <4>2. Expired(nacks[i], 0) => Expired(nacks[k], 0)
        BY <1>0, <2>2, <4>1, ExpiredFirst
      <4> QED BY <1>0, <2>2, <3>3, <4>2
    <3> QED BY <1>0, <2>2, <3>1, <3>2, <3>3
  <2>4. k - 1 \in 0 .. Len(nacks)
    BY <1>0, <2>2
  <2> QED BY <2>3, <2>4
<1> QED BY <1>1, <1>2

\* So the purge leaves the rest of the queue, whatever numbers repeat.
LEMMA PurgedIsTheRest ==
  ASSUME nacks \in Queues, rtt \in Rtts, nacks # <<>>,
         NEW gone \in 0 .. Len(nacks),
         \A i \in 1 .. Len(nacks) : Expired(nacks[i], 0) <=> i <= gone
  PROVE  Purged(Len(nacks) + 1) = SubSeq(Visited(Len(nacks) + 1), gone + 1, Len(nacks))
<1> DEFINE n == Len(nacks)
           V == Visited(n + 1)
           done(i) == IF i < gone THEN i ELSE gone
<1>0. n \in Nat /\ n + 1 \in 1 .. n + 1
  BY DEF Queues
<1>1. /\ V \in Queues /\ Len(V) = n
      /\ \A i \in 1 .. n : nacks[i] \in Entries /\ V[i].seqNum = nacks[i].seqNum
  <2>1. /\ V \in Queues /\ Len(V) = n
        /\ \A i \in 1 .. n : /\ nacks[i] \in Entries /\ Late(i, n + 1) \in {0, 1}
                             /\ V[i] = getNack(nacks[i], Late(i, n + 1))
    BY <1>0, VisitedFacts
  <2>2. \A i \in 1 .. n : getNack(nacks[i], Late(i, n + 1)).seqNum = nacks[i].seqNum
    BY <2>1, GetNackFacts
  <2> QED BY <2>1, <2>2
<1>2. PICK q : Purging(q, n + 1) /\ Purged(n + 1) = q[n]
  BY <1>0, PurgedIsALoop
<1>3. /\ q[0] = V
      /\ \A i \in 1 .. n : q[i] = IF i <= gone THEN Removed(q[i - 1], nacks[i].seqNum)
                                  ELSE q[i - 1]
  <2>1. \A i \in 1 .. n : Late(i, n + 1) = 0
    BY <1>0 DEF Late
  <2>2. \A i \in 1 .. n : Expired(nacks[i], Late(i, n + 1)) <=> i <= gone
    BY <2>1
  <2> QED BY <1>2, <2>2 DEF Purging
<1> HIDE DEF V
<1> DEFINE P == { i \in 0 .. n : q[i] = SubSeq(V, done(i) + 1, n) }
<1>4. 0 \in P
  <2>1. SubSeq(V, 1, n) = V
    BY <1>1, SubSeqFull DEF Queues
  <2>2. done(0) + 1 = 1 /\ 0 \in 0 .. n
    BY <1>0
  <2> QED BY <1>3, <2>1, <2>2
<1>5. \A i \in 0 .. n - 1 : i \in P => i + 1 \in P
  <2> SUFFICES ASSUME NEW i \in 0 .. n - 1, i \in P PROVE i + 1 \in P
    OBVIOUS
  <2>0. i + 1 \in 1 .. n /\ (i + 1) - 1 = i /\ i + 1 \in 0 .. n /\ gone \in 0 .. n
    BY <1>0
  <2>1. CASE i + 1 <= gone
    <3>1. done(i) = i /\ done(i + 1) = i + 1
      BY <1>0, <2>0, <2>1
    <3> DEFINE s == SubSeq(V, i + 1, n)
    <3>2. q[i] = s
      BY <3>1
    <3>3. /\ s \in Queues /\ s # <<>> /\ s[1] = V[i + 1]
          /\ Tail(s) = SubSeq(V, (i + 1) + 1, n)
      <4>1. i + 1 \in 1 .. Len(V) /\ n \in i + 1 .. Len(V)
        BY <1>0, <1>1
      <4>2. Tail(s) = SubSeq(V, (i + 1) + 1, n)
        BY <1>1, <4>1, HeadTailOfSubSeq DEF Queues
      <4>3. s \in Queues /\ Len(s) = n - (i + 1) + 1 /\ s[1] = V[(i + 1) + 1 - 1]
        <5>1. \A j \in i + 1 .. n : V[j] \in Entries
          BY <1>0, <1>1 DEF Queues
        <5>2. i + 1 \in Int /\ n \in Int /\ i + 1 <= n /\ 1 \in 1 .. n - (i + 1) + 1
          BY <1>0
        <5>3. /\ s \in Seq(Entries)
              /\ Len(s) = IF i + 1 <= n THEN n - (i + 1) + 1 ELSE 0
              /\ \A j \in 1 .. n - (i + 1) + 1 : s[j] = V[(i + 1) + j - 1]
          <6> HIDE DEF n
          <6> QED BY <5>1, <5>2, SubSeqProperties
        <5> QED BY <5>2, <5>3 DEF Queues
      <4>4. s # <<>>
        <5>1. Len(s) # 0
          <6> HIDE DEF s
          <6>1. Len(s) = n - (i + 1) + 1 /\ n - (i + 1) + 1 # 0
            BY <1>0, <4>3
          <6> QED BY <6>1
        <5>2. Len(<<>>) = 0
          OBVIOUS
        <5> HIDE DEF s
        <5> QED BY <5>1, <5>2
      <4> QED BY <1>0, <4>2, <4>3, <4>4
    <3> HIDE DEF s
    <3>4. Removed(s, s[1].seqNum) = Tail(s)
      BY <3>3, RemovedHead
    <3>5. s[1].seqNum = nacks[i + 1].seqNum
      BY <1>1, <2>0, <3>3
    <3>6. q[i + 1] = Tail(s)
      BY <1>3, <2>0, <2>1, <3>2, <3>4, <3>5
    <3> QED BY <2>0, <3>1, <3>3, <3>6
  <2>2. CASE ~(i + 1 <= gone)
    <3>1. done(i) = gone /\ done(i + 1) = gone
      BY <1>0, <2>0, <2>2
    <3>2. q[i + 1] = q[i]
      BY <1>3, <2>0, <2>2
    <3> QED BY <2>0, <3>1, <3>2
  <2> QED BY <2>1, <2>2
<1>6. P \in SUBSET (0 .. n)
  OBVIOUS
<1>7. n \in P
  <2> HIDE DEF P, n
  <2>1. \A i \in 0 .. n : i \in P
    BY <1>0, <1>4, <1>5, <1>6, UpwardInduction
  <2> QED BY <1>0, <2>1
<1>8. done(n) = gone
  BY <1>0
<1> QED BY <1>2, <1>7, <1>8 DEF V

-----------------------------------------------------------------------------
(* The invariant.                                                          *)

LEMMA GetNackBefore ==
  ASSUME NEW d \in Entries, NEW e \in Entries, Before(d, e), ~Expired(d, 0), rtt \in Rtts
  PROVE  Before(getNack(d, 0), getNack(e, 0))
<1>1. /\ d.tries \in Nat /\ e.tries \in Nat /\ d.age \in Nat /\ e.age \in Nat
      /\ d.idle \in Nat /\ e.idle \in Nat
  BY EntryFields
<1>2. /\ getNack(d, 0).age = d.age /\ getNack(e, 0).age = e.age
      /\ getNack(d, 0).idle \in Nat /\ getNack(e, 0).idle \in Nat
  BY GetNackFacts, EntryFields
<1>3. CASE Sends(d, 0) /\ Sends(e, 0)
  BY <1>1, <1>2, <1>3, GetNackFacts DEF Before
<1>4. CASE Sends(d, 0) /\ ~Sends(e, 0)
  BY <1>1, <1>2, <1>4, GetNackFacts DEF Before
<1>5. CASE ~Sends(d, 0) /\ Sends(e, 0)
  <2>1. d.tries > e.tries
    <3> SUFFICES ASSUME d.tries = e.tries, d.idle >= e.idle PROVE FALSE
      BY <1>1 DEF Before
    <3>1. RequiredInterval(d) = RequiredInterval(e) /\ RequiredInterval(e) \in Nat
      BY IntervalType DEF RequiredInterval
    <3>2. e.idle >= RequiredInterval(e)
      BY <1>5 DEF Sends
    <3>3. d.idle >= RequiredInterval(d)
      BY <1>1, <3>1, <3>2
    <3> QED BY <1>5, <3>3 DEF Sends
  <2>2. getNack(d, 0) = d /\ getNack(e, 0).tries = e.tries + 1 /\ getNack(e, 0).idle = 0
    BY <1>5, GetNackFacts
  <2> QED BY <1>1, <1>2, <2>1, <2>2 DEF Before
<1>6. CASE ~Sends(d, 0) /\ ~Sends(e, 0)
  BY <1>6, GetNackFacts
<1> QED BY <1>3, <1>4, <1>5, <1>6

\* After a purge with the clock standing still the queue is in order again.
LEMMA PurgedOrdered ==
  ASSUME nacks \in Queues, rtt \in Rtts, nacks # <<>>, Ordered(nacks)
  PROVE  \E gone \in 0 .. Len(nacks) :
           /\ \A i \in 1 .. Len(nacks) : Expired(nacks[i], 0) <=> i <= gone
           /\ Len(Purged(Len(nacks) + 1)) = Len(nacks) - gone
           /\ \A i \in 1 .. Len(nacks) - gone :
                Purged(Len(nacks) + 1)[i] = getNack(nacks[gone + i], 0)
           /\ Ordered(Purged(Len(nacks) + 1))
<1> DEFINE n == Len(nacks)
           V == Visited(n + 1)
           r == Purged(n + 1)
<1>0. n \in Nat /\ n + 1 \in 1 .. n + 1 /\ \A i \in 1 .. n : nacks[i] \in Entries
  BY DEF Queues
<1>1. PICK gone \in 0 .. n : \A i \in 1 .. n : Expired(nacks[i], 0) <=> i <= gone
  BY ExpiredPrefix
<1>2. r = SubSeq(V, gone + 1, n)
  BY <1>1, PurgedIsTheRest
<1>3. /\ V \in Queues /\ Len(V) = n
      /\ \A i \in 1 .. n : V[i] = getNack(nacks[i], 0)
  <2>1. \A i \in 1 .. n : Late(i, n + 1) = 0
    BY <1>0 DEF Late
  <2>2. V \in Queues /\ Len(V) = n
        /\ \A i \in 1 .. n : V[i] = getNack(nacks[i], Late(i, n + 1))
    BY <1>0, VisitedFacts
  <2> QED BY <2>1, <2>2
<1> HIDE DEF V, r
<1>4. /\ Len(r) = n - gone
      /\ \A i \in 1 .. n - gone : r[i] = V[gone + i]
  <2>1. \A j \in gone + 1 .. n : V[j] \in Entries
    BY <1>0, <1>3 DEF Queues
  <2>2. gone + 1 \in Int /\ n \in Int
    BY <1>0
  <2>3. /\ Len(SubSeq(V, gone + 1, n)) = IF gone + 1 <= n THEN n - (gone + 1) + 1 ELSE 0
        /\ \A i \in 1 .. n - (gone + 1) + 1 :
             SubSeq(V, gone + 1, n)[i] = V[(gone + 1) + i - 1]
    <3> HIDE DEF n
    <3> QED BY <2>1, <2>2, SubSeqProperties
  <2>4. n - (gone + 1) + 1 = n - gone /\ \A i \in 1 .. n - gone : (gone + 1) + i - 1 = gone + i
    BY <1>0
  <2>5. (IF gone + 1 <= n THEN n - (gone + 1) + 1 ELSE 0) = n - gone
    BY <1>0
  <2> HIDE DEF n
  <2> QED BY <1>2, <2>3, <2>4, <2>5
<1>5. \A i \in 1 .. n - gone : gone + i \in 1 .. n /\ r[i] = getNack(nacks[gone + i], 0)
  BY <1>0, <1>3, <1>4
<1>6. ASSUME NEW i \in 1 .. n - gone, NEW j \in 1 .. n - gone, i < j
      PROVE  Before(r[i], r[j])
  <2>1. /\ gone + i \in 1 .. n /\ gone + j \in 1 .. n /\ gone + i < gone + j
        /\ ~(gone + i <= gone)
    BY <1>0, <1>6
  <2>2. Before(nacks[gone + i], nacks[gone + j])
    BY <2>1 DEF Ordered
  <2>3. ~Expired(nacks[gone + i], 0)
    BY <1>1, <2>1
  <2>4. Before(getNack(nacks[gone + i], 0), getNack(nacks[gone + j], 0))
    BY <1>0, <2>1, <2>2, <2>3, GetNackBefore
  <2> QED BY <1>5, <2>4
<1>7. Ordered(r)
  BY <1>4, <1>6 DEF Ordered
<1> QED BY <1>1, <1>4, <1>5, <1>7 DEF r

\* q[i] is the queue after i of a range of numbers were pushed, the farthest first.
Ranging(q, end, count) ==
  /\ q[0] = nacks
  /\ \A i \in 1 .. Kept(count) : q[i] = Pushed(q[i - 1], Minus(end, Kept(count) - i + 1))
  /\ \A i \in 0 .. Kept(count) : /\ q[i] \in Queues /\ Len(q[i]) <= MaxNacks
                                 /\ Ordered(nacks) => Ordered(q[i])

\* Pushing a range keeps types, capacity and order.
LEMMA PushedRangeIsALoop ==
  ASSUME nacks \in Queues, Len(nacks) <= MaxNacks, NEW end \in SN, NEW count \in Nat
  PROVE  \E q : Ranging(q, end, count) /\ PushedRange(end, count) = q[Kept(count)]
<1> DEFINE kept == Kept(count)
           V == { s \in Queues : Len(s) <= MaxNacks /\ (Ordered(nacks) => Ordered(s)) }
           G == [i \in 1 .. kept |-> [s \in V |-> Pushed(s, Minus(end, kept - i + 1))]]
           Body(f) == [i \in 0 .. kept |->
                        IF i = 0 THEN nacks ELSE Pushed(f[i - 1], Minus(end, kept - i + 1))]
           q == CHOOSE f : f = Body(f)
<1>0. kept \in Nat /\ nacks \in V
  BY Params DEF Kept
<1>1. \A i \in 1 .. kept : Minus(end, kept - i + 1) \in SN
  <2> HIDE DEF kept
  <2>1. end \in Int /\ \A i \in 1 .. kept : kept - i + 1 \in Int
    BY <1>0, Params DEF SN
  <2> QED BY <2>1, SNClosed
<1>2. G \in [1 .. kept -> [V -> V]]
  <2>1. \A i \in 1 .. kept, s \in V : Pushed(s, Minus(end, kept - i + 1)) \in V
    <3> HIDE DEF kept
    <3> QED BY <1>1, PushedType, PushedOrdered
  <2> HIDE DEF V, kept
  <2> QED BY <2>1
<1>3. PICK f : CountsUp(f, kept, V, nacks, G)
  <2> HIDE DEF kept, V, G
  <2> QED BY <1>0, <1>2, UpwardRecursion
<1>4. \A i \in 1 .. kept : f[i - 1] \in V /\ f[i] = Pushed(f[i - 1], Minus(end, kept - i + 1))
  <2> SUFFICES ASSUME NEW i \in 1 .. kept
               PROVE  f[i - 1] \in V /\ f[i] = Pushed(f[i - 1], Minus(end, kept - i + 1))
    OBVIOUS
  <2>1. f[i - 1] \in V /\ f[i] = G[i][f[i - 1]]
    <3> HIDE DEF kept, V, G
    <3> QED BY <1>0, <1>3 DEF CountsUp
  <2> HIDE DEF V, kept
  <2> QED BY <2>1
<1>5. f = Body(f)
  <2> HIDE DEF V, kept
  <2> QED BY <1>0, <1>3, <1>4 DEF CountsUp
<1>6. PushedRange(end, count) = q[kept]
  BY DEF PushedRange
<1> HIDE DEF Body
<1>7. q = Body(q)
  BY <1>5
<1> HIDE DEF q
<1>8. /\ q[0] = nacks
      /\ \A i \in 1 .. kept : q[i] = Pushed(q[i - 1], Minus(end, kept - i + 1))
  <2> HIDE DEF kept
  <2> QED BY <1>0, <1>7 DEF Body
<1> DEFINE P == { i \in 0 .. kept : q[i] \in V }
<1>9. \A i \in 0 .. kept : i \in P
  <2>1. 0 \in P
    <3> HIDE DEF kept, V
    <3> QED BY <1>0, <1>8
  <2>2. \A i \in 0 .. kept - 1 : i \in P => i + 1 \in P
    <3> SUFFICES ASSUME NEW i \in 0 .. kept - 1, i \in P PROVE i + 1 \in P
      OBVIOUS
    <3> HIDE DEF kept
    <3>1. i + 1 \in 1 .. kept /\ (i + 1) - 1 = i /\ i + 1 \in 0 .. kept
      BY <1>0
    <3>2. q[i + 1] = Pushed(q[i], Minus(end, kept - (i + 1) + 1))
      BY <1>8, <3>1
    <3>3. q[i] \in V /\ Minus(end, kept - (i + 1) + 1) \in SN
      BY <1>1, <3>1
    <3>4. Pushed(q[i], Minus(end, kept - (i + 1) + 1)) \in V
      BY <3>3, PushedType, PushedOrdered
    <3> QED BY <3>1, <3>2, <3>4
  <2>3. P \in SUBSET (0 .. kept)
    OBVIOUS
  <2> HIDE DEF P, kept
  <2> QED BY <1>0, <2>1, <2>2, <2>3, UpwardInduction
<1>10. Ranging(q, end, count)
  BY <1>8, <1>9 DEF Ranging, Kept
<1> QED BY <1>6, <1>10 DEF Kept

LEMMA PushedRangeFacts ==
  ASSUME nacks \in Queues, Len(nacks) <= MaxNacks, NEW end \in SN, NEW count \in Nat
  PROVE  /\ PushedRange(end, count) \in Queues
         /\ Len(PushedRange(end, count)) <= MaxNacks
         /\ Ordered(nacks) => Ordered(PushedRange(end, count))
<1>1. Kept(count) \in 0 .. Kept(count)
  BY Params DEF Kept
<1>2. PICK q : Ranging(q, end, count) /\ PushedRange(end, count) = q[Kept(count)]
  BY PushedRangeIsALoop
<1> QED BY <1>1, <1>2 DEF Ranging

\* The order by age is inductive together with the types.
IInv == TypeOK /\ QueueByAge

LEMMA IInvFacts ==
  IInv <=> /\ nacks \in Queues /\ Len(nacks) <= MaxNacks /\ rtt \in Rtts
           /\ quiet \in [SN -> 0 .. MinInterval] /\ ret.count \in 0 .. MaxNacks
           /\ ~ClockMoves => Ordered(nacks)
BY DEF IInv, TypeOK, QueueByAge, Queues, Ordered, Before

LEMMA IInvNext ==
  ASSUME nacks' \in Queues, Len(nacks') <= MaxNacks, rtt' \in Rtts,
         quiet' \in [SN -> 0 .. MinInterval], ret'.count \in 0 .. MaxNacks,
         ~ClockMoves => Ordered(nacks')
  PROVE  IInv'
BY DEF IInv, TypeOK, QueueByAge, Queues, Ordered, Before

LEMMA InitIInv == Init => IInv
<1> SUFFICES ASSUME Init PROVE IInv
  OBVIOUS
<1>1. nacks = <<>> /\ nacks \in Queues /\ Len(nacks) = 0
  BY EmptySeq DEF Init, Queues
<1>2. Ordered(nacks) /\ Len(nacks) <= MaxNacks
  BY <1>1, Params DEF Ordered
<1>3. rtt \in Rtts /\ quiet \in [SN -> 0 .. MinInterval] /\ ret.count \in 0 .. MaxNacks
  BY Params DEF Init, Nothing
<1> QED BY <1>1, <1>2, <1>3, IInvFacts

\* SetRTT stays among the round-trip times.
LEMMA SetRTTType ==
  ASSUME IInv, NEW r \in RttInputs, SetRTT(r)
  PROVE  rtt' \in Rtts
<1>1. rtt \in Rtts
  BY IInvFacts
<1>2. CASE r = 0
  BY <1>2, Params DEF SetRTT
<1>3. CASE r # 0 /\ rtt # 0
  BY <1>1, <1>3, RttAssumption DEF SetRTT
<1>4. CASE r # 0 /\ rtt = 0
  <2>1. r \in Rtts
    BY <1>4, RttAssumption
  <2> QED BY <1>4, <2>1 DEF SetRTT
<1> QED BY <1>2, <1>3, <1>4

\* The steps of time.
LEMMA QuietType ==
  ASSUME NEW f \in [SN -> 0 .. MinInterval]
  PROVE  TickQuiet(f) \in [SN -> 0 .. MinInterval]
BY Params DEF TickQuiet, Older

LEMMA RestartedType ==
  ASSUME NEW f \in [SN -> 0 .. MinInterval], NEW sns
  PROVE  Restarted(f, sns) \in [SN -> 0 .. MinInterval]
BY Params DEF Restarted

\* Pairs, for whatever the clock does.
LEMMA PairsIInv == ASSUME IInv, Pairs PROVE IInv'
<1>0. /\ nacks \in Queues /\ Len(nacks) <= MaxNacks /\ rtt \in Rtts /\ Len(nacks) \in Nat
      /\ quiet \in [SN -> 0 .. MinInterval] /\ (~ClockMoves => Ordered(nacks))
  BY IInvFacts DEF Queues
<1>1. CASE nacks = <<>> /\ ret' = Nothing /\ UNCHANGED <<nacks, rtt, quiet>>
  <2>1. ret'.count \in 0 .. MaxNacks
    BY <1>1, Params DEF Nothing
  <2> QED BY <1>0, <1>1, <2>1, IInvNext
<1>2. CASE nacks # <<>> /\ ~(nacks = <<>> /\ ret' = Nothing /\ UNCHANGED <<nacks, rtt, quiet>>)
  <2> DEFINE asked(moved) == Restarted(quiet, Decoded(PairsOf(moved)))
             sent(moved) == { i \in 1 .. Len(nacks) : Sends(nacks[i], Late(i, moved)) }
  <2>1. PICK moved \in 1 .. Len(nacks) + 1 :
          /\ moved <= Len(nacks) => ClockMoves
          /\ nacks' = IF moved <= Len(nacks) THEN Ticked(Purged(moved)) ELSE Purged(moved)
          /\ quiet' = IF moved <= Len(nacks) THEN TickQuiet(asked(moved)) ELSE asked(moved)
          /\ ret' = [pairs |-> PairsOf(moved), count |-> Cardinality(sent(moved))]
          /\ rtt' = rtt
    BY <1>2 DEF Pairs
  <2>2. Purged(moved) \in Queues /\ Len(Purged(moved)) <= Len(nacks)
    BY <1>0, PurgedType
  <2>3. /\ Ticked(Purged(moved)) \in Queues
        /\ Len(Ticked(Purged(moved))) = Len(Purged(moved))
    BY <2>2, TickedFacts
  <2>4. nacks' \in Queues /\ Len(nacks') <= MaxNacks
    <3>1. Len(Purged(moved)) \in Nat
      BY <2>2 DEF Queues
    <3> QED BY <1>0, <2>1, <2>2, <2>3, <3>1, Params
  <2>5. quiet' \in [SN -> 0 .. MinInterval]
    <3>1. asked(moved) \in [SN -> 0 .. MinInterval]
      BY <1>0, RestartedType
    <3> HIDE DEF asked
    <3> QED BY <2>1, <3>1, QuietType
  <2>6. ret'.count \in 0 .. MaxNacks
    <3>1. IsFiniteSet(1 .. Len(nacks)) /\ Cardinality(1 .. Len(nacks)) = Len(nacks)
      <4>1. 1 \in Int /\ Len(nacks) \in Int
        BY <1>0
      <4>2. /\ IsFiniteSet(1 .. Len(nacks))
            /\ Cardinality(1 .. Len(nacks)) = IF 1 > Len(nacks) THEN 0 ELSE Len(nacks) - 1 + 1
        BY <4>1, FS_Interval
      <4> QED BY <1>0, <4>2
    <3>2. sent(moved) \in SUBSET (1 .. Len(nacks))
      OBVIOUS
    <3> HIDE DEF sent
    <3>3. IsFiniteSet(sent(moved)) /\ Cardinality(sent(moved)) <= Len(nacks)
      BY <3>1, <3>2, FS_Subset
    <3>4. Cardinality(sent(moved)) \in Nat
      BY <3>3, FS_CardinalityType
    <3> QED BY <1>0, <2>1, <3>3, <3>4, Params
  <2>7. ASSUME ~ClockMoves PROVE Ordered(nacks')
    <3>1. moved = Len(nacks) + 1
      BY <1>0, <2>1, <2>7
    <3>2. Ordered(Purged(Len(nacks) + 1))
      BY <1>0, <1>2, <2>7, PurgedOrdered
    <3>3. nacks' = Purged(Len(nacks) + 1)
      BY <1>0, <2>1, <3>1
    <3> QED BY <3>2, <3>3
  <2> QED BY <1>0, <2>1, <2>4, <2>5, <2>6, <2>7, IInvNext
<1> QED BY <1>1, <1>2 DEF Pairs

LEMMA NextIInv == IInv /\ [Next]_vars => IInv'
<1> SUFFICES ASSUME IInv, [Next]_vars PROVE IInv'
  OBVIOUS
<1>0. /\ nacks \in Queues /\ Len(nacks) <= MaxNacks /\ rtt \in Rtts /\ Len(nacks) \in Nat
      /\ quiet \in [SN -> 0 .. MinInterval] /\ (~ClockMoves => Ordered(nacks))
      /\ ret.count \in 0 .. MaxNacks
  BY IInvFacts DEF Queues
<1>n. ret' = Nothing => ret'.count \in 0 .. MaxNacks
  BY Params DEF Nothing
<1>1. ASSUME NEW sn \in SN, Push(sn) PROVE IInv'
  <2>1. /\ nacks' = Pushed(nacks, sn) /\ rtt' = rtt /\ ret' = Nothing
        /\ quiet' = Restarted(quiet, {sn})
    BY <1>1 DEF Push
  <2>2. quiet' \in [SN -> 0 .. MinInterval]
    BY <1>0, <2>1, RestartedType
  <2> QED BY <1>0, <1>n, <2>1, <2>2, PushedType, PushedOrdered, IInvNext
<1>2. ASSUME NEW end \in SN, NEW count \in RangeCounts, PushRange(end, count) PROVE IInv'
  <2>1. /\ nacks' = PushedRange(end, count) /\ rtt' = rtt /\ ret' = Nothing
        /\ quiet' = Restarted(quiet, { Minus(end, n) : n \in 1 .. Kept(count) })
    BY <1>2 DEF PushRange
  <2>2. count \in Nat
    BY Params
  <2>3. quiet' \in [SN -> 0 .. MinInterval]
    BY <1>0, <2>1, RestartedType
  <2> QED BY <1>0, <1>n, <2>1, <2>2, <2>3, PushedRangeFacts, IInvNext
<1>3. ASSUME NEW sn \in SN, Remove(sn) PROVE IInv'
  <2>1. nacks' = Removed(nacks, sn) /\ rtt' = rtt /\ quiet' = quiet /\ ret' = Nothing
    BY <1>3 DEF Remove
  <2>2. /\ Removed(nacks, sn) \in Queues /\ Len(Removed(nacks, sn)) <= Len(nacks)
        /\ Len(Removed(nacks, sn)) \in Nat
    BY <1>0, RemovedType DEF Queues
  <2>3. Len(nacks') <= MaxNacks
    BY <1>0, <2>1, <2>2, Params
  <2> QED BY <1>0, <1>n, <2>1, <2>2, <2>3, RemovedOrdered, IInvNext
<1>4. ASSUME NEW r \in RttInputs, SetRTT(r) PROVE IInv'
  <2>1. nacks' = nacks /\ quiet' = quiet /\ ret' = Nothing
    BY <1>4 DEF SetRTT
  <2> QED BY <1>0, <1>n, <1>4, <2>1, SetRTTType, IInvNext
<1>5. CASE Pairs
  BY <1>5, PairsIInv
<1>6. CASE Elapse
  <2>1. nacks' = Ticked(nacks) /\ rtt' = rtt /\ quiet' = TickQuiet(quiet) /\ ret' = Nothing
    BY <1>6 DEF Elapse
  <2> QED BY <1>0, <1>n, <2>1, TickedFacts, QuietType, IInvNext
<1>7. CASE UNCHANGED vars
  BY <1>0, <1>7, IInvNext DEF vars
<1> QED BY <1>1, <1>2, <1>3, <1>4, <1>5, <1>6, <1>7 DEF Next, Pushes

\* The invariant holds throughout.
LEMMA Invariant == Spec => []IInv
<1>1. Init => IInv
  BY InitIInv
<1>2. IInv /\ [Next]_vars => IInv'
  BY NextIInv
<1> QED BY <1>1, <1>2, PTL DEF Spec

-----------------------------------------------------------------------------
(* What holds of every queue.                                              *)

\* The types: the queue stays within the capacity it was made with and no entry
\* is tried more often than MaxTries (Push, PushRange, getNack).
THEOREM TypeCorrect == Spec => []TypeOK
<1>1. IInv => TypeOK
  BY DEF IInv
<1> QED BY <1>1, Invariant, PTL

\* The queue is always ordered by what makes an entry expire, whatever numbers
\* are pushed and removed and however the round-trip time changes.
THEOREM OrderedByAge == Spec => []QueueByAge
<1>1. IInv => QueueByAge
  BY DEF IInv
<1> QED BY <1>1, Invariant, PTL

\* Purging by sequence number (lines 184-186) takes out exactly what expired.
THEOREM PurgeIsExact == Spec => PurgesTheExpired
<1>1. IInv /\ [Next]_vars =>
        (Pairs /\ ~ClockMoves =>
           \E gone \in 0 .. Len(nacks) :
             /\ \A i \in 1 .. Len(nacks) : Expired(nacks[i], 0) <=> i <= gone
             /\ Len(nacks') = Len(nacks) - gone
             /\ \A i \in 1 .. Len(nacks) - gone :
                  /\ nacks'[i].seqNum = nacks[gone + i].seqNum
                  /\ nacks'[i].age = nacks[gone + i].age
                  /\ nacks'[i].tries >= nacks[gone + i].tries)
  <2> SUFFICES ASSUME IInv, Pairs, ~ClockMoves
               PROVE  \E gone \in 0 .. Len(nacks) :
                        /\ \A i \in 1 .. Len(nacks) : Expired(nacks[i], 0) <=> i <= gone
                        /\ Len(nacks') = Len(nacks) - gone
                        /\ \A i \in 1 .. Len(nacks) - gone :
                             /\ nacks'[i].seqNum = nacks[gone + i].seqNum
                             /\ nacks'[i].age = nacks[gone + i].age
                             /\ nacks'[i].tries >= nacks[gone + i].tries
    OBVIOUS
  <2>0. nacks \in Queues /\ rtt \in Rtts /\ Ordered(nacks) /\ Len(nacks) \in Nat
    BY IInvFacts DEF Queues
  <2>1. CASE nacks = <<>> /\ nacks' = nacks
    <3>1. Len(nacks) = 0
      BY <2>1, EmptySeq
    <3> WITNESS 0 \in 0 .. Len(nacks)
    <3> QED BY <2>1, <3>1
  <2>2. CASE nacks # <<>>
    <3>1. nacks' = Purged(Len(nacks) + 1)
      <4>1. PICK moved \in 1 .. Len(nacks) + 1 :
              /\ moved <= Len(nacks) => ClockMoves
              /\ nacks' = IF moved <= Len(nacks) THEN Ticked(Purged(moved)) ELSE Purged(moved)
        BY <2>2 DEF Pairs
      <4>2. ~(moved <= Len(nacks)) /\ moved = Len(nacks) + 1
        BY <2>0, <4>1
      <4> QED BY <4>1, <4>2
    <3>2. PICK gone \in 0 .. Len(nacks) :
            /\ \A i \in 1 .. Len(nacks) : Expired(nacks[i], 0) <=> i <= gone
            /\ Len(nacks') = Len(nacks) - gone
            /\ \A i \in 1 .. Len(nacks) - gone : nacks'[i] = getNack(nacks[gone + i], 0)
      BY <2>0, <2>2, <3>1, PurgedOrdered
    <3>3. \A e \in Entries : /\ getNack(e, 0).seqNum = e.seqNum
                             /\ getNack(e, 0).age = e.age
                             /\ getNack(e, 0).tries >= e.tries
      <4> SUFFICES ASSUME NEW e \in Entries
                   PROVE  /\ getNack(e, 0).seqNum = e.seqNum
                          /\ getNack(e, 0).age = e.age
                          /\ getNack(e, 0).tries >= e.tries
        OBVIOUS
      <4>1. e.tries \in Nat
        BY EntryFields
      <4> QED BY <2>0, <4>1, GetNackFacts
    <3>4. \A i \in 1 .. Len(nacks) - gone : nacks[gone + i] \in Entries
      BY <2>0 DEF Queues
    <3> QED BY <3>2, <3>3, <3>4
  <2> QED BY <2>1, <2>2 DEF Pairs
<1> QED BY <1>1, Invariant, PTL DEF Spec, PurgesTheExpired

-----------------------------------------------------------------------------
(* Numbers pushed in order.                                                *)

\* A caller that pushes the gaps of one stream, and a queue that holds no more than
\* half of all numbers: each entry is less than half the range ahead of those before it.
Half == (SNRange \div 2) - 1
InOrder == PushesForward /\ 2 * MaxNacks <= SNRange

Ahead(q) == \A i, j \in 1 .. Len(q) : i < j => Minus(q[j].seqNum, q[i].seqNum) \in 1 .. Half

LEMMA QueueNumbers ==
  ASSUME NEW q \in Queues
  PROVE  Len(q) \in Nat /\ \A i \in 1 .. Len(q) : q[i] \in Entries /\ q[i].seqNum \in SN
BY EntryFields DEF Queues

LEMMA MinusItself == ASSUME NEW a \in SN PROVE Minus(a, a) = 0
BY Params DEF Minus, SN

LEMMA MinusIs ==
  ASSUME NEW a \in SN, NEW b \in SN
  PROVE  Minus(a, b) = IF a >= b THEN a - b ELSE a - b + SNRange
<1>1. a \in 0 .. SNRange - 1 /\ b \in 0 .. SNRange - 1 /\ SNRange \in Nat \ {0}
  BY Params DEF SN
<1>2. CASE a >= b
  <2>1. (a - b) % SNRange = a - b
    BY <1>1, <1>2
  <2> QED BY <1>2, <2>1 DEF Minus
<1>3. CASE ~(a >= b)
  <2>1. PICK k \in 0 .. SNRange - 1 : k = a - b + SNRange
    BY <1>1, <1>3
  <2>2. (k - SNRange) % SNRange = k
    BY <1>1
  <2>3. a - b = k - SNRange
    BY <1>1, <2>1
  <2> QED BY <1>3, <2>1, <2>2, <2>3 DEF Minus
<1> QED BY <1>2, <1>3

\* So no number is queued twice.
LEMMA Distinct ==
  ASSUME NEW q \in Queues, Ahead(q), NEW i \in 1 .. Len(q), NEW j \in 1 .. Len(q),
         q[i].seqNum = q[j].seqNum
  PROVE  i = j
<1>1. i \in Nat /\ j \in Nat /\ q[i].seqNum \in SN
  BY QueueNumbers
<1>2. Minus(q[i].seqNum, q[j].seqNum) = 0 /\ Minus(q[j].seqNum, q[i].seqNum) = 0
  BY <1>1, MinusItself
<1>3. ~(0 \in 1 .. Half)
  BY Params DEF Half
<1> QED BY <1>1, <1>2, <1>3 DEF Ahead

\* Taking a number out takes out one entry and leaves the others in their order.
Skip(j, k) == IF j < k THEN j ELSE j + 1

LEMMA RemovedIs ==
  ASSUME NEW q \in Queues, NEW sn
  PROVE  \/ Removed(q, sn) = q /\ \A i \in 1 .. Len(q) : q[i].seqNum # sn
         \/ \E k \in 1 .. Len(q) :
              /\ q[k].seqNum = sn
              /\ Len(Removed(q, sn)) = Len(q) - 1
              /\ \A j \in 1 .. Len(q) - 1 : Removed(q, sn)[j] = q[Skip(j, k)]
<1>1. CASE Places(q, sn) = {}
  BY <1>1 DEF Removed, Places
<1>2. CASE Places(q, sn) # {}
  <2> DEFINE k == FirstPlace(q, sn)
  <2>1. k \in 1 .. Len(q) /\ q[k].seqNum = sn
    BY <1>2, FirstPlaceFacts
  <2>2. Removed(q, sn) = Without(q, k)
    BY <1>2 DEF Removed
  <2> HIDE DEF k
  <2>3. /\ Len(Without(q, k)) = Len(q) - 1
        /\ \A j \in 1 .. Len(q) - 1 : Without(q, k)[j] = IF j < k THEN q[j] ELSE q[j + 1]
    BY <2>1, WithoutFacts DEF Queues
  <2> QED BY <2>1, <2>2, <2>3 DEF Skip
<1> QED BY <1>1, <1>2

LEMMA RemovedAhead ==
  ASSUME NEW q \in Queues, NEW sn, Ahead(q)
  PROVE  Ahead(Removed(q, sn))
<1>0. Len(q) \in Nat
  BY QueueNumbers
<1>1. CASE Removed(q, sn) = q
  BY <1>1
<1>2. ASSUME NEW k \in 1 .. Len(q), Len(Removed(q, sn)) = Len(q) - 1,
             \A j \in 1 .. Len(q) - 1 : Removed(q, sn)[j] = q[Skip(j, k)]
      PROVE  Ahead(Removed(q, sn))
  <2> DEFINE r == Removed(q, sn)
  <2> SUFFICES ASSUME NEW i \in 1 .. Len(r), NEW j \in 1 .. Len(r), i < j
               PROVE  Minus(r[j].seqNum, r[i].seqNum) \in 1 .. Half
    BY DEF Ahead
  <2>1. r[i] = q[Skip(i, k)] /\ r[j] = q[Skip(j, k)]
    BY <1>2
  <2>2. Skip(i, k) \in 1 .. Len(q) /\ Skip(j, k) \in 1 .. Len(q) /\ Skip(i, k) < Skip(j, k)
    BY <1>0, <1>2 DEF Skip
  <2> HIDE DEF r
  <2> QED BY <2>1, <2>2 DEF Ahead
<1> QED BY <1>1, <1>2, RemovedIs

\* A push drops the first entry or none, and puts the new one last.
LEMMA PushedIs ==
  ASSUME NEW q \in Queues, NEW sn \in SN, Len(q) <= MaxNacks
  PROVE  \E c \in {0, 1} :
           /\ c <= Len(q) /\ Len(Pushed(q, sn)) = Len(q) - c + 1
           /\ \A i \in 1 .. Len(q) - c : Pushed(q, sn)[i] = q[i + c]
           /\ Pushed(q, sn)[Len(q) - c + 1] = newNack(sn)
<1> DEFINE t == IF Len(q) = MaxNacks THEN Tail(q) ELSE q
           c == IF Len(q) = MaxNacks THEN 1 ELSE 0
<1>0. Len(q) \in Nat /\ MaxNacks \in Nat \ {0}
  BY QueueNumbers, Params
<1>1. t \in Queues /\ Len(t) = Len(q) - c /\ \A i \in 1 .. Len(q) - c : t[i] = q[i + c]
  <2>1. CASE Len(q) = MaxNacks
    <3>1. q # <<>>
      BY <1>0, <2>1
    <3>2. /\ Tail(q) \in Queues /\ Len(Tail(q)) = Len(q) - 1
          /\ \A i \in 1 .. Len(Tail(q)) : Tail(q)[i] = q[i + 1]
      BY <3>1, HeadTailProperties DEF Queues
    <3> QED BY <2>1, <3>2
  <2>2. CASE Len(q) # MaxNacks
    BY <1>0, <2>2
  <2> QED BY <2>1, <2>2
<1>2. Pushed(q, sn) = Append(t, newNack(sn))
  BY DEF Pushed
<1>3. c \in {0, 1} /\ c <= Len(q)
  BY <1>0
<1> HIDE DEF t, c
<1>4. /\ Len(Append(t, newNack(sn))) = Len(t) + 1
      /\ \A i \in 1 .. Len(t) : Append(t, newNack(sn))[i] = t[i]
      /\ Append(t, newNack(sn))[Len(t) + 1] = newNack(sn)
  BY <1>1, NewNackType DEF Queues
<1>5. /\ Len(Pushed(q, sn)) = Len(q) - c + 1
      /\ \A i \in 1 .. Len(q) - c : Pushed(q, sn)[i] = q[i + c]
      /\ Pushed(q, sn)[Len(q) - c + 1] = newNack(sn)
  BY <1>1, <1>2, <1>4
<1> QED BY <1>3, <1>5

LEMMA PushedAhead ==
  ASSUME NEW q \in Queues, NEW sn \in SN, Len(q) <= MaxNacks, Ahead(q),
         \A i \in 1 .. Len(q) : Minus(sn, q[i].seqNum) \in 1 .. Half
  PROVE  Ahead(Pushed(q, sn))
<1>0. Len(q) \in Nat
  BY QueueNumbers
<1> DEFINE r == Pushed(q, sn)
<1>1. PICK c \in {0, 1} : /\ c <= Len(q) /\ Len(r) = Len(q) - c + 1
                          /\ \A i \in 1 .. Len(q) - c : r[i] = q[i + c]
                          /\ r[Len(q) - c + 1] = newNack(sn)
  BY PushedIs
<1> SUFFICES ASSUME NEW i \in 1 .. Len(r), NEW j \in 1 .. Len(r), i < j
             PROVE  Minus(r[j].seqNum, r[i].seqNum) \in 1 .. Half
  BY DEF Ahead
<1> HIDE DEF r
<1>2. i \in 1 .. Len(q) - c /\ i + c \in 1 .. Len(q) /\ r[i] = q[i + c]
  BY <1>0, <1>1
<1>3. CASE j \in 1 .. Len(q) - c
  <2>1. j + c \in 1 .. Len(q) /\ i + c < j + c /\ r[j] = q[j + c]
    BY <1>0, <1>1, <1>3
  <2> QED BY <1>2, <2>1 DEF Ahead
<1>4. CASE j = Len(q) - c + 1
  <2>1. r[j].seqNum = sn
    BY <1>1, <1>4 DEF newNack
  <2> QED BY <1>2, <2>1
<1>5. j \in 1 .. Len(q) - c \/ j = Len(q) - c + 1
  <2>1. j \in 1 .. Len(q) - c + 1 /\ c \in Int /\ Len(q) \in Int
    BY <1>0, <1>1
  <2> QED BY <2>1
<1> QED BY <1>3, <1>4, <1>5

\* The numbers before end, pushed from the farthest on.
LEMMA MinusApart ==
  ASSUME InOrder, NEW end \in SN, NEW m \in Nat, NEW n \in Nat \ {0}, n < m, m <= MaxNacks
  PROVE  Minus(Minus(end, n), Minus(end, m)) \in 1 .. Half
<1>1. end \in 0 .. SNRange - 1 /\ SNRange \in Nat \ {0} /\ MaxNacks \in Nat /\ 2 * MaxNacks <= SNRange
  BY Params DEF SN, InOrder
<1>2. n < SNRange /\ m < SNRange /\ m - n \in 1 .. MaxNacks - 1
  BY <1>1
<1>3. Minus(end, n) = IF end >= n THEN end - n ELSE end - n + SNRange
  BY <1>1, <1>2 DEF Minus
<1>4. Minus(end, m) = IF end >= m THEN end - m ELSE end - m + SNRange
  BY <1>1, <1>2 DEF Minus
<1>5. Minus(end, n) - Minus(end, m) = m - n \/ Minus(end, n) - Minus(end, m) = m - n - SNRange
  BY <1>1, <1>2, <1>3, <1>4
<1>6. (m - n) % SNRange = m - n /\ (m - n - SNRange) % SNRange = m - n
  BY <1>1, <1>2
<1>7. Minus(Minus(end, n), Minus(end, m)) = m - n
  BY <1>5, <1>6 DEF Minus
<1>8. MaxNacks - 1 <= Half /\ Half \in Int
  BY <1>1 DEF Half
<1> QED BY <1>1, <1>2, <1>7, <1>8

LEMMA PushedRangeAhead ==
  ASSUME InOrder, nacks \in Queues, Len(nacks) <= MaxNacks, Ahead(nacks),
         NEW end \in SN, NEW count \in Nat,
         \A n \in 1 .. count : n <= MaxNacks => MayPush(nacks, Minus(end, n))
  PROVE  Ahead(PushedRange(end, count))
<1> DEFINE kept == Kept(count)
<1>0. kept \in Nat /\ kept <= MaxNacks /\ kept <= count /\ end \in Int
  BY Params DEF Kept, SN
<1>1. PICK q : Ranging(q, end, count) /\ PushedRange(end, count) = q[kept]
  BY PushedRangeIsALoop
<1>2. /\ q[0] = nacks
      /\ \A i \in 1 .. kept : q[i] = Pushed(q[i - 1], Minus(end, kept - i + 1))
      /\ \A i \in 0 .. kept : q[i] \in Queues /\ Len(q[i]) <= MaxNacks
  BY <1>1 DEF Ranging
<1> HIDE DEF kept
\* What is pushed next is ahead of all that is queued.
<1> DEFINE P == { i \in 0 .. kept :
                    /\ Ahead(q[i])
                    /\ \A j \in 1 .. Len(q[i]), n \in 1 .. kept - i :
                         Minus(Minus(end, n), q[i][j].seqNum) \in 1 .. Half }
<1>3. 0 \in P
  <2>1. ASSUME NEW j \in 1 .. Len(nacks), NEW n \in 1 .. kept
        PROVE  Minus(Minus(end, n), nacks[j].seqNum) \in 1 .. Half
    <3>1. n \in 1 .. count /\ n <= MaxNacks
      BY <1>0, Params
    <3> QED BY <3>1 DEF InOrder, MayPush, Half
  <2>2. kept - 0 = kept /\ 0 \in 0 .. kept
    BY <1>0
  <2> QED BY <1>2, <2>1, <2>2
<1>4. ASSUME NEW i \in 0 .. kept - 1, i \in P PROVE i + 1 \in P
  <2> DEFINE m == kept - i
             sn == Minus(end, m)
  <2>0. /\ i + 1 \in 1 .. kept /\ i + 1 \in 0 .. kept /\ i \in 0 .. kept
        /\ m \in 1 .. kept /\ (i + 1) - 1 = i /\ kept - (i + 1) + 1 = m
        /\ kept - (i + 1) = m - 1 /\ m \in Nat /\ m <= MaxNacks
    BY <1>0, Params
  <2>1. q[i + 1] = Pushed(q[i], sn)
    BY <1>2, <2>0
  <2>2. sn \in SN /\ q[i] \in Queues /\ Len(q[i]) <= MaxNacks
    BY <1>0, <1>2, <2>0, SNClosed
  <2>3. /\ Ahead(q[i])
        /\ \A j \in 1 .. Len(q[i]), n \in 1 .. m :
             Minus(Minus(end, n), q[i][j].seqNum) \in 1 .. Half
    BY <1>4
  <2>4. m \in 1 .. m
    BY <2>0
  <2>5. \A j \in 1 .. Len(q[i]) : Minus(sn, q[i][j].seqNum) \in 1 .. Half
    BY <2>3, <2>4
  <2>6. Ahead(q[i + 1])
    <3> HIDE DEF P, sn, m
    <3> QED BY <2>1, <2>2, <2>3, <2>5, PushedAhead
  <2>7. ASSUME NEW j \in 1 .. Len(q[i + 1]), NEW n \in 1 .. m - 1
        PROVE  Minus(Minus(end, n), q[i + 1][j].seqNum) \in 1 .. Half
    <3>0. n \in 1 .. m /\ n \in Nat \ {0} /\ n < m /\ Len(q[i]) \in Nat
      BY <2>0, <2>2, QueueNumbers
    <3> HIDE DEF P, sn
    <3>1. PICK c \in {0, 1} : /\ c <= Len(q[i]) /\ Len(q[i + 1]) = Len(q[i]) - c + 1
                              /\ \A l \in 1 .. Len(q[i]) - c : q[i + 1][l] = q[i][l + c]
                              /\ q[i + 1][Len(q[i]) - c + 1] = newNack(sn)
      BY <2>1, <2>2, PushedIs
    <3>2. CASE j \in 1 .. Len(q[i]) - c
      <4>1. j + c \in 1 .. Len(q[i]) /\ q[i + 1][j] = q[i][j + c]
        BY <3>0, <3>1, <3>2
      <4> QED BY <2>3, <3>0, <4>1
    <3>3. CASE j = Len(q[i]) - c + 1
      <4>1. q[i + 1][j].seqNum = sn
        BY <3>1, <3>3 DEF newNack
      <4>2. Minus(Minus(end, n), Minus(end, m)) \in 1 .. Half
        BY <2>0, <3>0, MinusApart
      <4> QED BY <4>1, <4>2 DEF sn
    <3>4. j \in 1 .. Len(q[i]) - c \/ j = Len(q[i]) - c + 1
      <4>1. j \in 1 .. Len(q[i]) - c + 1 /\ c \in Int /\ Len(q[i]) \in Int
        BY <3>0, <3>1
      <4> QED BY <4>1
    <3> QED BY <3>2, <3>3, <3>4
  <2> QED BY <2>0, <2>6, <2>7
<1>5. kept \in P
  <2>1. P \in SUBSET (0 .. kept)
    OBVIOUS
  <2> HIDE DEF P
  <2>2. \A i \in 0 .. kept : i \in P
    BY <1>0, <1>3, <1>4, <2>1, UpwardInduction
  <2> QED BY <1>0, <2>2
<1> QED BY <1>1, <1>5

LEMMA TickedAhead ==
  ASSUME NEW q \in Queues, Ahead(q)
  PROVE  Ahead(Ticked(q))
<1>1. Len(Ticked(q)) = Len(q)
  BY TickedFacts
<1>2. \A i \in 1 .. Len(q) : Ticked(q)[i].seqNum = q[i].seqNum
  BY QueueNumbers, TickFacts DEF Ticked
<1> QED BY <1>1, <1>2 DEF Ahead

\* Of numbers that are all different a purge keeps the ones that did not expire.
LEMMA PurgedKeeps ==
  ASSUME nacks \in Queues, rtt \in Rtts, Ahead(nacks), NEW moved \in 1 .. Len(nacks) + 1
  PROVE  /\ Ahead(Purged(moved))
         /\ \A j \in 1 .. Len(Purged(moved)) : \E k \in 1 .. Len(nacks) :
              /\ ~Expired(nacks[k], Late(k, moved))
              /\ Purged(moved)[j] = getNack(nacks[k], Late(k, moved))
         /\ \A k \in 1 .. Len(nacks) : ~Expired(nacks[k], Late(k, moved)) =>
              \E j \in 1 .. Len(Purged(moved)) :
                Purged(moved)[j] = getNack(nacks[k], Late(k, moved))
<1> DEFINE n == Len(nacks)
           V == Visited(moved)
           Gone(k, i) == k <= i /\ Expired(nacks[k], Late(k, moved))
<1>0. n \in Nat
  BY QueueNumbers
<1>1. /\ V \in Queues /\ Len(V) = n
      /\ \A k \in 1 .. n : V[k] = getNack(nacks[k], Late(k, moved)) /\ V[k].seqNum = nacks[k].seqNum
  <2>1. \A k \in 1 .. n : getNack(nacks[k], Late(k, moved)).seqNum = nacks[k].seqNum
    BY VisitedFacts, GetNackFacts
  <2> QED BY <2>1, VisitedFacts
<1>2. Ahead(V)
  BY <1>1 DEF Ahead
<1>3. PICK q : Purging(q, moved) /\ Purged(moved) = q[n]
  BY PurgedIsALoop
<1>4. /\ q[0] = V /\ \A i \in 0 .. n : q[i] \in Queues
      /\ \A i \in 1 .. n : q[i] = IF Expired(nacks[i], Late(i, moved))
                                  THEN Removed(q[i - 1], nacks[i].seqNum) ELSE q[i - 1]
  BY <1>3 DEF Purging
<1> HIDE DEF V, n
<1> DEFINE P == { i \in 0 .. n :
                    /\ Ahead(q[i])
                    /\ \A j \in 1 .. Len(q[i]) : \E k \in 1 .. n : ~Gone(k, i) /\ q[i][j] = V[k]
                    /\ \A k \in 1 .. n : ~Gone(k, i) => \E j \in 1 .. Len(q[i]) : q[i][j] = V[k] }
<1>5. 0 \in P
  <2>1. \A k \in 1 .. n : ~Gone(k, 0)
    BY <1>0
  <2> HIDE DEF Gone
  <2>2. 0 \in 0 .. n
    BY <1>0
  <2> QED BY <1>1, <1>2, <1>4, <2>1, <2>2
<1>6. ASSUME NEW i \in 0 .. n - 1, i \in P PROVE i + 1 \in P
  <2>0. i + 1 \in 1 .. n /\ i + 1 \in 0 .. n /\ i \in 0 .. n /\ (i + 1) - 1 = i
    BY <1>0
  <2>1. /\ Ahead(q[i])
        /\ \A j \in 1 .. Len(q[i]) : \E k \in 1 .. n : ~Gone(k, i) /\ q[i][j] = V[k]
        /\ \A k \in 1 .. n : ~Gone(k, i) => \E j \in 1 .. Len(q[i]) : q[i][j] = V[k]
    BY <1>6
  <2>2. q[i] \in Queues /\ Len(q[i]) \in Nat
    BY <1>4, <2>0, QueueNumbers
  <2>3. \A k \in 1 .. n : Gone(k, i + 1) <=>
          Gone(k, i) \/ (k = i + 1 /\ Expired(nacks[i + 1], Late(i + 1, moved)))
    BY <1>0
  <2>4. ~Gone(i + 1, i)
    BY <2>0
  <2>5. CASE ~Expired(nacks[i + 1], Late(i + 1, moved))
    <3>1. q[i + 1] = q[i]
      BY <1>4, <2>0, <2>5
    <3>2. \A k \in 1 .. n : Gone(k, i + 1) <=> Gone(k, i)
      BY <2>3, <2>5
    <3> HIDE DEF Gone
    <3> QED BY <2>0, <2>1, <3>1, <3>2
  <2>6. CASE Expired(nacks[i + 1], Late(i + 1, moved))
    <3> DEFINE sn == nacks[i + 1].seqNum
               r == q[i + 1]
    <3>1. q[i + 1] = Removed(q[i], sn)
      BY <1>4, <2>0, <2>6
    <3>2. \A k \in 1 .. n : Gone(k, i + 1) <=> Gone(k, i) \/ k = i + 1
      BY <2>3, <2>6
    <3> HIDE DEF Gone
    <3>3. PICK a \in 1 .. Len(q[i]) : q[i][a] = V[i + 1]
      BY <2>0, <2>1, <2>4
    <3>4. V[i + 1].seqNum = sn
      BY <1>1, <2>0
    <3> HIDE DEF P, sn
    <3>5. PICK b \in 1 .. Len(q[i]) :
            /\ q[i][b].seqNum = sn /\ Len(r) = Len(q[i]) - 1
            /\ \A j \in 1 .. Len(q[i]) - 1 : r[j] = q[i][Skip(j, b)]
      <4>1. ~(\A j \in 1 .. Len(q[i]) : q[i][j].seqNum # sn)
        BY <3>3, <3>4
      <4>2. \E b \in 1 .. Len(q[i]) :
              /\ q[i][b].seqNum = sn
              /\ Len(Removed(q[i], sn)) = Len(q[i]) - 1
              /\ \A j \in 1 .. Len(q[i]) - 1 : Removed(q[i], sn)[j] = q[i][Skip(j, b)]
        BY <2>2, <4>1, RemovedIs
      <4> QED BY <3>1, <4>2
    <3>6. Ahead(r)
      BY <2>1, <2>2, <3>1, RemovedAhead
    <3>7. \A j \in 1 .. Len(q[i]) : q[i][j].seqNum = sn => j = b
      BY <2>1, <2>2, <3>5, Distinct
    <3>8. ASSUME NEW j \in 1 .. Len(r)
          PROVE  \E k \in 1 .. n : ~Gone(k, i + 1) /\ r[j] = V[k]
      <4>1. Skip(j, b) \in 1 .. Len(q[i]) /\ Skip(j, b) # b /\ r[j] = q[i][Skip(j, b)]
        BY <2>2, <3>5 DEF Skip
      <4>2. PICK k \in 1 .. n : ~Gone(k, i) /\ q[i][Skip(j, b)] = V[k]
        BY <2>1, <4>1
      <4>3. k # i + 1
        BY <3>4, <3>7, <4>1, <4>2
      <4> QED BY <3>2, <4>1, <4>2, <4>3
    <3>9. ASSUME NEW k \in 1 .. n, ~Gone(k, i + 1)
          PROVE  \E j \in 1 .. Len(r) : r[j] = V[k]
      <4>1. ~Gone(k, i) /\ k # i + 1
        BY <3>2, <3>9
      <4>2. PICK j \in 1 .. Len(q[i]) : q[i][j] = V[k]
        BY <2>1, <4>1
      <4>3. V[k].seqNum # sn
        BY <1>1, <1>2, <2>0, <3>4, <4>1, Distinct
      <4>4. j # b
        BY <3>5, <4>2, <4>3
      <4> DEFINE l == IF j < b THEN j ELSE j - 1
      <4>5. l \in 1 .. Len(q[i]) - 1 /\ Skip(l, b) = j
        BY <2>2, <4>4 DEF Skip
      <4> HIDE DEF l
      <4>6. l \in 1 .. Len(r) /\ r[l] = V[k]
        BY <3>5, <4>2, <4>5
      <4> QED BY <4>6
    <3> QED BY <2>0, <3>6, <3>8, <3>9 DEF P
  <2> QED BY <2>5, <2>6
<1>7. n \in P
  <2>1. P \in SUBSET (0 .. n)
    OBVIOUS
  <2> HIDE DEF P
  <2>2. \A i \in 0 .. n : i \in P
    BY <1>0, <1>5, <1>6, <2>1, UpwardInduction
  <2> QED BY <1>0, <2>2
<1>8. \A k \in 1 .. n : Gone(k, n) <=> Expired(nacks[k], Late(k, moved))
  BY <1>0
<1> HIDE DEF Gone
<1>9. /\ Ahead(q[n])
      /\ \A j \in 1 .. Len(q[n]) : \E k \in 1 .. n : ~Gone(k, n) /\ q[n][j] = V[k]
      /\ \A k \in 1 .. n : ~Gone(k, n) => \E j \in 1 .. Len(q[n]) : q[n][j] = V[k]
  BY <1>7
<1> HIDE DEF P
<1>10. ASSUME NEW j \in 1 .. Len(q[n])
       PROVE  \E k \in 1 .. n : /\ ~Expired(nacks[k], Late(k, moved))
                                /\ q[n][j] = getNack(nacks[k], Late(k, moved))
  <2>1. PICK k \in 1 .. n : ~Gone(k, n) /\ q[n][j] = V[k]
    BY <1>9, <1>10, Zenon
  <2>2. ~Expired(nacks[k], Late(k, moved))
    BY <1>8, <2>1, Zenon
  <2>3. V[k] = getNack(nacks[k], Late(k, moved))
    BY <1>1
  <2> QED BY <2>1, <2>2, <2>3, Zenon
<1>11. ASSUME NEW k \in 1 .. n, ~Expired(nacks[k], Late(k, moved))
       PROVE  \E j \in 1 .. Len(q[n]) : q[n][j] = getNack(nacks[k], Late(k, moved))
  <2>1. ~Gone(k, n)
    BY <1>8, <1>11, Zenon
  <2>2. PICK j \in 1 .. Len(q[n]) : q[n][j] = V[k]
    BY <1>9, <2>1, Zenon
  <2>3. V[k] = getNack(nacks[k], Late(k, moved))
    BY <1>1
  <2> QED BY <2>2, <2>3, Zenon
<1> QED BY <1>3, <1>9, <1>10, <1>11, Zenon DEF n

-----------------------------------------------------------------------------
(* The pairs.                                                              *)

Nacked == [id : SN, lost : SUBSET Nat]
Packing == [base : SN, active : BOOLEAN, np : Nacked, nps : Seq(Nacked)]

\* The numbers one pair names.
Names(p) == {p.id} \cup { Plus(p.id, d + 1) : d \in p.lost }

LEMMA DecodedIs ==
  ASSUME NEW pairs \in Seq(Nacked)
  PROVE  \A sn : sn \in Decoded(pairs) <=> \E i \in 1 .. Len(pairs) : sn \in Names(pairs[i])
BY DEF Decoded, Names

LEMMA DecodedAppend ==
  ASSUME NEW pairs \in Seq(Nacked), NEW p \in Nacked
  PROVE  /\ Append(pairs, p) \in Seq(Nacked)
         /\ Decoded(Append(pairs, p)) = Decoded(pairs) \cup Names(p)
<1>1. /\ Append(pairs, p) \in Seq(Nacked) /\ Len(Append(pairs, p)) = Len(pairs) + 1
      /\ \A i \in 1 .. Len(pairs) : Append(pairs, p)[i] = pairs[i]
      /\ Append(pairs, p)[Len(pairs) + 1] = p /\ Len(pairs) \in Nat
  OBVIOUS
<1>2. \A i \in 1 .. Len(pairs) + 1 : i \in 1 .. Len(pairs) \/ i = Len(pairs) + 1
  BY <1>1
<1>3. Len(pairs) + 1 \in 1 .. Len(pairs) + 1 /\ \A i \in 1 .. Len(pairs) : i \in 1 .. Len(pairs) + 1
  BY <1>1
<1>4. \A sn : sn \in Decoded(Append(pairs, p)) <=> sn \in Decoded(pairs) \/ sn \in Names(p)
  <2> TAKE sn
  <2> DEFINE both == Append(pairs, p)
  <2>1. sn \in Decoded(both) <=> \E i \in 1 .. Len(pairs) + 1 : sn \in Names(both[i])
    BY <1>1, DecodedIs
  <2>2. sn \in Decoded(pairs) <=> \E i \in 1 .. Len(pairs) : sn \in Names(pairs[i])
    BY DecodedIs
  <2> HIDE DEF both
  <2> QED BY <1>1, <1>2, <1>3, <2>1, <2>2 DEF both
<1> QED BY <1>1, <1>4

LEMMA DecodedNone == Decoded(<<>>) = {} /\ <<>> \in Seq(Nacked)
<1>1. <<>> \in Seq(Nacked)
  OBVIOUS
<1>2. \A i \in 1 .. Len(<<>>) : FALSE
  OBVIOUS
<1>3. \A sn : sn \notin Decoded(<<>>)
  BY <1>1, <1>2, DecodedIs
<1> QED BY <1>1, <1>3

LEMMA NewPairFacts ==
  ASSUME NEW sn \in SN
  PROVE  NewPair(sn) \in Nacked /\ Names(NewPair(sn)) = {sn}
BY DEF NewPair, Nacked, Names

\* A bit more in the last pair.
WithBit(p, d) ==
  [base |-> p.base, active |-> p.active,
   np |-> [id |-> p.np.id, lost |-> p.np.lost \cup Bit(d)], nps |-> p.nps]

LEMMA AddToPairsIs ==
  ASSUME NEW p \in Packing, NEW sn \in SN
  PROVE  /\ AddToPairs(p, sn) \in Packing
         /\ Minus(sn, p.base) > Width =>
              AddToPairs(p, sn) =
                [base |-> sn, active |-> TRUE, np |-> NewPair(sn),
                 nps |-> IF p.active THEN Append(p.nps, p.np) ELSE p.nps]
         /\ ~(Minus(sn, p.base) > Width) =>
              AddToPairs(p, sn) = WithBit(p, Minus(Minus(sn, p.base), 1))
<1>1. /\ p.base \in SN /\ p.active \in BOOLEAN /\ p.np \in Nacked /\ p.nps \in Seq(Nacked)
      /\ p.np.id \in SN /\ p.np.lost \in SUBSET Nat
      /\ p = [base |-> p.base, active |-> p.active, np |-> p.np, nps |-> p.nps]
      /\ p.np = [id |-> p.np.id, lost |-> p.np.lost]
  BY DEF Packing, Nacked
<1>2. CASE Minus(sn, p.base) > Width
  <2>1. /\ NewPair(sn) \in Nacked
        /\ (IF p.active THEN Append(p.nps, p.np) ELSE p.nps) \in Seq(Nacked)
    BY <1>1, NewPairFacts, DecodedAppend
  <2>2. AddToPairs(p, sn) =
          [base |-> sn, active |-> TRUE, np |-> NewPair(sn),
           nps |-> IF p.active THEN Append(p.nps, p.np) ELSE p.nps]
    BY <1>2 DEF AddToPairs
  <2> QED BY <1>2, <2>1, <2>2 DEF Packing
<1>3. CASE ~(Minus(sn, p.base) > Width)
  <2> DEFINE d == Minus(Minus(sn, p.base), 1)
  <2>1. d \in SN /\ d \in Nat
    <3>1. Minus(sn, p.base) \in Int
      BY <1>1, SNClosed DEF SN
    <3> QED BY <3>1, SNClosed DEF SN
  <2> HIDE DEF d
  <2>2. Bit(d) \in SUBSET Nat
    BY <2>1 DEF Bit
  <2>3. AddToPairs(p, sn) = [p EXCEPT !.np = [p.np EXCEPT !.lost = p.np.lost \cup Bit(d)]]
    BY <1>3, Zenon DEF AddToPairs, d
  <2>4. [p.np EXCEPT !.lost = p.np.lost \cup Bit(d)]
          = [id |-> p.np.id, lost |-> p.np.lost \cup Bit(d)]
    BY <1>1
  <2>5. AddToPairs(p, sn) = WithBit(p, d)
    BY <1>1, <2>3, <2>4 DEF WithBit
  <2>6. WithBit(p, d) \in Packing
    BY <1>1, <2>2 DEF WithBit, Packing, Nacked
  <2> QED BY <1>3, <2>5, <2>6 DEF d
<1> QED BY <1>2, <1>3

\* p[i] is what the loop has made of the first i entries.
PackStart == [base |-> FirstBase, active |-> FALSE, np |-> NewPair(0), nps |-> <<>>]
Due(i, moved) == Sends(nacks[i], Late(i, moved))

Packs(p, moved) ==
  /\ p \in [0 .. Len(nacks) -> Packing]
  /\ p[0] = PackStart
  /\ \A i \in 1 .. Len(nacks) :
       p[i] = IF Due(i, moved) THEN AddToPairs(p[i - 1], nacks[i].seqNum) ELSE p[i - 1]

Packed(p) == IF p.active THEN Append(p.nps, p.np) ELSE p.nps

LEMMA PackStartType == ASSUME nacks \in Queues, nacks # <<>> PROVE PackStart \in Packing
<1>1. Len(nacks) \in Nat \ {0}
  BY EmptySeq DEF Queues
<1>2. nacks[1].seqNum \in Int /\ Width + 1 \in Int
  BY <1>1, QueueNumbers, Params DEF SN
<1>3. FirstBase \in SN
  BY <1>2, SNClosed DEF FirstBase
<1>4. 0 \in SN
  BY Params DEF SN
<1> QED BY <1>3, <1>4, NewPairFacts, DecodedNone DEF PackStart, Packing

LEMMA PairsIsALoop ==
  ASSUME nacks \in Queues, nacks # <<>>, NEW moved \in 1 .. Len(nacks) + 1
  PROVE  \E p : Packs(p, moved) /\ PairsOf(moved) = Packed(p[Len(nacks)])
<1> DEFINE n == Len(nacks)
           G == [i \in 1 .. n |->
                  [s \in Packing |-> IF Due(i, moved) THEN AddToPairs(s, nacks[i].seqNum) ELSE s]]
           Body(f) == [i \in 0 .. n |->
                        IF i = 0 THEN PackStart
                        ELSE IF Due(i, moved) THEN AddToPairs(f[i - 1], nacks[i].seqNum)
                        ELSE f[i - 1]]
           q == CHOOSE f : f = Body(f)
<1>0. n \in Nat /\ PackStart \in Packing /\ \A i \in 1 .. n : nacks[i].seqNum \in SN
  BY QueueNumbers, PackStartType
<1>1. G \in [1 .. n -> [Packing -> Packing]]
  <2>1. \A i \in 1 .. n, s \in Packing : AddToPairs(s, nacks[i].seqNum) \in Packing
    BY <1>0, AddToPairsIs
  <2> HIDE DEF n
  <2> QED BY <2>1
<1>2. PICK f : CountsUp(f, n, Packing, PackStart, G)
  <2> HIDE DEF n, G
  <2> QED BY <1>0, <1>1, UpwardRecursion
<1>3. ASSUME NEW i \in 1 .. n
      PROVE  /\ f[i - 1] \in Packing
             /\ f[i] = IF Due(i, moved) THEN AddToPairs(f[i - 1], nacks[i].seqNum) ELSE f[i - 1]
  <2>1. f[i - 1] \in Packing /\ f[i] = G[i][f[i - 1]]
    <3> HIDE DEF n, G
    <3> QED BY <1>0, <1>2 DEF CountsUp
  <2> QED BY <2>1
<1>4. f = Body(f)
  <2> HIDE DEF n, G
  <2> QED BY <1>0, <1>2, <1>3 DEF CountsUp
<1>5. PairsOf(moved) = Packed(q[n])
  BY DEF PairsOf, Packed, PackStart, Due
<1> HIDE DEF Body
<1>6. q = Body(q)
  BY <1>4
<1> HIDE DEF q
<1>7. /\ q[0] = PackStart
      /\ \A i \in 1 .. n : q[i] = IF Due(i, moved) THEN AddToPairs(q[i - 1], nacks[i].seqNum)
                                  ELSE q[i - 1]
      /\ DOMAIN q = 0 .. n /\ q = [i \in 0 .. n |-> q[i]]
  <2> HIDE DEF n
  <2> QED BY <1>0, <1>6 DEF Body
<1> DEFINE P == { i \in 0 .. n : q[i] \in Packing }
<1>8. \A i \in 0 .. n : i \in P
  <2>1. 0 \in P
    BY <1>0, <1>7
  <2>2. \A i \in 0 .. n - 1 : i \in P => i + 1 \in P
    <3> SUFFICES ASSUME NEW i \in 0 .. n - 1, i \in P PROVE i + 1 \in P
      OBVIOUS
    <3>1. i + 1 \in 1 .. n /\ (i + 1) - 1 = i /\ i + 1 \in 0 .. n
      BY <1>0
    <3>2. q[i + 1] = IF Due(i + 1, moved) THEN AddToPairs(q[i], nacks[i + 1].seqNum) ELSE q[i]
      BY <1>7, <3>1
    <3>3. AddToPairs(q[i], nacks[i + 1].seqNum) \in Packing
      BY <1>0, <3>1, AddToPairsIs
    <3> QED BY <3>1, <3>2, <3>3
  <2>3. P \in SUBSET (0 .. n)
    OBVIOUS
  <2> HIDE DEF P, n
  <2> QED BY <1>0, <2>1, <2>2, <2>3, UpwardInduction
<1>9. Packs(q, moved)
  BY <1>7, <1>8 DEF Packs
<1> QED BY <1>5, <1>9

\* What a number adds to the pairs: itself, if there is a pair it can go into or it
\* opens one.
LEMMA AddedNames ==
  ASSUME NEW p \in Packing, NEW sn \in SN, p.active => p.np.id = p.base
  PROVE  LET a == AddToPairs(p, sn)
         IN  /\ a.active => a.np.id = a.base
             /\ p.active => a.active /\ Decoded(Packed(a)) = Decoded(Packed(p)) \cup {sn}
             /\ ~p.active /\ p.nps = <<>> /\ Minus(sn, p.base) > Width =>
                  a.active /\ Decoded(Packed(a)) = {sn}
<1> DEFINE a == AddToPairs(p, sn)
<1>0. /\ p.base \in SN /\ p.active \in BOOLEAN /\ p.np \in Nacked /\ p.nps \in Seq(Nacked)
      /\ p.np.id \in SN /\ p.np.lost \in SUBSET Nat
  BY DEF Packing, Nacked
<1>1. CASE Minus(sn, p.base) > Width
  <2> DEFINE old == IF p.active THEN Append(p.nps, p.np) ELSE p.nps
  <2>1. a = [base |-> sn, active |-> TRUE, np |-> NewPair(sn), nps |-> old]
    BY <1>1, AddToPairsIs
  <2>2. old \in Seq(Nacked) /\ old = Packed(p)
    BY <1>0, DecodedAppend DEF Packed
  <2>3. a.active /\ a.np.id = a.base /\ Packed(a) = Append(old, NewPair(sn))
    <3> HIDE DEF old, a
    <3> QED BY <2>1 DEF Packed, NewPair
  <2> HIDE DEF old, a
  <2>4. Decoded(Packed(a)) = Decoded(old) \cup {sn}
    BY <2>2, <2>3, DecodedAppend, NewPairFacts
  <2>5. ASSUME ~p.active, p.nps = <<>> PROVE Decoded(Packed(a)) = {sn}
    <3>1. Decoded(old) = {}
      BY <2>2, <2>5, DecodedNone DEF Packed
    <3> QED BY <2>4, <3>1
  <2> QED BY <2>2, <2>3, <2>4, <2>5 DEF a
<1>2. CASE ~(Minus(sn, p.base) > Width)
  <2> DEFINE d == Minus(sn, p.base)
             e == Minus(d, 1)
             np == [id |-> p.np.id, lost |-> p.np.lost \cup Bit(e)]
  <2>1. a = [base |-> p.base, active |-> p.active, np |-> np, nps |-> p.nps]
    BY <1>2, AddToPairsIs DEF WithBit
  <2>2. d \in 0 .. Width /\ d \in SN /\ p.base \in Int /\ sn \in Int
    <3>1. p.base \in Int /\ sn \in Int
      BY <1>0 DEF SN
    <3>2. d \in SN
      BY <3>1, SNClosed
    <3> HIDE DEF d
    <3>3. ~(d > Width)
      BY <1>2 DEF d
    <3>4. d \in Nat
      BY <3>2 DEF SN
    <3> QED BY <3>1, <3>2, <3>3, <3>4, Params
  <2>3. a.active = p.active /\ a.np = np /\ a.nps = p.nps /\ a.base = p.base /\ np.id = p.np.id
    <3> HIDE DEF a
    <3> QED BY <2>1
  <2>4. CASE ~p.active
    BY <1>2, <2>3, <2>4
  <2>5. CASE p.active
    <3>1. Bit(e) = IF d = 0 THEN {} ELSE {d - 1}
      <4>1. CASE d = 0
        <5>1. e = SNRange - 1 /\ ~(e < Width)
          BY <4>1, ParamsAssumption DEF Minus
        <5> HIDE DEF d, e
        <5> QED BY <4>1, <5>1 DEF Bit
      <4>2. CASE d # 0
        <5> HIDE DEF d
        <5>1. d - 1 \in 0 .. SNRange - 1 /\ d - 1 < Width
          BY <2>2, <4>2, Params DEF SN
        <5>2. e = d - 1
          BY <5>1, Params DEF Minus
        <5> HIDE DEF e
        <5> QED BY <4>2, <5>1, <5>2 DEF Bit
      <4> QED BY <4>1, <4>2
    <3>2. Plus(p.np.id, d) = sn
      <4>1. p.np.id = p.base
        BY <2>5
      <4>2. d = IF sn >= p.base THEN sn - p.base ELSE sn - p.base + SNRange
        BY <1>0, MinusIs
      <4> HIDE DEF d
      <4>3. p.base + d = sn \/ p.base + d = sn + SNRange
        BY <2>2, <4>2, Params
      <4>4. sn % SNRange = sn /\ (sn + SNRange) % SNRange = sn
        BY Params DEF SN
      <4> QED BY <4>1, <4>3, <4>4 DEF Plus
    <3>3. Names(np) = Names(p.np) \cup {sn}
      <4>1. CASE d = 0
        <5>1. sn = p.np.id
          <6>1. Plus(p.np.id, 0) = p.np.id
            BY <1>0, Params DEF Plus, SN
          <6> QED BY <3>2, <4>1, <6>1
        <5>2. np.lost = p.np.lost
          <6> HIDE DEF e, d
          <6> QED BY <3>1, <4>1
        <5> HIDE DEF np
        <5> QED BY <2>3, <5>1, <5>2 DEF Names
      <4>2. CASE d # 0
        <5>1. np.lost = p.np.lost \cup {d - 1}
          <6> HIDE DEF e, d
          <6> QED BY <3>1, <4>2
        <5>2. Plus(p.np.id, (d - 1) + 1) = sn
          <6>1. (d - 1) + 1 = d
            <7> HIDE DEF d
            <7> QED BY <2>2
          <6> HIDE DEF d
          <6> QED BY <3>2, <6>1
        <5> HIDE DEF np, d
        <5>3. { Plus(p.np.id, x + 1) : x \in np.lost } = { Plus(p.np.id, x + 1) : x \in p.np.lost } \cup {sn}
          BY <5>1, <5>2
        <5> QED BY <2>3, <5>3 DEF Names
      <4> QED BY <4>1, <4>2
    <3>4. np \in Nacked
      <4>1. Bit(e) \in SUBSET Nat
        <5> HIDE DEF e, d
        <5> QED BY <2>2, <3>1
      <4> HIDE DEF e
      <4> QED BY <1>0, <4>1 DEF Nacked
    <3>5. Packed(a) = Append(p.nps, np) /\ Packed(p) = Append(p.nps, p.np)
      <4> HIDE DEF np, a
      <4> QED BY <2>3, <2>5 DEF Packed
    <3> HIDE DEF np, a
    <3>6. Decoded(Packed(a)) = Decoded(Packed(p)) \cup {sn}
      BY <1>0, <3>3, <3>4, <3>5, DecodedAppend
    <3> QED BY <2>3, <2>5, <3>6 DEF a
  <2> QED BY <2>4, <2>5
<1> QED BY <1>1, <1>2

LEMMA MinusBack ==
  ASSUME NEW f \in SN, NEW s \in SN, NEW w \in SN, Minus(s, f) + w < SNRange
  PROVE  Minus(s, Minus(f, w)) = Minus(s, f) + w
<1>1. /\ f \in 0 .. SNRange - 1 /\ s \in 0 .. SNRange - 1 /\ w \in 0 .. SNRange - 1
      /\ SNRange \in Nat \ {0}
  BY Params DEF SN
<1>2. PICK k : k = Minus(s, f) /\ k = IF s >= f THEN s - f ELSE s - f + SNRange
  BY MinusIs
<1>3. PICK b : b = Minus(f, w) /\ b = IF f >= w THEN f - w ELSE f - w + SNRange
  BY MinusIs
<1>4. b \in SN /\ b \in 0 .. SNRange - 1
  BY <1>1, <1>3 DEF SN
<1>5. Minus(s, b) = IF s >= b THEN s - b ELSE s - b + SNRange
  BY <1>4, MinusIs
<1>6. k + w < SNRange
  BY <1>2
<1>7. (IF s >= b THEN s - b ELSE s - b + SNRange) = k + w
  BY <1>1, <1>2, <1>3, <1>6
<1> QED BY <1>2, <1>3, <1>5, <1>7

\* The first base is out of reach of every number that is queued (line 142).
LEMMA FarFromFirst ==
  ASSUME nacks \in Queues, Ahead(nacks), NEW i \in 1 .. Len(nacks)
  PROVE  Minus(nacks[i].seqNum, FirstBase) > Width
<1>1. Len(nacks) \in Nat /\ 1 \in 1 .. Len(nacks) /\ i \in Int
  BY QueueNumbers
<1>2. nacks[1].seqNum \in SN /\ nacks[i].seqNum \in SN
  BY <1>1, QueueNumbers
<1>3. Width + 1 \in SN /\ 2 * (Width + 1) <= SNRange /\ Width \in Nat /\ SNRange \in Nat
  BY ParamsAssumption DEF SN
<1>4. Half \in Nat /\ Half + (Width + 1) < SNRange
  BY <1>3 DEF Half
<1>5. Minus(nacks[i].seqNum, nacks[1].seqNum) \in 0 .. Half
  <2>1. CASE i = 1
    BY <1>2, <1>4, <2>1, MinusItself
  <2>2. CASE i # 1
    <3>1. 1 < i
      BY <2>2
    <3>2. Minus(nacks[i].seqNum, nacks[1].seqNum) \in 1 .. Half
      BY <1>1, <3>1 DEF Ahead
    <3> QED BY <1>4, <3>2
  <2> QED BY <2>1, <2>2
<1>6. PICK k \in 0 .. Half : k = Minus(nacks[i].seqNum, nacks[1].seqNum)
  BY <1>5
<1>7. k + (Width + 1) < SNRange
  BY <1>3, <1>4
<1>8. Minus(nacks[i].seqNum, FirstBase) = k + (Width + 1)
  BY <1>2, <1>3, <1>6, <1>7, MinusBack DEF FirstBase
<1> QED BY <1>3, <1>4, <1>8

DueAt(moved) == { k \in 1 .. Len(nacks) : Due(k, moved) }
DueNumbers(i, moved) == { nacks[k].seqNum : k \in { k \in 1 .. i : Due(k, moved) } }

\* The pairs name what is due, all of it and nothing else.
LEMMA PairsNameDue ==
  ASSUME nacks \in Queues, nacks # <<>>, Ahead(nacks), NEW moved \in 1 .. Len(nacks) + 1
  PROVE  Decoded(PairsOf(moved)) = DueNumbers(Len(nacks), moved)
<1> DEFINE n == Len(nacks)
<1>0. n \in Nat /\ \A i \in 1 .. n : nacks[i].seqNum \in SN
  BY QueueNumbers
<1>1. PICK p : Packs(p, moved) /\ PairsOf(moved) = Packed(p[n])
  BY PairsIsALoop
<1>2. /\ \A i \in 0 .. n : p[i] \in Packing
      /\ p[0] = PackStart
      /\ \A i \in 1 .. n : p[i] = IF Due(i, moved) THEN AddToPairs(p[i - 1], nacks[i].seqNum)
                                  ELSE p[i - 1]
  BY <1>1 DEF Packs
<1>3. \A i \in 1 .. n : Minus(nacks[i].seqNum, FirstBase) > Width
  BY FarFromFirst
<1> HIDE DEF n
<1> DEFINE P == { i \in 0 .. n :
                    /\ p[i].active => /\ p[i].np.id = p[i].base
                                      /\ Decoded(Packed(p[i])) = DueNumbers(i, moved)
                    /\ ~p[i].active => /\ p[i].nps = <<>> /\ p[i].base = FirstBase
                                       /\ DueNumbers(i, moved) = {} }
<1>4. 0 \in P
  <2>1. DueNumbers(0, moved) = {}
    BY DEF DueNumbers
  <2>2. ~p[0].active /\ p[0].nps = <<>> /\ p[0].base = FirstBase
    BY <1>2 DEF PackStart
  <2>3. 0 \in 0 .. n
    BY <1>0
  <2> QED BY <2>1, <2>2, <2>3
<1>5. ASSUME NEW i \in 0 .. n - 1, i \in P PROVE i + 1 \in P
  <2>0. i + 1 \in 1 .. n /\ i + 1 \in 0 .. n /\ i \in 0 .. n /\ (i + 1) - 1 = i
    BY <1>0
  <2>1. /\ p[i].active => /\ p[i].np.id = p[i].base
                          /\ Decoded(Packed(p[i])) = DueNumbers(i, moved)
        /\ ~p[i].active => /\ p[i].nps = <<>> /\ p[i].base = FirstBase
                           /\ DueNumbers(i, moved) = {}
    BY <1>5
  <2>2. DueNumbers(i + 1, moved) = DueNumbers(i, moved) \cup
                                     (IF Due(i + 1, moved) THEN {nacks[i + 1].seqNum} ELSE {})
    <3>1. \A k : k \in 1 .. i + 1 <=> k \in 1 .. i \/ k = i + 1
      BY <1>0
    <3> QED BY <3>1 DEF DueNumbers
  <2>3. CASE ~Due(i + 1, moved)
    <3>1. p[i + 1] = p[i]
      BY <1>2, <2>0, <2>3
    <3>2. DueNumbers(i + 1, moved) = DueNumbers(i, moved)
      BY <2>2, <2>3
    <3> QED BY <2>0, <2>1, <3>1, <3>2
  <2>4. CASE Due(i + 1, moved)
    <3> DEFINE sn == nacks[i + 1].seqNum
               a == AddToPairs(p[i], sn)
    <3>1. p[i + 1] = a /\ p[i] \in Packing /\ sn \in SN /\ Minus(sn, FirstBase) > Width
      BY <1>0, <1>2, <1>3, <2>0, <2>4
    <3>2. DueNumbers(i + 1, moved) = DueNumbers(i, moved) \cup {sn}
      BY <2>2, <2>4
    <3> HIDE DEF P, sn
    <3>3. /\ a.active => a.np.id = a.base
          /\ p[i].active => a.active /\ Decoded(Packed(a)) = Decoded(Packed(p[i])) \cup {sn}
          /\ ~p[i].active /\ p[i].nps = <<>> /\ Minus(sn, p[i].base) > Width =>
               a.active /\ Decoded(Packed(a)) = {sn}
      BY <2>1, <3>1, AddedNames
    <3> HIDE DEF a
    <3>4. a.active /\ a.np.id = a.base /\ Decoded(Packed(a)) = DueNumbers(i + 1, moved)
      <4>1. CASE p[i].active
        BY <2>1, <3>2, <3>3, <4>1
      <4>2. CASE ~p[i].active
        BY <2>1, <3>1, <3>2, <3>3, <4>2
      <4> QED BY <4>1, <4>2
    <3> QED BY <2>0, <3>1, <3>4 DEF P
  <2> QED BY <2>3, <2>4
<1>6. n \in P
  <2>1. P \in SUBSET (0 .. n)
    OBVIOUS
  <2> HIDE DEF P
  <2>2. \A i \in 0 .. n : i \in P
    BY <1>0, <1>4, <1>5, <2>1, UpwardInduction
  <2> QED BY <1>0, <2>2
<1>7. CASE p[n].active
  BY <1>1, <1>6, <1>7 DEF n
<1>8. CASE ~p[n].active
  <2>1. p[n].nps = <<>> /\ DueNumbers(n, moved) = {}
    BY <1>6, <1>8
  <2>2. PairsOf(moved) = <<>>
    BY <1>1, <1>8, <2>1 DEF Packed
  <2> QED BY <2>1, <2>2, DecodedNone DEF n
<1> QED BY <1>7, <1>8

-----------------------------------------------------------------------------
(* The time between two requests.                                          *)

\* An entry has been idle no longer than its number has been quiet.
SpacedBy(q, f) ==
  \A i \in 1 .. Len(q) : q[i].idle <= f[q[i].seqNum] \/ MinInterval <= f[q[i].seqNum]

Quiets == [SN -> 0 .. MinInterval]

LEMMA QuietIs == ASSUME NEW f \in Quiets, NEW sn \in SN PROVE f[sn] \in Nat
BY Params DEF Quiets

LEMMA RemovedSpaced ==
  ASSUME NEW q \in Queues, NEW sn, NEW f \in Quiets, SpacedBy(q, f)
  PROVE  SpacedBy(Removed(q, sn), f)
<1>0. Len(q) \in Nat
  BY QueueNumbers
<1>1. CASE Removed(q, sn) = q
  BY <1>1
<1>2. ASSUME NEW k \in 1 .. Len(q), Len(Removed(q, sn)) = Len(q) - 1,
             \A j \in 1 .. Len(q) - 1 : Removed(q, sn)[j] = q[Skip(j, k)]
      PROVE  SpacedBy(Removed(q, sn), f)
  <2>1. \A j \in 1 .. Len(q) - 1 : Skip(j, k) \in 1 .. Len(q)
    BY <1>0 DEF Skip
  <2> QED BY <1>2, <2>1 DEF SpacedBy
<1> QED BY <1>1, <1>2, RemovedIs

LEMMA PushedSpaced ==
  ASSUME NEW q \in Queues, NEW sn \in SN, Len(q) <= MaxNacks, NEW f \in Quiets, SpacedBy(q, f)
  PROVE  SpacedBy(Pushed(q, sn), f)
<1> DEFINE r == Pushed(q, sn)
<1>0. Len(q) \in Nat /\ f[sn] \in Nat
  BY QueueNumbers, QuietIs
<1>1. PICK c \in {0, 1} : /\ c <= Len(q) /\ Len(r) = Len(q) - c + 1
                          /\ \A i \in 1 .. Len(q) - c : r[i] = q[i + c]
                          /\ r[Len(q) - c + 1] = newNack(sn)
  BY PushedIs
<1> SUFFICES ASSUME NEW i \in 1 .. Len(r)
             PROVE  r[i].idle <= f[r[i].seqNum] \/ MinInterval <= f[r[i].seqNum]
  BY DEF SpacedBy
<1> HIDE DEF r
<1>2. CASE i \in 1 .. Len(q) - c
  <2>1. i + c \in 1 .. Len(q) /\ r[i] = q[i + c]
    BY <1>0, <1>1, <1>2
  <2> QED BY <2>1 DEF SpacedBy
<1>3. CASE i = Len(q) - c + 1
  <2>1. r[i].idle = 0 /\ r[i].seqNum = sn
    BY <1>1, <1>3 DEF newNack
  <2> QED BY <1>0, <2>1
<1>4. i \in 1 .. Len(q) - c \/ i = Len(q) - c + 1
  <2>1. i \in 1 .. Len(q) - c + 1 /\ c \in Int /\ Len(q) \in Int
    BY <1>0, <1>1
  <2> QED BY <2>1
<1> QED BY <1>2, <1>3, <1>4

LEMMA PushedRangeSpaced ==
  ASSUME nacks \in Queues, Len(nacks) <= MaxNacks, NEW end \in SN, NEW count \in Nat,
         NEW f \in Quiets, SpacedBy(nacks, f)
  PROVE  SpacedBy(PushedRange(end, count), f)
<1> DEFINE kept == Kept(count)
<1>0. kept \in Nat /\ end \in Int
  BY Params DEF Kept, SN
<1>1. PICK q : Ranging(q, end, count) /\ PushedRange(end, count) = q[kept]
  BY PushedRangeIsALoop
<1>2. /\ q[0] = nacks
      /\ \A i \in 1 .. kept : q[i] = Pushed(q[i - 1], Minus(end, kept - i + 1))
      /\ \A i \in 0 .. kept : q[i] \in Queues /\ Len(q[i]) <= MaxNacks
  BY <1>1 DEF Ranging
<1> HIDE DEF kept
<1> DEFINE P == { i \in 0 .. kept : SpacedBy(q[i], f) }
<1>3. 0 \in P
  BY <1>0, <1>2
<1>4. ASSUME NEW i \in 0 .. kept - 1, i \in P PROVE i + 1 \in P
  <2>0. /\ i + 1 \in 1 .. kept /\ i + 1 \in 0 .. kept /\ i \in 0 .. kept /\ (i + 1) - 1 = i
        /\ kept - (i + 1) + 1 \in Int
    BY <1>0
  <2>1. q[i + 1] = Pushed(q[i], Minus(end, kept - (i + 1) + 1))
    BY <1>2, <2>0
  <2>2. /\ Minus(end, kept - (i + 1) + 1) \in SN /\ q[i] \in Queues /\ Len(q[i]) <= MaxNacks
        /\ SpacedBy(q[i], f)
    BY <1>0, <1>2, <1>4, <2>0, SNClosed
  <2>3. SpacedBy(q[i + 1], f)
    BY <2>1, <2>2, PushedSpaced
  <2> QED BY <2>0, <2>3
<1>5. kept \in P
  <2>1. P \in SUBSET (0 .. kept)
    OBVIOUS
  <2> HIDE DEF P
  <2>2. \A i \in 0 .. kept : i \in P
    BY <1>0, <1>3, <1>4, <2>1, UpwardInduction
  <2> QED BY <1>0, <2>2
<1> QED BY <1>1, <1>5

\* Every entry of a pushed range is new, or was there before.
LEMMA PushedRangeNew ==
  ASSUME nacks \in Queues, Len(nacks) <= MaxNacks, NEW end \in SN, NEW count \in Nat,
         NEW j \in 1 .. Len(PushedRange(end, count))
  PROVE  \/ PushedRange(end, count)[j].idle = 0
         \/ \E k \in 1 .. Len(nacks) : PushedRange(end, count)[j] = nacks[k]
<1> DEFINE kept == Kept(count)
           New(e) == e.idle = 0 \/ \E k \in 1 .. Len(nacks) : e = nacks[k]
<1>0. kept \in Nat /\ end \in Int
  BY Params DEF Kept, SN
<1>1. PICK q : Ranging(q, end, count) /\ PushedRange(end, count) = q[kept]
  BY PushedRangeIsALoop
<1>2. /\ q[0] = nacks
      /\ \A i \in 1 .. kept : q[i] = Pushed(q[i - 1], Minus(end, kept - i + 1))
      /\ \A i \in 0 .. kept : q[i] \in Queues /\ Len(q[i]) <= MaxNacks
  BY <1>1 DEF Ranging
<1> HIDE DEF kept
<1> DEFINE P == { i \in 0 .. kept : \A l \in 1 .. Len(q[i]) : New(q[i][l]) }
<1>3. 0 \in P
  BY <1>0, <1>2
<1>4. ASSUME NEW i \in 0 .. kept - 1, i \in P PROVE i + 1 \in P
  <2> DEFINE sn == Minus(end, kept - (i + 1) + 1)
  <2>0. /\ i + 1 \in 1 .. kept /\ i + 1 \in 0 .. kept /\ i \in 0 .. kept /\ (i + 1) - 1 = i
        /\ kept - (i + 1) + 1 \in Int
    BY <1>0
  <2>1. q[i + 1] = Pushed(q[i], sn)
    BY <1>2, <2>0
  <2>2. /\ sn \in SN /\ q[i] \in Queues /\ Len(q[i]) <= MaxNacks /\ Len(q[i]) \in Nat
        /\ \A l \in 1 .. Len(q[i]) : New(q[i][l])
    BY <1>0, <1>2, <1>4, <2>0, SNClosed, QueueNumbers
  <2> HIDE DEF sn, P, New
  <2>3. PICK c \in {0, 1} : /\ c <= Len(q[i]) /\ Len(q[i + 1]) = Len(q[i]) - c + 1
                            /\ \A l \in 1 .. Len(q[i]) - c : q[i + 1][l] = q[i][l + c]
                            /\ q[i + 1][Len(q[i]) - c + 1] = newNack(sn)
    BY <2>1, <2>2, PushedIs
  <2>4. ASSUME NEW l \in 1 .. Len(q[i + 1]) PROVE New(q[i + 1][l])
    <3>1. CASE l \in 1 .. Len(q[i]) - c
      <4>1. l + c \in 1 .. Len(q[i]) /\ q[i + 1][l] = q[i][l + c]
        BY <2>2, <2>3, <3>1
      <4> QED BY <2>2, <4>1
    <3>2. CASE l = Len(q[i]) - c + 1
      <4>1. q[i + 1][l].idle = 0
        BY <2>3, <3>2 DEF newNack
      <4> QED BY <4>1 DEF New
    <3>3. l \in 1 .. Len(q[i]) - c \/ l = Len(q[i]) - c + 1
      <4>1. l \in 1 .. Len(q[i]) - c + 1 /\ c \in Int /\ Len(q[i]) \in Int
        BY <2>2, <2>3
      <4> QED BY <4>1
    <3> QED BY <3>1, <3>2, <3>3
  <2> QED BY <2>0, <2>4 DEF P
<1>5. kept \in P
  <2>1. P \in SUBSET (0 .. kept)
    OBVIOUS
  <2> HIDE DEF P
  <2>2. \A i \in 0 .. kept : i \in P
    BY <1>0, <1>3, <1>4, <2>1, UpwardInduction
  <2> QED BY <1>0, <2>2
<1> QED BY <1>1, <1>5

\* Numbers whose entries are new may start over.
LEMMA RestartedSpaced ==
  ASSUME NEW q \in Queues, NEW f \in Quiets, SpacedBy(q, f), NEW sns,
         \A i \in 1 .. Len(q) : q[i].seqNum \in sns => q[i].idle = 0
  PROVE  SpacedBy(q, Restarted(f, sns))
<1> SUFFICES ASSUME NEW i \in 1 .. Len(q)
             PROVE  \/ q[i].idle <= Restarted(f, sns)[q[i].seqNum]
                    \/ MinInterval <= Restarted(f, sns)[q[i].seqNum]
  BY DEF SpacedBy
<1>1. q[i].seqNum \in SN
  BY QueueNumbers
<1>2. CASE q[i].seqNum \in sns
  BY <1>1, <1>2 DEF Restarted
<1>3. CASE q[i].seqNum \notin sns
  BY <1>1, <1>3 DEF Restarted, SpacedBy
<1> QED BY <1>2, <1>3

LEMMA TickedSpaced ==
  ASSUME NEW q \in Queues, NEW f \in Quiets, SpacedBy(q, f)
  PROVE  SpacedBy(Ticked(q), TickQuiet(f))
<1>1. Len(Ticked(q)) = Len(q)
  BY TickedFacts
<1> SUFFICES ASSUME NEW i \in 1 .. Len(q)
             PROVE  \/ Ticked(q)[i].idle <= TickQuiet(f)[Ticked(q)[i].seqNum]
                    \/ MinInterval <= TickQuiet(f)[Ticked(q)[i].seqNum]
  BY <1>1 DEF SpacedBy
<1>2. q[i] \in Entries /\ q[i].seqNum \in SN /\ q[i].idle \in Nat
  BY QueueNumbers, EntryFields
<1>3. /\ Ticked(q)[i].seqNum = q[i].seqNum
      /\ Ticked(q)[i].idle = Older(q[i].idle, IdleCap)
  BY <1>2, TickFacts DEF Ticked
<1>4. TickQuiet(f)[q[i].seqNum] = Older(f[q[i].seqNum], MinInterval)
  BY <1>2 DEF TickQuiet
<1>5. PICK x \in Nat : x = f[q[i].seqNum]
  BY <1>2, QuietIs
<1>6. q[i].idle <= x \/ MinInterval <= x
  BY <1>5 DEF SpacedBy
<1>7. Older(q[i].idle, IdleCap) <= Older(x, MinInterval) \/ MinInterval <= Older(x, MinInterval)
  BY <1>2, <1>6, Params DEF Older
<1> QED BY <1>3, <1>4, <1>5, <1>7

\* Whatever the round-trip time, MinInterval is kept.
LEMMA IntervalAtLeast ==
  ASSUME NEW e \in Entries, rtt \in Rtts
  PROVE  RequiredInterval(e) \in Nat /\ MinInterval <= RequiredInterval(e)
<1>1. RequiredInterval(e) \in Nat
  BY IntervalType
<1>2. MinInterval <= RequiredInterval(e)
  <2> DEFINE b == IF e.tries = 0 THEN 0
                  ELSE IF Backoff[rtt][e.tries] < MaxInterval THEN Backoff[rtt][e.tries]
                  ELSE MaxInterval
  <2>1. b \in Nat
    <3>1. e.tries # 0 => Backoff[rtt][e.tries] \in Nat
      <4>1. e.tries # 0 => e.tries \in 1 .. MaxTries
        BY Params, EntryFields
      <4> QED BY <4>1, RttAssumption
    <3> QED BY <3>1, Params
  <2>2. RequiredInterval(e) = IF b < MinInterval THEN MinInterval ELSE b
    BY DEF RequiredInterval
  <2> HIDE DEF b
  <2> QED BY <2>1, <2>2, Params
<1> QED BY <1>1, <1>2

LEMMA DueIsQuiet ==
  ASSUME nacks \in Queues, rtt \in Rtts, NEW f \in Quiets, SpacedBy(nacks, f),
         NEW moved \in 1 .. Len(nacks) + 1, NEW sn \in DueNumbers(Len(nacks), moved)
  PROVE  MinInterval <= f[sn]
<1>1. PICK k \in 1 .. Len(nacks) : Due(k, moved) /\ nacks[k].seqNum = sn
  BY DEF DueNumbers
<1>2. nacks[k] \in Entries /\ sn \in SN /\ nacks[k].idle \in Nat
  BY <1>1, QueueNumbers, EntryFields
<1>3. nacks[k].idle >= RequiredInterval(nacks[k])
  BY <1>1 DEF Due, Sends
<1>4. PICK r \in Nat : r = RequiredInterval(nacks[k]) /\ MinInterval <= r
  BY <1>2, IntervalAtLeast
<1>5. PICK x \in Nat : x = f[sn]
  BY <1>2, QuietIs
<1>6. nacks[k].idle <= x \/ MinInterval <= x
  BY <1>1, <1>5 DEF SpacedBy
<1> QED BY <1>2, <1>3, <1>4, <1>5, <1>6, Params

LEMMA AskedSpaced ==
  ASSUME nacks \in Queues, rtt \in Rtts, Ahead(nacks), NEW f \in Quiets, SpacedBy(nacks, f),
         NEW moved \in 1 .. Len(nacks) + 1, NEW asked,
         asked = Restarted(f, DueNumbers(Len(nacks), moved))
  PROVE  asked \in Quiets /\ SpacedBy(Purged(moved), asked)
<1>1. asked \in Quiets
  BY RestartedType DEF Quiets
<1> SUFFICES ASSUME NEW j \in 1 .. Len(Purged(moved))
             PROVE  \/ Purged(moved)[j].idle <= asked[Purged(moved)[j].seqNum]
                    \/ MinInterval <= asked[Purged(moved)[j].seqNum]
  BY <1>1 DEF SpacedBy
<1>2. PICK k \in 1 .. Len(nacks) : Purged(moved)[j] = getNack(nacks[k], Late(k, moved))
  BY PurgedKeeps
<1>3. /\ nacks[k] \in Entries /\ nacks[k].seqNum \in SN /\ nacks[k].idle \in Nat
      /\ Late(k, moved) \in {0, 1}
  BY QueueNumbers, EntryFields DEF Late
<1>4. Purged(moved)[j].seqNum = nacks[k].seqNum
  BY <1>2, <1>3, GetNackFacts
<1>5. CASE Due(k, moved)
  <2>1. Purged(moved)[j].idle = 0
    BY <1>2, <1>3, <1>5, GetNackFacts DEF Due
  <2>2. asked[nacks[k].seqNum] \in Nat
    BY <1>1, <1>3, QuietIs
  <2> QED BY <1>4, <2>1, <2>2
<1>6. CASE ~Due(k, moved)
  <2>1. Purged(moved)[j] = nacks[k]
    BY <1>2, <1>3, <1>6, GetNackFacts DEF Due
  <2>2. nacks[k].seqNum \notin DueNumbers(Len(nacks), moved)
    <3> SUFFICES ASSUME nacks[k].seqNum \in DueNumbers(Len(nacks), moved) PROVE FALSE
      OBVIOUS
    <3>1. PICK l \in 1 .. Len(nacks) : Due(l, moved) /\ nacks[l].seqNum = nacks[k].seqNum
      BY DEF DueNumbers
    <3>2. l = k
      BY <3>1, Distinct
    <3> QED BY <1>6, <3>1, <3>2
  <2>3. asked[nacks[k].seqNum] = f[nacks[k].seqNum]
    BY <1>3, <2>2 DEF Restarted
  <2> QED BY <2>1, <2>3 DEF SpacedBy
<1> QED BY <1>5, <1>6

\* The numbers with a try more after a call are those that were due; r is the queue
\* after the call.
TriedMore(r) ==
  { sn \in Numbers(nacks) : \E i \in 1 .. Len(nacks), j \in 1 .. Len(r) :
      /\ nacks[i].seqNum = sn /\ r[j].seqNum = sn
      /\ r[j].tries > nacks[i].tries }

LEMMA TriedMoreAreDue ==
  ASSUME nacks \in Queues, rtt \in Rtts, Ahead(nacks), NEW moved \in 1 .. Len(nacks) + 1,
         NEW r \in {Purged(moved), Ticked(Purged(moved))}
  PROVE  TriedMore(r) = DueNumbers(Len(nacks), moved)
<1> DEFINE w == Purged(moved)
<1>0. w \in Queues
  BY PurgedType
<1>1. /\ Len(r) = Len(w)
      /\ \A j \in 1 .. Len(w) : r[j].seqNum = w[j].seqNum /\ r[j].tries = w[j].tries
  <2>1. CASE r = w
    BY <2>1
  <2>2. CASE r = Ticked(w)
    <3>1. Len(Ticked(w)) = Len(w)
      BY <1>0, TickedFacts
    <3>2. \A j \in 1 .. Len(w) : w[j] \in Entries /\ Ticked(w)[j] = Tick(w[j])
      BY <1>0, QueueNumbers DEF Ticked
    <3> HIDE DEF w
    <3> QED BY <2>2, <3>1, <3>2, TickFacts
  <2> QED BY <2>1, <2>2
<1>2. \A k \in 1 .. Len(nacks) : /\ nacks[k] \in Entries /\ nacks[k].tries \in Nat
                                 /\ Late(k, moved) \in {0, 1}
  BY QueueNumbers, EntryFields DEF Late
<1>3. \A k \in 1 .. Len(nacks) :
        /\ getNack(nacks[k], Late(k, moved)).seqNum = nacks[k].seqNum
        /\ getNack(nacks[k], Late(k, moved)).tries
             = IF Due(k, moved) THEN nacks[k].tries + 1 ELSE nacks[k].tries
  BY <1>2, GetNackFacts DEF Due
<1>4. ASSUME NEW sn \in TriedMore(r) PROVE sn \in DueNumbers(Len(nacks), moved)
  <2>1. PICK i \in 1 .. Len(nacks), j \in 1 .. Len(r) :
          nacks[i].seqNum = sn /\ r[j].seqNum = sn /\ r[j].tries > nacks[i].tries
    BY DEF TriedMore
  <2>2. j \in 1 .. Len(w) /\ w[j].seqNum = sn /\ w[j].tries > nacks[i].tries
    <3> HIDE DEF w
    <3> QED BY <1>1, <2>1
  <2>3. PICK k \in 1 .. Len(nacks) : w[j] = getNack(nacks[k], Late(k, moved))
    BY <2>2, PurgedKeeps
  <2>4. nacks[k].seqNum = nacks[i].seqNum
    BY <1>3, <2>1, <2>2, <2>3
  <2>5. k = i
    BY <2>4, Distinct
  <2>6. Due(k, moved)
    BY <1>2, <1>3, <2>2, <2>3, <2>5
  <2> QED BY <2>1, <2>5, <2>6 DEF DueNumbers
<1>5. ASSUME NEW sn \in DueNumbers(Len(nacks), moved) PROVE sn \in TriedMore(r)
  <2>1. PICK k \in 1 .. Len(nacks) : Due(k, moved) /\ nacks[k].seqNum = sn
    BY DEF DueNumbers
  <2>2. ~Expired(nacks[k], Late(k, moved))
    BY <2>1 DEF Due, Sends
  <2>3. PICK j \in 1 .. Len(w) : w[j] = getNack(nacks[k], Late(k, moved))
    BY <2>2, PurgedKeeps
  <2>4. w[j].seqNum = sn /\ w[j].tries = nacks[k].tries + 1
    BY <1>3, <2>1, <2>3
  <2> HIDE DEF w
  <2>5. j \in 1 .. Len(r) /\ r[j].seqNum = sn /\ r[j].tries > nacks[k].tries
    BY <1>1, <1>2, <2>4
  <2>6. sn \in Numbers(nacks)
    BY <2>1 DEF Numbers
  <2> QED BY <2>1, <2>5, <2>6 DEF TriedMore
<1> QED BY <1>4, <1>5

\* As many as were counted.
LEMMA DueAreCounted ==
  ASSUME nacks \in Queues, Ahead(nacks), NEW moved \in 1 .. Len(nacks) + 1
  PROVE  Cardinality(DueAt(moved)) = Cardinality(DueNumbers(Len(nacks), moved))
<1> DEFINE f == [k \in DueAt(moved) |-> nacks[k].seqNum]
<1>1. IsFiniteSet(DueAt(moved))
  <2>1. IsFiniteSet(1 .. Len(nacks))
    BY QueueNumbers, FS_Interval
  <2> QED BY <2>1, FS_Subset DEF DueAt
<1>2. f \in Bijection(DueAt(moved), DueNumbers(Len(nacks), moved))
  <2>1. f \in [DueAt(moved) -> DueNumbers(Len(nacks), moved)]
    BY DEF DueAt, DueNumbers
  <2>2. \A a, b \in DueAt(moved) : f[a] = f[b] => a = b
    BY Distinct DEF DueAt
  <2>3. \A sn \in DueNumbers(Len(nacks), moved) : \E a \in DueAt(moved) : f[a] = sn
    BY DEF DueAt, DueNumbers
  <2> HIDE DEF f
  <2> QED BY <2>1, <2>2, <2>3 DEF Bijection, Injection, Surjection, IsInjective
<1> QED BY <1>1, <1>2, FS_Bijection DEF ExistsBijection

-----------------------------------------------------------------------------
(* The invariant of queues that are pushed in order.                       *)

OrderInv == /\ IInv
            /\ Ahead(nacks)
            /\ SpacedBy(nacks, quiet)

LEMMA OrderInit == ASSUME Init PROVE OrderInv
<1>1. nacks = <<>>
  BY DEF Init
<1>2. \A i \in 1 .. Len(nacks) : FALSE
  BY <1>1
<1>3. Ahead(nacks) /\ SpacedBy(nacks, quiet)
  BY <1>2 DEF Ahead, SpacedBy
<1> QED BY <1>3, InitIInv DEF OrderInv

\* What a call of Pairs does to a queue that is not empty.
LEMMA PairsStep ==
  ASSUME OrderInv, Pairs, nacks # <<>>
  PROVE  \E moved \in 1 .. Len(nacks) + 1 :
           /\ nacks' \in {Purged(moved), Ticked(Purged(moved))}
           /\ Ahead(nacks') /\ SpacedBy(nacks', quiet')
           /\ Decoded(ret'.pairs) = DueNumbers(Len(nacks), moved)
           /\ ret'.count = Cardinality(DueAt(moved))
<1>0. /\ nacks \in Queues /\ rtt \in Rtts /\ quiet \in Quiets
      /\ Ahead(nacks) /\ SpacedBy(nacks, quiet)
  BY IInvFacts DEF OrderInv, Quiets
<1> DEFINE asked(moved) == Restarted(quiet, Decoded(PairsOf(moved)))
           sent(moved) == { i \in 1 .. Len(nacks) : Sends(nacks[i], Late(i, moved)) }
<1>1. PICK moved \in 1 .. Len(nacks) + 1 :
        /\ nacks' = IF moved <= Len(nacks) THEN Ticked(Purged(moved)) ELSE Purged(moved)
        /\ quiet' = IF moved <= Len(nacks) THEN TickQuiet(asked(moved)) ELSE asked(moved)
        /\ ret' = [pairs |-> PairsOf(moved), count |-> Cardinality(sent(moved))]
  BY DEF Pairs
<1>2. Decoded(PairsOf(moved)) = DueNumbers(Len(nacks), moved)
  BY <1>0, PairsNameDue
<1>3. sent(moved) = DueAt(moved)
  BY DEF DueAt, Due
<1>4. PICK a : a = asked(moved)
  OBVIOUS
<1>5. a = Restarted(quiet, DueNumbers(Len(nacks), moved))
  BY <1>2, <1>4
<1> HIDE DEF asked, sent
<1>6. a \in Quiets /\ SpacedBy(Purged(moved), a)
  <2>1. PICK f \in Quiets : f = quiet
    BY <1>0
  <2>2. a = Restarted(f, DueNumbers(Len(nacks), moved))
    BY <1>5, <2>1
  <2> QED BY <1>0, <2>1, <2>2, AskedSpaced
<1>7. Purged(moved) \in Queues /\ Ahead(Purged(moved))
  BY <1>0, PurgedType, PurgedKeeps
<1>8. Ahead(Ticked(Purged(moved))) /\ SpacedBy(Ticked(Purged(moved)), TickQuiet(a))
  BY <1>6, <1>7, TickedAhead, TickedSpaced
<1>9. Ahead(nacks') /\ SpacedBy(nacks', quiet')
  <2>1. CASE moved <= Len(nacks)
    <3>1. nacks' = Ticked(Purged(moved)) /\ quiet' = TickQuiet(a)
      BY <1>1, <1>4, <2>1
    <3> QED BY <1>8, <3>1
  <2>2. CASE ~(moved <= Len(nacks))
    <3>1. nacks' = Purged(moved) /\ quiet' = a
      BY <1>1, <1>4, <2>2
    <3> QED BY <1>6, <1>7, <3>1
  <2> QED BY <2>1, <2>2
<1>10. ret'.pairs = PairsOf(moved) /\ ret'.count = Cardinality(sent(moved))
  BY <1>1
<1>11. nacks' \in {Purged(moved), Ticked(Purged(moved))}
  BY <1>1
<1> QED BY <1>2, <1>3, <1>9, <1>10, <1>11

LEMMA OrderNext ==
  ASSUME InOrder, OrderInv, [Next]_vars
  PROVE  OrderInv'
<1>0. /\ nacks \in Queues /\ Len(nacks) <= MaxNacks /\ rtt \in Rtts /\ quiet \in Quiets
      /\ Ahead(nacks) /\ SpacedBy(nacks, quiet) /\ IInv
  BY IInvFacts DEF OrderInv, Quiets
<1>i. IInv'
  BY <1>0, NextIInv
<1> SUFFICES Ahead(nacks') /\ SpacedBy(nacks', quiet')
  BY <1>i DEF OrderInv
<1>1. ASSUME NEW sn \in SN, Push(sn) PROVE Ahead(nacks') /\ SpacedBy(nacks', quiet')
  <2>1. nacks' = Pushed(nacks, sn) /\ quiet' = Restarted(quiet, {sn}) /\ MayPush(nacks, sn)
    BY <1>1 DEF Push
  <2>2. \A i \in 1 .. Len(nacks) : Minus(sn, nacks[i].seqNum) \in 1 .. Half
    BY <2>1 DEF MayPush, InOrder, Half
  <2>3. Ahead(Pushed(nacks, sn))
    BY <1>0, <2>2, PushedAhead
  <2>4. SpacedBy(Pushed(nacks, sn), quiet)
    BY <1>0, PushedSpaced
  <2>5. Pushed(nacks, sn) \in Queues
    BY <1>0, PushedType
  <2>6. ASSUME NEW j \in 1 .. Len(Pushed(nacks, sn)), Pushed(nacks, sn)[j].seqNum \in {sn}
        PROVE  Pushed(nacks, sn)[j].idle = 0
    <3>0. Len(nacks) \in Nat
      BY <1>0, QueueNumbers
    <3>1. PICK c \in {0, 1} : /\ c <= Len(nacks) /\ Len(Pushed(nacks, sn)) = Len(nacks) - c + 1
                              /\ \A i \in 1 .. Len(nacks) - c : Pushed(nacks, sn)[i] = nacks[i + c]
                              /\ Pushed(nacks, sn)[Len(nacks) - c + 1] = newNack(sn)
      BY <1>0, PushedIs
    <3>2. CASE j \in 1 .. Len(nacks) - c
      <4>1. j + c \in 1 .. Len(nacks) /\ Pushed(nacks, sn)[j] = nacks[j + c]
        BY <3>0, <3>1, <3>2
      <4>2. Minus(sn, sn) \in 1 .. Half
        BY <2>2, <2>6, <4>1
      <4> QED BY <4>2, MinusItself
    <3>3. CASE j = Len(nacks) - c + 1
      BY <3>1, <3>3 DEF newNack
    <3>4. j \in 1 .. Len(nacks) - c \/ j = Len(nacks) - c + 1
      <4>1. j \in 1 .. Len(nacks) - c + 1 /\ c \in Int /\ Len(nacks) \in Int
        BY <3>0, <3>1
      <4> QED BY <4>1
    <3> QED BY <3>2, <3>3, <3>4
  <2>7. SpacedBy(Pushed(nacks, sn), Restarted(quiet, {sn}))
    BY <1>0, <2>4, <2>5, <2>6, RestartedSpaced
  <2> QED BY <2>1, <2>3, <2>7
<1>2. ASSUME NEW end \in SN, NEW count \in RangeCounts, PushRange(end, count)
      PROVE  Ahead(nacks') /\ SpacedBy(nacks', quiet')
  <2> DEFINE pushed == { Minus(end, n) : n \in 1 .. Kept(count) }
  <2>1. /\ nacks' = PushedRange(end, count) /\ quiet' = Restarted(quiet, pushed)
        /\ \A n \in 1 .. count : n <= MaxNacks => MayPush(nacks, Minus(end, n))
    BY <1>2 DEF PushRange
  <2>2. count \in Nat
    BY Params
  <2>3. Ahead(PushedRange(end, count))
    BY <1>0, <2>1, <2>2, PushedRangeAhead
  <2>4. SpacedBy(PushedRange(end, count), quiet)
    BY <1>0, <2>2, PushedRangeSpaced
  <2>5. PushedRange(end, count) \in Queues
    BY <1>0, <2>2, PushedRangeFacts
  <2>6. ASSUME NEW j \in 1 .. Len(PushedRange(end, count)),
               PushedRange(end, count)[j].seqNum \in pushed
        PROVE  PushedRange(end, count)[j].idle = 0
    <3>1. SUFFICES ASSUME NEW k \in 1 .. Len(nacks), PushedRange(end, count)[j] = nacks[k]
                   PROVE  FALSE
      BY <1>0, <2>2, PushedRangeNew
    <3>2. PICK n \in 1 .. Kept(count) : nacks[k].seqNum = Minus(end, n)
      BY <2>6, <3>1
    <3>3. n \in 1 .. count /\ n <= MaxNacks /\ n \in Int /\ end \in Int
      BY <2>2, Params DEF Kept, SN
    <3>4. Minus(end, n) \in SN
      BY <3>3, SNClosed
    <3>5. Minus(Minus(end, n), nacks[k].seqNum) \in 1 .. Half
      BY <2>1, <3>3 DEF MayPush, InOrder, Half
    <3> QED BY <3>2, <3>4, <3>5, MinusItself
  <2> HIDE DEF pushed
  <2>7. SpacedBy(PushedRange(end, count), Restarted(quiet, pushed))
    BY <1>0, <2>4, <2>5, <2>6, RestartedSpaced
  <2> QED BY <2>1, <2>3, <2>7
<1>3. ASSUME NEW sn \in SN, Remove(sn) PROVE Ahead(nacks') /\ SpacedBy(nacks', quiet')
  <2>1. nacks' = Removed(nacks, sn) /\ quiet' = quiet
    BY <1>3 DEF Remove
  <2>2. Ahead(Removed(nacks, sn)) /\ SpacedBy(Removed(nacks, sn), quiet)
    BY <1>0, RemovedAhead, RemovedSpaced
  <2> QED BY <2>1, <2>2
<1>4. ASSUME NEW r \in RttInputs, SetRTT(r) PROVE Ahead(nacks') /\ SpacedBy(nacks', quiet')
  <2>1. nacks' = nacks /\ quiet' = quiet
    BY <1>4 DEF SetRTT
  <2> QED BY <1>0, <2>1
<1>5. CASE Pairs
  <2>1. CASE nacks = <<>>
    <3>1. nacks' = nacks /\ quiet' = quiet
      BY <1>5, <2>1 DEF Pairs
    <3> QED BY <1>0, <3>1
  <2>2. CASE nacks # <<>>
    BY <1>5, <2>2, PairsStep
  <2> QED BY <2>1, <2>2
<1>6. CASE Elapse
  <2>1. nacks' = Ticked(nacks) /\ quiet' = TickQuiet(quiet)
    BY <1>6 DEF Elapse
  <2>2. Ahead(Ticked(nacks)) /\ SpacedBy(Ticked(nacks), TickQuiet(quiet))
    BY <1>0, TickedAhead, TickedSpaced
  <2> QED BY <2>1, <2>2
<1>7. CASE UNCHANGED vars
  BY <1>0, <1>7 DEF vars
<1> QED BY <1>1, <1>2, <1>3, <1>4, <1>5, <1>6, <1>7 DEF Next, Pushes

LEMMA OrderHolds == ASSUME InOrder PROVE Spec => []OrderInv
<1>1. Init => OrderInv
  BY OrderInit
<1>2. OrderInv /\ [Next]_vars => OrderInv'
  BY OrderNext
<1> QED BY <1>1, <1>2, PTL DEF Spec

\* Only Pairs returns any.
LEMMA PairsOnly ==
  ASSUME OrderInv, [Next]_vars, NEW sn \in Decoded(ret'.pairs)
  PROVE  (Pairs /\ nacks # <<>>) \/ UNCHANGED vars
<1>1. Decoded(Nothing.pairs) = {}
  BY DecodedNone DEF Nothing
<1>2. ret' # Nothing
  BY <1>1
<1> QED BY <1>2 DEF Next, Pushes, Push, PushRange, Remove, SetRTT, Pairs, Elapse

\* For a caller that pushes the gaps of one stream, and a queue that holds no more than
\* half of all numbers: no number is asked for twice within MinInterval, nor for the
\* first time before MinInterval has passed since it was pushed, whatever is removed and pushed again and
\* however round-trip times and the clock move (nack.go 265-302).
THEOREM RequestsAreSpaced == ASSUME InOrder PROVE Spec => NackSpacing
<1>1. OrderInv /\ [Next]_vars =>
        [\A sn \in Decoded(ret'.pairs) : quiet[sn] >= MinInterval]_vars
  <2> SUFFICES ASSUME OrderInv, [Next]_vars, ~UNCHANGED vars, NEW sn \in Decoded(ret'.pairs)
               PROVE  quiet[sn] >= MinInterval
    OBVIOUS
  <2>1. Pairs /\ nacks # <<>>
    BY PairsOnly
  <2>2. PICK moved \in 1 .. Len(nacks) + 1 : Decoded(ret'.pairs) = DueNumbers(Len(nacks), moved)
    BY <2>1, PairsStep
  <2>3. /\ nacks \in Queues /\ rtt \in Rtts /\ quiet \in Quiets /\ SpacedBy(nacks, quiet)
    BY IInvFacts DEF OrderInv, Quiets
  <2>4. sn \in DueNumbers(Len(nacks), moved)
    BY <2>2
  <2>5. MinInterval <= quiet[sn] /\ sn \in SN
    <3>1. MinInterval <= quiet[sn]
      BY <2>3, <2>4, DueIsQuiet
    <3>2. sn \in SN
      BY <2>3, <2>4, QueueNumbers DEF DueNumbers
    <3> QED BY <3>1, <3>2
  <2>6. quiet[sn] \in Nat
    BY <2>3, <2>5, QuietIs
  <2> QED BY <2>5, <2>6, Params
<1> QED BY <1>1, OrderHolds, PTL DEF Spec, NackSpacing

\* For the same callers and queues: what the pairs name is what a try was counted
\* for, each number once, over every wrap of the numbers and for any width of the
\* bitmaps that fits into half of them (nack.go 134-189).
THEOREM PairsAreExact == ASSUME InOrder PROVE Spec => PairsNameAllSent
<1>1. OrderInv /\ [Next]_vars =>
        (Pairs => /\ Decoded(ret'.pairs) = TriedMore(nacks')
                  /\ ret'.count = Cardinality(TriedMore(nacks')))
  <2> SUFFICES ASSUME OrderInv, Pairs
               PROVE  /\ Decoded(ret'.pairs) = TriedMore(nacks')
                      /\ ret'.count = Cardinality(TriedMore(nacks'))
    OBVIOUS
  <2>0. nacks \in Queues /\ rtt \in Rtts /\ Ahead(nacks)
    BY IInvFacts DEF OrderInv
  <2>1. CASE nacks = <<>>
    <3>1. ret' = Nothing
      BY <2>1 DEF Pairs
    <3>2. Decoded(ret'.pairs) = {} /\ ret'.count = 0
      BY <3>1, DecodedNone DEF Nothing
    <3>3. Numbers(nacks) = {}
      BY <2>1 DEF Numbers
    <3>4. TriedMore(nacks') = {}
      BY <3>3 DEF TriedMore
    <3> QED BY <3>2, <3>4, FS_EmptySet
  <2>2. CASE nacks # <<>>
    <3>1. PICK moved \in 1 .. Len(nacks) + 1 :
            /\ nacks' \in {Purged(moved), Ticked(Purged(moved))}
            /\ Decoded(ret'.pairs) = DueNumbers(Len(nacks), moved)
            /\ ret'.count = Cardinality(DueAt(moved))
      BY <2>2, PairsStep
    <3>2. PICK r \in {Purged(moved), Ticked(Purged(moved))} : r = nacks'
      BY <3>1
    <3>3. TriedMore(r) = DueNumbers(Len(nacks), moved)
      BY <2>0, <3>2, TriedMoreAreDue
    <3>4. TriedMore(nacks') = TriedMore(r)
      BY <3>2 DEF TriedMore
    <3>5. Cardinality(DueAt(moved)) = Cardinality(DueNumbers(Len(nacks), moved))
      BY <2>0, DueAreCounted
    <3> QED BY <3>1, <3>3, <3>4, <3>5
  <2> QED BY <2>1, <2>2
<1>2. PairsNameAllSent <=>
        [][Pairs => /\ Decoded(ret'.pairs) = TriedMore(nacks')
                    /\ ret'.count = Cardinality(TriedMore(nacks'))]_vars
  BY DEF PairsNameAllSent, TriedMore
<1> QED BY <1>1, <1>2, OrderHolds, PTL DEF Spec
=============================================================================
