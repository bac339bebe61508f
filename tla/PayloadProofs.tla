------------------------------ MODULE PayloadProofs ------------------------------
(***************************************************************************)
(* For every range of numbers, every width of the history and all          *)
(* payloads, and packets that arrive in any order: the history's bits are  *)
(* the numbers received, the lost packets are recovered, and no two blocks *)
(* share bytes.  The invariant adds that no number ahead of lastSeq counts *)
(* as received, which a step forward needs for the bits it clears.  And    *)
(* for every sequence of bytes and every picture id: a VP8 descriptor      *)
(* rewritten is parsed as the one that was meant.  And for every packet a  *)
(* sender fills, of any units: the key frame and the parameter set are     *)
(* found in it, and nothing in a part of it that the whole has not.        *)
(***************************************************************************)
EXTENDS MCPayloads, WellFoundedInduction, SequenceTheorems, TLAPS

-----------------------------------------------------------------------------
(* Loops that count up: induction and recursion over 0 .. n, with sets in  *)
(* place of predicates.                                                    *)

\* A nonempty set of naturals has a least element.
LEMMA LeastElement ==
  ASSUME NEW T \in SUBSET Nat, T # {}
  PROVE  \E x \in T : \A y \in T : x <= y
<1> DEFINE Less == { ss \in Nat \X Nat : ss[1] < ss[2] }
<1>1. IsWellFoundedOn(Less, Nat)
  BY NatLessThanWellFounded DEF OpToRel
<1>2. PICK x \in T : \A y \in T : ~(<<y, x>> \in Less)
  <2> HIDE DEF Less
  <2> QED BY <1>1, WFMin
<1>3. \A y \in T : ~(y < x)
  BY <1>2
<1> QED BY <1>3

\* A set that holds 0, and i + 1 whenever it holds i, holds 0 .. hi.
LEMMA UpwardInduction ==
  ASSUME NEW hi \in Nat, NEW P \in SUBSET (0 .. hi), 0 \in P,
         \A i \in 0 .. hi - 1 : i \in P => i + 1 \in P
  PROVE  \A i \in 0 .. hi : i \in P
<1> DEFINE T == (0 .. hi) \ P
<1> SUFFICES ASSUME T # {} PROVE FALSE
  OBVIOUS
<1>1. PICK x \in T : \A y \in T : x <= y
  <2>1. T \in SUBSET Nat
    OBVIOUS
  <2> HIDE DEF T
  <2> QED BY <2>1, LeastElement
<1>2. x \in 0 .. hi /\ x \notin P /\ x # 0
  OBVIOUS
<1>3. x - 1 \in 0 .. hi - 1 /\ (x - 1) + 1 = x /\ ~(x <= x - 1)
  BY <1>2
<1>4. x - 1 \in P
  BY <1>1, <1>3
<1> QED BY <1>2, <1>3, <1>4

\* f[i] is the value after the body G[1], ..., G[i] ran on base.
CountsUp(f, n, V, base, G) ==
  /\ f \in [0 .. n -> V]
  /\ f[0] = base
  /\ \A i \in 1 .. n : f[i] = G[i][f[i - 1]]

LEMMA UpwardRecursion ==
  ASSUME NEW n \in Nat, NEW V, NEW base \in V, NEW G \in [1 .. n -> [V -> V]]
  PROVE  \E f : CountsUp(f, n, V, base, G)
<1> DEFINE P == { k \in 0 .. n : \E f : CountsUp(f, k, V, base, G) }
<1>1. 0 \in P
  <2>1. CountsUp([i \in 0 .. 0 |-> base], 0, V, base, G)
    BY DEF CountsUp
  <2> QED BY <2>1
<1>2. ASSUME NEW k \in 0 .. n - 1, k \in P PROVE k + 1 \in P
  <2>1. PICK f : CountsUp(f, k, V, base, G)
    BY <1>2
  <2> DEFINE v == G[k + 1][f[k]]
             g == [i \in 0 .. k + 1 |-> IF i = k + 1 THEN v ELSE f[i]]
  <2>2. v \in V
    BY <2>1 DEF CountsUp
  <2>3. g \in [0 .. k + 1 -> V] /\ g[0] = base
    BY <2>1, <2>2 DEF CountsUp
  <2>4. g[k + 1] = v /\ \A i \in 0 .. k : g[i] = f[i]
    OBVIOUS
  <2> HIDE DEF g
  <2>5. ASSUME NEW i \in 1 .. k + 1 PROVE g[i] = G[i][g[i - 1]]
    <3>1. i - 1 \in 0 .. k /\ g[i - 1] = f[i - 1]
      BY <2>4
    <3>2. CASE i = k + 1
      BY <2>4, <3>1, <3>2
    <3>3. CASE i \in 1 .. k
      BY <2>1, <2>4, <3>1, <3>3 DEF CountsUp
    <3> QED BY <3>2, <3>3
  <2>6. CountsUp(g, k + 1, V, base, G)
    BY <2>3, <2>5 DEF CountsUp
  <2> QED BY <2>6
<1>3. n \in P
  <2>1. P \in SUBSET (0 .. n)
    OBVIOUS
  <2> HIDE DEF P
  <2>2. \A i \in 0 .. n : i \in P
    BY <1>1, <1>2, <2>1, UpwardInduction
  <2> QED BY <2>2
<1> QED BY <1>3

-----------------------------------------------------------------------------

\* What was received lies behind lastSeq, and lastSeq is part of it.
Behind ==
  /\ \A s \in arrived : Minus(lastSeq, s) < Half
  /\ started => lastSeq \in arrived
  /\ ~started => arrived = {}

IInv == HistoryExact /\ Behind

-----------------------------------------------------------------------------
(* Distances between numbers.                                              *)

LEMMA ConstantsTyped ==
  /\ SeqRange \in Nat \ {0} /\ Half \in Nat \ {0} /\ SeqRange = 2 * Half
  /\ Width \in Nat \ {0} /\ Width < Half
<1>1. SeqRange \in Nat /\ Half \in Int /\ SeqRange = 2 * Half
  BY RedAssumption, SMT DEF Half
<1> QED BY <1>1, RedAssumption DEF Half

\* On numbers, uint16's difference is the distance around the circle.
LEMMA MinusIs ==
  ASSUME NEW a \in SeqNums, NEW b \in SeqNums
  PROVE  Minus(a, b) = IF a >= b THEN a - b ELSE a - b + SeqRange
<1> DEFINE x == a - b
<1>1. SeqRange \in Nat \ {0} /\ a \in 0 .. SeqRange - 1 /\ b \in 0 .. SeqRange - 1
  BY ConstantsTyped DEF SeqNums
<1>2. x \in Int /\ -SeqRange < x /\ x < SeqRange
  BY <1>1
<1> HIDE DEF x
<1>3. \A q \in Int, r \in 0 .. SeqRange - 1 :
        x = SeqRange * q + r => r = IF x >= 0 THEN x ELSE x + SeqRange
  <2> SUFFICES ASSUME NEW q \in Int, NEW r \in 0 .. SeqRange - 1, x = SeqRange * q + r
               PROVE  r = IF x >= 0 THEN x ELSE x + SeqRange
    OBVIOUS
  <2>1. q = 0 \/ q = -1
    <3>1. CASE q >= 1
      BY <1>1, <1>2, <3>1, SMT
    <3>2. CASE q <= -2
      BY <1>1, <1>2, <3>2, SMT
    <3> QED BY <3>1, <3>2
  <2> QED BY <1>1, <1>2, <2>1, SMT
<1>4. x = SeqRange * (x \div SeqRange) + (x % SeqRange)
      /\ x \div SeqRange \in Int /\ x % SeqRange \in 0 .. SeqRange - 1
  BY <1>1, <1>2, SMT
<1>5. x % SeqRange = IF x >= 0 THEN x ELSE x + SeqRange
  BY <1>3, <1>4
<1> QED BY <1>1, <1>5 DEF x, Minus

-----------------------------------------------------------------------------
(* The numbers behind a number.                                            *)

\* The number of a bit, and the bit after a step of n.
LEMMA BitNumber ==
  ASSUME NEW a \in SeqNums, NEW k \in Bits
  PROVE  /\ Minus(a, k + 1) \in SeqNums
         /\ Minus(a, Minus(a, k + 1)) = k + 1
<1>1. k + 1 \in SeqNums
  BY ConstantsTyped DEF Bits, SeqNums
<1>2. Minus(a, k + 1) = IF a >= k + 1 THEN a - (k + 1) ELSE a - (k + 1) + SeqRange
  BY <1>1, MinusIs
<1>3. Minus(a, k + 1) \in SeqNums
  BY <1>1, <1>2, ConstantsTyped DEF SeqNums
<1>4. Minus(a, Minus(a, k + 1)) =
        IF a >= Minus(a, k + 1) THEN a - Minus(a, k + 1) ELSE a - Minus(a, k + 1) + SeqRange
  BY <1>3, MinusIs
<1> QED BY <1>1, <1>2, <1>3, <1>4, ConstantsTyped DEF SeqNums

\* Two numbers equally far behind a third are the same.
LEMMA SameDistance ==
  ASSUME NEW a \in SeqNums, NEW b \in SeqNums, NEW c \in SeqNums, Minus(a, b) = Minus(a, c)
  PROVE  b = c
BY MinusIs, ConstantsTyped DEF SeqNums

\* Seen from a number ahead, everything is that much further behind.
LEMMA Further ==
  ASSUME NEW a \in SeqNums, NEW b \in SeqNums, NEW s \in SeqNums
  PROVE  Minus(a, s) = IF Minus(a, b) + Minus(b, s) < SeqRange
                       THEN Minus(a, b) + Minus(b, s)
                       ELSE Minus(a, b) + Minus(b, s) - SeqRange
<1>1. /\ Minus(a, s) = IF a >= s THEN a - s ELSE a - s + SeqRange
      /\ Minus(a, b) = IF a >= b THEN a - b ELSE a - b + SeqRange
      /\ Minus(b, s) = IF b >= s THEN b - s ELSE b - s + SeqRange
  BY MinusIs
<1> QED BY <1>1, ConstantsTyped DEF SeqNums

LEMMA MinusTyped ==
  ASSUME NEW a \in SeqNums, NEW b \in SeqNums
  PROVE  /\ Minus(a, b) \in SeqNums
         /\ Minus(a, b) = 0 <=> a = b
         /\ a # b => Minus(b, a) = SeqRange - Minus(a, b)
<1>1. /\ Minus(a, b) = IF a >= b THEN a - b ELSE a - b + SeqRange
      /\ Minus(b, a) = IF b >= a THEN b - a ELSE b - a + SeqRange
  BY MinusIs
<1> QED BY <1>1, ConstantsTyped DEF SeqNums

-----------------------------------------------------------------------------
(* A call.                                                                 *)

\* The history before a call, bit by bit, as the distance of what was received.
LEMMA Received ==
  ASSUME HistoryExact, NEW k \in Bits
  PROVE  k \in pktHistory <=> \E s \in arrived : Minus(lastSeq, s) = k + 1
<1>1. lastSeq \in SeqNums /\ arrived \subseteq SeqNums
      /\ (k \in pktHistory <=> Minus(lastSeq, k + 1) \in arrived)
  BY DEF HistoryExact, TypeOK
<1>2. Minus(lastSeq, k + 1) \in SeqNums /\ Minus(lastSeq, Minus(lastSeq, k + 1)) = k + 1
  BY <1>1, BitNumber
<1> QED BY <1>1, <1>2, SameDistance

\* And the other way round: a history that matches the distances is exact.
LEMMA Exact ==
  ASSUME NEW last \in SeqNums, NEW h, NEW seen \in SUBSET SeqNums,
         \A k \in Bits : k \in h <=> \E s \in seen : Minus(last, s) = k + 1
  PROVE  \A k \in Bits : k \in h <=> Minus(last, k + 1) \in seen
<1> TAKE k \in Bits
<1>1. Minus(last, k + 1) \in SeqNums /\ Minus(last, Minus(last, k + 1)) = k + 1
  BY BitNumber
<1> QED BY <1>1, SameDistance

\* Where a call leaves lastSeq and the history.
Moves(sn, last, h) ==
  LET diff == Minus(sn, lastSeq) IN
  \/ ~started /\ last = sn /\ h = {}
  \/ started /\ diff = 0 /\ last = lastSeq /\ h = pktHistory
  \/ started /\ diff > Half /\ last = lastSeq
     /\ h = pktHistory \cup (IF LateBit(diff) < Width THEN {LateBit(diff)} ELSE {})
  \/ started /\ diff \in Width + 1 .. Half /\ last = sn /\ h = {}
  \/ started /\ diff \in 1 .. Width /\ last = sn /\ h = Shifted(pktHistory, diff)

LEMMA TrackMoves ==
  ASSUME started \in BOOLEAN, lastSeq \in SeqNums, NEW sn \in SeqNums
  PROVE  Moves(sn, Track(sn)[1], Track(sn)[2])
<1> DEFINE diff == Minus(sn, lastSeq)
<1>1. diff \in SeqNums
  BY MinusTyped
<1> HIDE DEF diff
<1>2. \/ ~started
      \/ started /\ diff = 0
      \/ started /\ diff > Half
      \/ started /\ diff \in Width + 1 .. Half
      \/ started /\ diff \in 1 .. Width
  BY <1>1, ConstantsTyped DEF SeqNums
<1>3. CASE ~started
  BY <1>3 DEF Track, Moves
<1>4. CASE started /\ diff = 0
  BY <1>4, ConstantsTyped DEF Track, Moves, diff
<1>5. CASE started /\ diff > Half
  BY <1>5, <1>1, ConstantsTyped DEF Track, Moves, diff
<1>6. CASE started /\ diff \in Width + 1 .. Half
  BY <1>6, <1>1, ConstantsTyped DEF Track, Moves, diff
<1>7. CASE started /\ diff \in 1 .. Width
  BY <1>7, <1>1, ConstantsTyped DEF Track, Moves, diff
<1> QED BY <1>2, <1>3, <1>4, <1>5, <1>6, <1>7

\* The numbers that count after a call.
Seen(sn, last) == { s \in arrived \cup {sn} : Minus(last, s) < Half }

\* The history a call leaves is that of the numbers that count after it.
Fits(last, h, seen) ==
  /\ h \subseteq Bits /\ last \in seen
  /\ \A k \in Bits : k \in h <=> \E s \in seen : Minus(last, s) = k + 1

LEMMA MovesFit ==
  ASSUME IInv, NEW sn \in SeqNums, NEW last, NEW h, Moves(sn, last, h)
  PROVE  Fits(last, h, Seen(sn, last))
<1> DEFINE diff == Minus(sn, lastSeq)
<1>1. /\ started \in BOOLEAN /\ lastSeq \in SeqNums /\ arrived \subseteq SeqNums /\ pktHistory \subseteq Bits
      /\ \A s \in arrived : Minus(lastSeq, s) < Half
      /\ started => lastSeq \in arrived
      /\ ~started => arrived = {}
  BY DEF IInv, HistoryExact, TypeOK, Behind
<1>2. \A k \in Bits : k \in pktHistory <=> \E s \in arrived : Minus(lastSeq, s) = k + 1
  BY Received DEF IInv
<1>3. /\ diff \in SeqNums /\ (diff = 0 <=> sn = lastSeq)
      /\ diff # 0 => Minus(lastSeq, sn) = SeqRange - diff
      /\ Minus(sn, sn) = 0 /\ Minus(lastSeq, lastSeq) = 0
  BY <1>1, MinusTyped
<1>4. \A s \in arrived : /\ Minus(lastSeq, s) \in SeqNums
                         /\ Minus(sn, s) = IF diff + Minus(lastSeq, s) < SeqRange
                                           THEN diff + Minus(lastSeq, s)
                                           ELSE diff + Minus(lastSeq, s) - SeqRange
  BY <1>1, Further, MinusTyped
<1>5. \A k \in Bits : k \in Nat /\ k + 1 \in 1 .. Width /\ k + 1 < Half
  BY ConstantsTyped DEF Bits
<1> HIDE DEF diff
<1>6. CASE ~started /\ last = sn /\ h = {}
  <2>1. Seen(sn, last) = {sn}
    BY <1>1, <1>3, <1>6, ConstantsTyped DEF Seen
  <2> QED BY <2>1, <1>3, <1>5, <1>6 DEF Fits
<1>7. CASE started /\ diff = 0 /\ last = lastSeq /\ h = pktHistory
  <2>1. arrived \cup {sn} = arrived
    BY <1>1, <1>3, <1>7
  <2>2. Seen(sn, last) = { s \in arrived : Minus(lastSeq, s) < Half }
    BY <2>1, <1>7 DEF Seen
  <2>3. Seen(sn, last) = arrived
    BY <2>2, <1>1
  <2> QED BY <2>3, <1>1, <1>2, <1>7 DEF Fits
<1>8. CASE started /\ diff > Half /\ last = lastSeq
           /\ h = pktHistory \cup (IF LateBit(diff) < Width THEN {LateBit(diff)} ELSE {})
  <2>1. Seen(sn, last) = arrived \cup {sn} /\ Minus(lastSeq, sn) = SeqRange - diff
    <3>1. diff \in Int /\ diff # 0
      BY <1>3, <1>8, ConstantsTyped DEF SeqNums
    <3>2. Minus(lastSeq, sn) = SeqRange - diff
      BY <3>1, <1>3
    <3>3. Minus(lastSeq, sn) < Half
      BY <3>1, <3>2, <1>8, ConstantsTyped
    <3>4. \A s \in arrived \cup {sn} : Minus(lastSeq, s) < Half
      BY <3>3, <1>1
    <3>5. Seen(sn, last) = { s \in arrived \cup {sn} : Minus(lastSeq, s) < Half }
      BY <1>8 DEF Seen
    <3> QED BY <3>2, <3>4, <3>5
  <2>2. LateBit(diff) \in Nat /\ LateBit(diff) + 1 = Minus(lastSeq, sn)
    BY <2>1, <1>3, ConstantsTyped DEF LateBit, SeqNums
  <2>3. h \subseteq Bits
    <3>1. LateBit(diff) < Width => LateBit(diff) \in Bits
      BY <2>2, ConstantsTyped DEF Bits
    <3> HIDE DEF Bits
    <3> QED BY <3>1, <1>1, <1>8
  <2>4. ASSUME NEW k \in Bits
        PROVE  k \in h <=> \E s \in Seen(sn, last) : Minus(last, s) = k + 1
    <3>1. Minus(lastSeq, sn) = k + 1 <=> k = LateBit(diff)
      BY <1>5, <2>2
    <3>2. k = LateBit(diff) => LateBit(diff) < Width
      BY <1>5, ConstantsTyped
    <3> QED BY <1>2, <1>8, <2>1, <3>1, <3>2
  <2> QED BY <2>1, <2>3, <2>4, <1>1, <1>8 DEF Fits
<1>9. CASE started /\ diff \in Width + 1 .. Half /\ last = sn /\ h = {}
  <2>1. sn \in Seen(sn, last)
    BY <1>3, <1>9, ConstantsTyped DEF Seen
  <2>2. ASSUME NEW k \in Bits, NEW s \in Seen(sn, last)
        PROVE  Minus(last, s) # k + 1
    <3>1. CASE s = sn
      BY <3>1, <1>3, <1>5, <1>9
    <3>2. CASE s \in arrived
      <4>1. Minus(sn, s) = diff + Minus(lastSeq, s) /\ Minus(lastSeq, s) \in Nat
        BY <3>2, <1>1, <1>4, <1>9, ConstantsTyped DEF SeqNums
      <4> QED BY <4>1, <1>5, <1>9, ConstantsTyped
    <3> QED BY <3>1, <3>2 DEF Seen
  <2> QED BY <2>1, <2>2, <1>9 DEF Fits
<1>10. CASE started /\ diff \in 1 .. Width /\ last = sn /\ h = Shifted(pktHistory, diff)
  <2>1. sn \in Seen(sn, last)
    BY <1>3, <1>10, ConstantsTyped DEF Seen
  <2>2. \A s \in arrived : Minus(sn, s) = diff + Minus(lastSeq, s) /\ Minus(lastSeq, s) \in Nat
    BY <1>1, <1>4, <1>10, ConstantsTyped DEF SeqNums
  <2>3. h = ({ k + diff : k \in pktHistory } \cap Bits) \cup {diff - 1}
    BY <1>10 DEF Shifted
  <2>4. diff \in Nat /\ diff - 1 \in Bits
    BY <1>10, ConstantsTyped DEF Bits
  <2>5. ASSUME NEW k \in Bits
        PROVE  k \in h <=> \E s \in Seen(sn, last) : Minus(last, s) = k + 1
    <3>1. ASSUME k \in h
          PROVE  \E s \in Seen(sn, last) : Minus(last, s) = k + 1
      <4>1. CASE k = diff - 1
        <5>1. lastSeq \in arrived /\ Minus(sn, lastSeq) = k + 1
          BY <4>1, <2>2, <2>4, <1>1, <1>3, <1>10
        <5> QED BY <5>1, <1>5, <1>10 DEF Seen
      <4>2. CASE k # diff - 1
        <5>1. PICK j \in pktHistory : k = j + diff
          BY <3>1, <4>2, <2>3
        <5>2. j \in Bits /\ j \in Nat
          BY <1>1, <1>5
        <5>3. PICK s \in arrived : Minus(lastSeq, s) = j + 1
          BY <1>2, <5>2
        <5>4. Minus(sn, s) = k + 1
          BY <5>1, <5>2, <5>3, <2>2, <2>4
        <5> QED BY <5>4, <1>5, <1>10 DEF Seen
      <4> QED BY <4>1, <4>2
    <3>2. ASSUME NEW s \in Seen(sn, last), Minus(last, s) = k + 1
          PROVE  k \in h
      <4>1. s \in arrived
        BY <3>2, <1>3, <1>5, <1>10 DEF Seen
      <4>2. diff + Minus(lastSeq, s) = k + 1 /\ Minus(lastSeq, s) \in Nat
        BY <4>1, <3>2, <2>2, <1>10
      <4>3. CASE Minus(lastSeq, s) = 0
        BY <4>2, <4>3, <2>3, <2>4, <1>5
      <4>4. CASE Minus(lastSeq, s) # 0
        <5> DEFINE j == Minus(lastSeq, s) - 1
        <5>1. j \in Bits /\ k = j + diff
          BY <4>2, <4>4, <2>4, <1>5, ConstantsTyped DEF Bits
        <5>2. j \in pktHistory
          BY <5>1, <4>1, <4>2, <1>2
        <5> QED BY <5>1, <5>2, <2>3
      <4> QED BY <4>3, <4>4
    <3> QED BY <3>1, <3>2
  <2> QED BY <2>1, <2>3, <2>4, <2>5, <1>10 DEF Fits
<1> QED BY <1>6, <1>7, <1>8, <1>9, <1>10 DEF Moves, diff

LEMMA DepacketizeKeeps ==
  ASSUME IInv, NEW sn \in SeqNums, NEW p \in Payloads, Depacketize(sn, p)
  PROVE  IInv'
<1>1. /\ started' = TRUE /\ lastSeq' = Track(sn)[1] /\ pktHistory' = Track(sn)[2]
      /\ arrived' = Seen(sn, lastSeq')
      /\ result'.sn = sn /\ result'.payload = p
  BY DEF Depacketize, Seen
<1>2. started \in BOOLEAN /\ lastSeq \in SeqNums /\ arrived \subseteq SeqNums
  BY DEF IInv, HistoryExact, TypeOK
<1>3. Fits(lastSeq', pktHistory', arrived')
  BY <1>1, <1>2, TrackMoves, MovesFit
<1>4. arrived' \in SUBSET SeqNums /\ lastSeq' \in SeqNums
  BY <1>1, <1>2, <1>3 DEF Seen, Fits
<1>5. \A k \in Bits : k \in pktHistory' <=> Minus(lastSeq', k + 1) \in arrived'
  BY <1>3, <1>4, Exact DEF Fits
<1>6. TypeOK'
  BY <1>1, <1>3, <1>4 DEF TypeOK, Fits, Called
<1>7. HistoryExact'
  BY <1>5, <1>6 DEF HistoryExact
<1>8. \A s \in arrived' : Minus(lastSeq', s) < Half
  BY <1>1 DEF Seen
<1>9. Behind'
  BY <1>1, <1>3, <1>8 DEF Behind, Fits
<1> QED BY <1>7, <1>9 DEF IInv

LEMMA IInvHolds == Spec => []IInv
<1>1. Init => IInv
  <2> SUFFICES ASSUME Init PROVE IInv
    OBVIOUS
  <2>1. ~Called
    BY DEF Init, Called
  <2>2. 0 \in SeqNums
    BY ConstantsTyped DEF SeqNums
  <2>3. TypeOK
    BY <2>1, <2>2 DEF Init, TypeOK
  <2>4. HistoryExact /\ Behind
    BY <2>3 DEF Init, HistoryExact, Behind
  <2> QED BY <2>4 DEF IInv
<1>2. IInv /\ [Next]_vars => IInv'
  <2> SUFFICES ASSUME IInv, [Next]_vars PROVE IInv'
    OBVIOUS
  <2>1. ASSUME NEW sn \in SeqNums, NEW p \in Payloads, Depacketize(sn, p) PROVE IInv'
    BY <2>1, DepacketizeKeeps
  <2>2. CASE UNCHANGED vars
    BY <2>2 DEF vars, IInv, HistoryExact, TypeOK, Behind, Called
  <2> QED BY <2>1, <2>2 DEF Next
<1> QED BY <1>1, <1>2, PTL DEF Spec

\* Bit k of the history is set exactly if lastSeq - 1 - k has been received, for
\* every width, every number range and every order of arrival (lines 37, 48-71).
THEOREM HistoryIsExact == Spec => []HistoryExact
<1>1. IInv => HistoryExact
  BY DEF IInv
<1> QED BY <1>1, IInvHolds, PTL

-----------------------------------------------------------------------------
(* Where the blocks lie.                                                   *)

\* The running totals are what their recursive definition says.
LEMMA RunningTotals ==
  ASSUME NEW first \in Nat, NEW lengths \in Seq(Nat)
  PROVE  /\ Running(first, lengths) \in [0 .. Len(lengths) -> Nat]
         /\ Running(first, lengths)[0] = first
         /\ \A i \in 1 .. Len(lengths) :
              Running(first, lengths)[i] = Running(first, lengths)[i - 1] + lengths[i]
<1> DEFINE n == Len(lengths)
           G == [i \in 1 .. n |-> [x \in Nat |-> x + lengths[i]]]
           Body(f) == [i \in 0 .. n |-> IF i = 0 THEN first ELSE f[i - 1] + lengths[i]]
           q == CHOOSE f : f = Body(f)
<1>0. n \in Nat /\ \A i \in 1 .. n : lengths[i] \in Nat
  OBVIOUS
<1>1. G \in [1 .. n -> [Nat -> Nat]]
  BY <1>0
<1>2. PICK f : CountsUp(f, n, Nat, first, G)
  <2> HIDE DEF n, G
  <2> QED BY <1>0, <1>1, UpwardRecursion
<1>3. ASSUME NEW i \in 1 .. n
      PROVE  f[i] = f[i - 1] + lengths[i]
  <2>1. f[i - 1] \in Nat /\ f[i] = G[i][f[i - 1]]
    <3> HIDE DEF n, G
    <3> QED BY <1>0, <1>2 DEF CountsUp
  <2> QED BY <2>1
<1>4. f = Body(f)
  BY <1>0, <1>2, <1>3 DEF CountsUp
<1>5. Running(first, lengths) = q
  BY DEF Running
<1> HIDE DEF Body
<1>6. q = Body(q)
  BY <1>4
<1> HIDE DEF q
<1>7. /\ q[0] = first
      /\ \A i \in 1 .. n : q[i] = q[i - 1] + lengths[i]
      /\ q = [i \in 0 .. n |-> q[i]]
  <2> HIDE DEF n
  <2> QED BY <1>0, <1>6 DEF Body
<1> DEFINE P == { i \in 0 .. n : q[i] \in Nat }
<1>8. \A i \in 0 .. n : i \in P
  <2>1. 0 \in P
    BY <1>0, <1>7
  <2>2. ASSUME NEW i \in 0 .. n - 1, i \in P PROVE i + 1 \in P
    <3>1. i + 1 \in 1 .. n /\ (i + 1) - 1 = i /\ i + 1 \in 0 .. n
      BY <1>0
    <3>2. q[i + 1] = q[i] + lengths[i + 1]
      BY <1>7, <3>1
    <3> QED BY <1>0, <2>2, <3>1, <3>2
  <2>3. P \in SUBSET (0 .. n)
    OBVIOUS
  <2> HIDE DEF P, n
  <2> QED BY <1>0, <2>1, <2>2, <2>3, UpwardInduction
<1>9. q \in [0 .. n -> Nat]
  BY <1>7, <1>8
<1> QED BY <1>5, <1>7, <1>9

\* A later total is no smaller, and the totals of two first values stay as far apart.
LEMMA RunningOrder ==
  ASSUME NEW first \in Nat, NEW lengths \in Seq(Nat),
         NEW i \in 0 .. Len(lengths), NEW j \in i .. Len(lengths)
  PROVE  Running(first, lengths)[i] <= Running(first, lengths)[j]
<1> DEFINE n == Len(lengths)
           r == Running(first, lengths)
           P == { k \in 0 .. n : k < i \/ r[i] <= r[k] }
<1>0. n \in Nat /\ i \in 0 .. n /\ j \in 0 .. n /\ i <= j
  OBVIOUS
<1>1. r \in [0 .. n -> Nat] /\ \A k \in 1 .. n : r[k] = r[k - 1] + lengths[k] /\ lengths[k] \in Nat
  BY RunningTotals
<1> HIDE DEF r, n
<1>2. 0 \in P
  BY <1>0, <1>1
<1>3. ASSUME NEW k \in 0 .. n - 1, k \in P PROVE k + 1 \in P
  <2>1. k + 1 \in 1 .. n /\ (k + 1) - 1 = k /\ k \in 0 .. n /\ k + 1 \in 0 .. n
    BY <1>0
  <2>2. r[k + 1] = r[k] + lengths[k + 1] /\ r[k] \in Nat /\ lengths[k + 1] \in Nat
        /\ r[i] \in Nat /\ r[k + 1] \in Nat
    BY <1>0, <1>1, <2>1
  <2>3. k + 1 < i \/ k + 1 = i \/ ~(k < i)
    BY <1>0, <2>1
  <2> QED BY <1>3, <2>1, <2>2, <2>3
<1>4. P \in SUBSET (0 .. n)
  OBVIOUS
<1>5. j \in P
  <2> HIDE DEF P
  <2> QED BY <1>0, <1>2, <1>3, <1>4, UpwardInduction
<1> QED BY <1>0, <1>5 DEF r

LEMMA RunningApart ==
  ASSUME NEW first \in Nat, NEW lengths \in Seq(Nat)
  PROVE  Running(first, lengths)[Len(lengths)] = first + Running(0, lengths)[Len(lengths)]
<1> DEFINE n == Len(lengths)
           r == Running(first, lengths)
           z == Running(0, lengths)
           P == { k \in 0 .. n : r[k] = first + z[k] }
<1>0. n \in Nat
  OBVIOUS
<1>1. /\ r \in [0 .. n -> Nat] /\ r[0] = first
      /\ \A k \in 1 .. n : r[k] = r[k - 1] + lengths[k] /\ lengths[k] \in Nat
      /\ z \in [0 .. n -> Nat] /\ z[0] = 0
      /\ \A k \in 1 .. n : z[k] = z[k - 1] + lengths[k]
  BY RunningTotals
<1> HIDE DEF r, n, z
<1>2. 0 \in P
  BY <1>0, <1>1
<1>3. ASSUME NEW k \in 0 .. n - 1, k \in P PROVE k + 1 \in P
  <2>1. k + 1 \in 1 .. n /\ (k + 1) - 1 = k /\ k \in 0 .. n /\ k + 1 \in 0 .. n
    BY <1>0
  <2>2. r[k + 1] = r[k] + lengths[k + 1] /\ r[k] \in Nat /\ lengths[k + 1] \in Nat
        /\ z[k + 1] = z[k] + lengths[k + 1] /\ z[k] \in Nat
    BY <1>0, <1>1, <2>1
  <2> QED BY <1>3, <2>1, <2>2
<1>4. P \in SUBSET (0 .. n)
  OBVIOUS
<1>5. n \in P
  <2>1. n \in 0 .. n
    BY <1>0
  <2> HIDE DEF P
  <2> QED BY <1>0, <1>2, <1>3, <1>4, <2>1, UpwardInduction
<1> QED BY <1>5 DEF r, z, n

-----------------------------------------------------------------------------
(* The packets cut out.                                                    *)

BlockOf(sn, p, i) ==
  [sn |-> Minus(sn, Distance(p, i)), from |-> Offset(p, i), length |-> p.lengths[i]]

Blocks(sn, p) == { BlockOf(sn, p, i) : i \in 1 .. Len(p.lengths) }

Chosen(p, bits) == { i \in 1 .. Len(p.lengths) : Distance(p, i) - 1 \in bits }

\* b is older than c, and ends before it.
Before(sn, b, c) ==
  b.from + b.length <= c.from /\ Minus(sn, b.sn) > Minus(sn, c.sn)

\* The loop over the blocks: what is cut out of the first i.
Cuts(q, sn, p, bits) ==
  LET n == Len(p.lengths) IN
  /\ q[0] = <<>>
  /\ \A i \in 0 .. n : q[i] \in Seq(Blocks(sn, p))
  /\ \A i \in 1 .. n : q[i] = IF i \in Chosen(p, bits) THEN Append(q[i - 1], BlockOf(sn, p, i))
                              ELSE q[i - 1]

LEMMA ExtractIsALoop ==
  ASSUME NEW p \in Payloads, NEW sn, NEW bits, ErrorOf(p) = "none"
  PROVE  \E q : /\ Cuts(q, sn, p, bits)
                /\ ExtractPackets(sn, p, bits) = Append(q[Len(p.lengths)], Primary(sn, p))
<1> DEFINE n == Len(p.lengths)
           V == Seq(Blocks(sn, p))
           G == [i \in 1 .. n |-> [s \in V |-> IF i \in Chosen(p, bits)
                                               THEN Append(s, BlockOf(sn, p, i)) ELSE s]]
           block(i) == [sn |-> Minus(sn, Distance(p, i)), from |-> Offset(p, i),
                        length |-> p.lengths[i]]
           Body(f) == [i \in 0 .. n |->
                         IF i = 0 THEN <<>>
                         ELSE IF Distance(p, i) - 1 \in bits THEN Append(f[i - 1], block(i))
                         ELSE f[i - 1]]
           q == CHOOSE f : f = Body(f)
<1>0. n \in Nat
  BY PayloadsAssumption
<1>1. ExtractPackets(sn, p, bits) = Append(q[n], Primary(sn, p))
  BY Zenon DEF ExtractPackets
<1>2. \A i : BlockOf(sn, p, i) = block(i)
  BY DEF BlockOf
<1>3. \A i \in 1 .. n : i \in Chosen(p, bits) <=> Distance(p, i) - 1 \in bits
  BY DEF Chosen
<1>4. \A i \in 1 .. n : BlockOf(sn, p, i) \in Blocks(sn, p)
  BY DEF Blocks
<1> HIDE DEF block, n
<1>5. <<>> \in V /\ \A i \in 1 .. n, s \in V : Append(s, BlockOf(sn, p, i)) \in V
  BY <1>4
<1>6. G \in [1 .. n -> [V -> V]]
  <2> HIDE DEF V
  <2> QED BY <1>5
<1>7. PICK f : CountsUp(f, n, V, <<>>, G)
  <2> HIDE DEF G, V
  <2> QED BY <1>0, <1>5, <1>6, UpwardRecursion
<1>8. ASSUME NEW i \in 1 .. n
      PROVE  f[i] = IF i \in Chosen(p, bits) THEN Append(f[i - 1], BlockOf(sn, p, i))
                    ELSE f[i - 1]
  <2>1. f[i - 1] \in V /\ f[i] = G[i][f[i - 1]]
    <3> HIDE DEF V, G
    <3> QED BY <1>0, <1>7 DEF CountsUp
  <2> HIDE DEF V
  <2> QED BY <2>1
<1>9. f = Body(f)
  <2>1. f = [i \in 0 .. n |-> f[i]] /\ f[0] = <<>>
    <3> HIDE DEF V, G
    <3> QED BY <1>7 DEF CountsUp
  <2>2. \A i \in 1 .. n : f[i] = IF Distance(p, i) - 1 \in bits THEN Append(f[i - 1], block(i))
                                 ELSE f[i - 1]
    BY <1>2, <1>3, <1>8
  <2>3. \A i \in 0 .. n : i # 0 => i \in 1 .. n
    BY <1>0
  <2>4. \A i \in 0 .. n : f[i] = IF i = 0 THEN <<>>
                                 ELSE IF Distance(p, i) - 1 \in bits THEN Append(f[i - 1], block(i))
                                 ELSE f[i - 1]
    BY <2>1, <2>2, <2>3
  <2> HIDE DEF G, V
  <2> QED BY ONLY <2>1, <2>4
<1> HIDE DEF Body
<1>10. q = Body(q)
  BY <1>9
<1> HIDE DEF q
<1>11. q[0] = <<>>
  BY <1>0, <1>10 DEF Body
<1>12. ASSUME NEW i \in 1 .. n
       PROVE  q[i] = IF i \in Chosen(p, bits) THEN Append(q[i - 1], BlockOf(sn, p, i))
                     ELSE q[i - 1]
  <2>1. i \in 0 .. n /\ i # 0
    BY <1>0
  <2>2. q[i] = IF Distance(p, i) - 1 \in bits THEN Append(q[i - 1], block(i)) ELSE q[i - 1]
    BY <1>10, <2>1 DEF Body
  <2> QED BY <1>2, <1>3, <2>2
<1> DEFINE P == { i \in 0 .. n : q[i] \in V }
<1>13. \A i \in 0 .. n : i \in P
  <2>1. 0 \in P
    <3>1. q[0] \in V
      BY <1>5, <1>11
    <3> HIDE DEF V
    <3> QED BY <1>0, <3>1
  <2>2. ASSUME NEW i \in 0 .. n - 1, i \in P PROVE i + 1 \in P
    <3>1. i + 1 \in 1 .. n /\ (i + 1) - 1 = i /\ i + 1 \in 0 .. n
      BY <1>0
    <3>2. q[i + 1] = IF i + 1 \in Chosen(p, bits) THEN Append(q[i], BlockOf(sn, p, i + 1))
                     ELSE q[i]
      BY <1>12, <3>1
    <3> HIDE DEF V
    <3> QED BY <1>5, <2>2, <3>1, <3>2
  <2>3. P \in SUBSET (0 .. n)
    OBVIOUS
  <2> HIDE DEF P
  <2> QED BY <1>0, <2>1, <2>2, <2>3, UpwardInduction
<1>14. Cuts(q, sn, p, bits)
  <2>1. \A i \in 0 .. n : q[i] \in V
    BY <1>13
  <2> QED BY <1>11, <1>12, <2>1 DEF Cuts, n
<1> QED BY <1>1, <1>14 DEF n

\* What the cut of the first i blocks is: the chosen ones, in order and apart.
CutOf(s, sn, p, bits, i) ==
  /\ s \in Seq(Blocks(sn, p))
  /\ \A j \in 1 .. Len(s) : \E k \in 1 .. i : k \in Chosen(p, bits) /\ s[j] = BlockOf(sn, p, k)
  /\ \A k \in 1 .. i : k \in Chosen(p, bits) => \E j \in 1 .. Len(s) : s[j] = BlockOf(sn, p, k)
  /\ \A j, l \in 1 .. Len(s) : j < l => Before(sn, s[j], s[l])

\* Where a block lies: behind the headers, between the block before it and the next,
\* and no further back than the recovery looks.
LEMMA BlockPlace ==
  ASSUME NEW p \in Payloads, NEW sn \in SeqNums, NEW bits \in SUBSET (0 .. MaxRecover - 1),
         NEW k \in Chosen(p, bits)
  PROVE  /\ k \in 1 .. Len(p.lengths)
         /\ BlockOf(sn, p, k).sn \in SeqNums
         /\ Minus(sn, BlockOf(sn, p, k).sn) = Distance(p, k)
         /\ Distance(p, k) = Len(p.lengths) - k + 1 /\ Distance(p, k) \in 1 .. MaxRecover
         /\ BlockOf(sn, p, k).from \in Nat /\ BlockOf(sn, p, k).length \in Nat
         /\ BlockOf(sn, p, k).from + BlockOf(sn, p, k).length = BlockEnd(p)[k]
<1> DEFINE n == Len(p.lengths)
           d == Distance(p, k)
<1>1. n \in Nat /\ p.lengths \in Seq(Nat) /\ HeaderBytes(p) \in Nat
  BY PayloadsAssumption DEF HeaderBytes
<1>2. k \in 1 .. n /\ d = n - k + 1 /\ d - 1 \in bits
  BY DEF Chosen, Distance
<1>3. d \in 1 .. MaxRecover /\ d \in SeqNums /\ MaxRecover \in Nat
  <2>1. MaxRecover \in Nat /\ MaxRecover < SeqRange /\ SeqRange \in Nat
    BY RedAssumption, ConstantsTyped DEF Half
  <2>2. n - k + 1 \in Int /\ (n - k + 1) - 1 \in 0 .. MaxRecover - 1
    BY <1>1, <1>2
  <2> QED BY <1>2, <2>1, <2>2 DEF SeqNums
<1>4. Minus(sn, d) \in SeqNums /\ Minus(sn, Minus(sn, d)) = d
  <2>1. Minus(sn, d) = IF sn >= d THEN sn - d ELSE sn - d + SeqRange
    BY <1>3, MinusIs
  <2>2. Minus(sn, d) \in SeqNums
    BY <1>3, <2>1, ConstantsTyped DEF SeqNums
  <2>3. Minus(sn, Minus(sn, d)) =
          IF sn >= Minus(sn, d) THEN sn - Minus(sn, d) ELSE sn - Minus(sn, d) + SeqRange
    BY <2>2, MinusIs
  <2> QED BY <1>3, <2>1, <2>2, <2>3, ConstantsTyped DEF SeqNums
<1>5. /\ BlockOf(sn, p, k).sn = Minus(sn, d)
      /\ BlockOf(sn, p, k).from = BlockEnd(p)[k - 1]
      /\ BlockOf(sn, p, k).length = p.lengths[k]
  BY DEF BlockOf, Offset
<1>6. /\ BlockEnd(p) \in [0 .. n -> Nat]
      /\ BlockEnd(p)[k] = BlockEnd(p)[k - 1] + p.lengths[k]
  BY <1>1, <1>2, RunningTotals DEF BlockEnd
<1>7. k - 1 \in 0 .. n /\ p.lengths[k] \in Nat
  BY <1>1, <1>2
<1> HIDE DEF n
<1> QED BY <1>2, <1>3, <1>4, <1>5, <1>6, <1>7 DEF n

\* An earlier chosen block comes before a later one.
LEMMA BlocksBefore ==
  ASSUME NEW p \in Payloads, NEW sn \in SeqNums, NEW bits \in SUBSET (0 .. MaxRecover - 1),
         NEW k \in Chosen(p, bits), NEW l \in Chosen(p, bits), k < l
  PROVE  Before(sn, BlockOf(sn, p, k), BlockOf(sn, p, l))
<1> DEFINE n == Len(p.lengths)
           b == BlockOf(sn, p, k)
           c == BlockOf(sn, p, l)
<1>1. n \in Nat /\ p.lengths \in Seq(Nat) /\ HeaderBytes(p) \in Nat
  BY PayloadsAssumption DEF HeaderBytes
<1>2. /\ k \in 1 .. n /\ l \in 1 .. n
      /\ Minus(sn, b.sn) = n - k + 1 /\ Minus(sn, c.sn) = n - l + 1
      /\ b.from + b.length = BlockEnd(p)[k]
  BY BlockPlace
<1>3. c.from = BlockEnd(p)[l - 1]
  BY DEF BlockOf, Offset
<1>4. BlockEnd(p)[k] <= BlockEnd(p)[l - 1]
  <2>1. k \in 0 .. n /\ l - 1 \in k .. n
    BY <1>1, <1>2
  <2> QED BY <1>1, <2>1, RunningOrder DEF BlockEnd
<1>5. n - k + 1 > n - l + 1
  BY <1>1, <1>2
<1> HIDE DEF b, c, n
<1>6. Before(sn, b, c)
  BY <1>2, <1>3, <1>4, <1>5 DEF Before
<1> QED BY <1>6 DEF b, c

LEMMA CutHolds ==
  ASSUME NEW p \in Payloads, NEW sn \in SeqNums, NEW bits \in SUBSET (0 .. MaxRecover - 1),
         NEW q, Cuts(q, sn, p, bits)
  PROVE  CutOf(q[Len(p.lengths)], sn, p, bits, Len(p.lengths))
<1> DEFINE n == Len(p.lengths)
           P == { i \in 0 .. n : CutOf(q[i], sn, p, bits, i) }
<1>0. n \in Nat
  BY PayloadsAssumption
<1>1. /\ q[0] = <<>>
      /\ \A i \in 0 .. n : q[i] \in Seq(Blocks(sn, p))
      /\ \A i \in 1 .. n : q[i] = IF i \in Chosen(p, bits)
                                  THEN Append(q[i - 1], BlockOf(sn, p, i)) ELSE q[i - 1]
  BY DEF Cuts
<1> HIDE DEF n
<1>2. 0 \in P
  BY <1>0, <1>1 DEF CutOf
<1>3. ASSUME NEW i \in 0 .. n - 1, i \in P PROVE i + 1 \in P
  <2> DEFINE s == q[i]
             t == q[i + 1]
             b == BlockOf(sn, p, i + 1)
  <2>1. i + 1 \in 1 .. n /\ (i + 1) - 1 = i /\ i + 1 \in 0 .. n /\ i \in 0 .. n /\ i \in Nat
    BY <1>0
  <2>2. t = IF i + 1 \in Chosen(p, bits) THEN Append(s, b) ELSE s
    BY <1>1, <2>1
  <2>3. /\ s \in Seq(Blocks(sn, p)) /\ Len(s) \in Nat
        /\ \A j \in 1 .. Len(s) : \E k \in 1 .. i : k \in Chosen(p, bits) /\ s[j] = BlockOf(sn, p, k)
        /\ \A k \in 1 .. i : k \in Chosen(p, bits) =>
             \E j \in 1 .. Len(s) : s[j] = BlockOf(sn, p, k)
        /\ \A j, l \in 1 .. Len(s) : j < l => Before(sn, s[j], s[l])
    BY <1>3 DEF CutOf
  <2>4. t \in Seq(Blocks(sn, p))
    BY <1>1, <2>1
  <2>5. 1 .. i \subseteq 1 .. i + 1 /\ \A k \in 1 .. i + 1 : k \in 1 .. i \/ k = i + 1
    BY <2>1
  <2> HIDE DEF s, t, b
  <2>6. CASE i + 1 \notin Chosen(p, bits)
    <3>1. t = s
      BY <2>2, <2>6
    <3>2. CutOf(t, sn, p, bits, i + 1)
      BY <2>3, <2>5, <2>6, <3>1 DEF CutOf
    <3> QED BY <2>1, <3>2 DEF t
  <2>7. CASE i + 1 \in Chosen(p, bits)
    <3>1. /\ t = Append(s, b) /\ Len(t) = Len(s) + 1 /\ t[Len(t)] = b
          /\ \A j \in 1 .. Len(s) : t[j] = s[j]
      BY <2>2, <2>3, <2>7
    <3>2. \A j \in 1 .. Len(t) : j \in 1 .. Len(s) \/ j = Len(t)
      BY <2>3, <3>1
    <3>3. 1 .. Len(s) \subseteq 1 .. Len(t) /\ Len(t) \in 1 .. Len(t)
      BY <2>3, <3>1
    <3>4. ASSUME NEW j \in 1 .. Len(t)
          PROVE  \E k \in 1 .. i + 1 : k \in Chosen(p, bits) /\ t[j] = BlockOf(sn, p, k)
      <4>1. CASE j \in 1 .. Len(s)
        BY <4>1, <2>3, <2>5, <3>1
      <4>2. CASE j = Len(t)
        BY <4>2, <2>1, <2>7, <3>1 DEF b
      <4> QED BY <3>2, <4>1, <4>2
    <3>5. ASSUME NEW k \in 1 .. i + 1, k \in Chosen(p, bits)
          PROVE  \E j \in 1 .. Len(t) : t[j] = BlockOf(sn, p, k)
      <4>1. CASE k \in 1 .. i
        BY <4>1, <2>3, <3>1, <3>3, <3>5
      <4>2. CASE k = i + 1
        BY <4>2, <3>1, <3>3 DEF b
      <4> QED BY <2>5, <4>1, <4>2
    <3>6. ASSUME NEW j \in 1 .. Len(t), NEW l \in 1 .. Len(t), j < l
          PROVE  Before(sn, t[j], t[l])
      <4>1. j \in 1 .. Len(s)
        BY <2>3, <3>1, <3>6
      <4>2. CASE l \in 1 .. Len(s)
        BY <4>1, <4>2, <2>3, <3>1, <3>6
      <4>3. CASE l = Len(t)
        <5>1. PICK k \in 1 .. i : k \in Chosen(p, bits) /\ s[j] = BlockOf(sn, p, k)
          BY <4>1, <2>3
        <5>2. k < i + 1
          BY <2>1
        <5>3. Before(sn, BlockOf(sn, p, k), BlockOf(sn, p, i + 1))
          BY <2>7, <5>1, <5>2, BlocksBefore
        <5> QED BY <3>1, <4>1, <4>3, <5>1, <5>3 DEF b
      <4> QED BY <3>2, <4>2, <4>3
    <3>7. CutOf(t, sn, p, bits, i + 1)
      BY <2>4, <3>4, <3>5, <3>6 DEF CutOf
    <3> QED BY <2>1, <3>7 DEF t
  <2> QED BY <2>6, <2>7
<1>4. P \in SUBSET (0 .. n)
  OBVIOUS
<1>5. n \in P
  <2>1. n \in 0 .. n
    BY <1>0
  <2> HIDE DEF P
  <2> QED BY <1>0, <1>2, <1>3, <1>4, <2>1, UpwardInduction
<1> QED BY <1>5 DEF n

\* The primary block is the rest of the payload.
LEMMA PrimaryPlace ==
  ASSUME NEW p \in Payloads, NEW sn \in SeqNums, ErrorOf(p) = "none"
  PROVE  /\ Primary(sn, p).sn = sn
         /\ Primary(sn, p).from = BlockEnd(p)[Len(p.lengths)]
         /\ Primary(sn, p).from \in Nat /\ Primary(sn, p).length \in Nat
         /\ Primary(sn, p).from + Primary(sn, p).length = p.size
         /\ ExtractPrimaryEncoding(p) = <<Primary(sn, p).from, Primary(sn, p).length>>
<1> DEFINE n == Len(p.lengths)
           from == BlockEnd(p)[n]
<1>1. n \in Nat /\ p.lengths \in Seq(Nat) /\ HeaderBytes(p) \in Nat /\ p.size \in Nat
  BY PayloadsAssumption DEF HeaderBytes
<1>2. from \in Nat
  BY <1>1, RunningTotals DEF BlockEnd
<1>3. Offset(p, n + 1) = from
  BY <1>1 DEF Offset
<1>4. from <= p.size
  <2>1. p.size >= HeaderBytes(p) /\ ~(p.size < Offset(p, n + 1))
    <3>1. ~(p.size < HeaderBytes(p))
      BY Zenon DEF ErrorOf
    <3>2. p.size >= HeaderBytes(p)
      BY <1>1, <3>1
    <3>3. ~(p.size >= HeaderBytes(p) /\ p.size < Offset(p, n + 1))
      BY <3>1, Zenon DEF ErrorOf
    <3> QED BY <3>2, <3>3
  <2> QED BY <1>1, <1>2, <1>3, <2>1
<1>5. HeaderBytes(p) + BlockLength(p) = from
  BY <1>1, RunningApart DEF BlockEnd, BlockLength
<1>6. Primary(sn, p) = [sn |-> sn, from |-> from, length |-> p.size - from]
  BY <1>3 DEF Primary
<1>7. ExtractPrimaryEncoding(p) = <<from, p.size - from>>
  BY <1>5 DEF ExtractPrimaryEncoding
<1>8. p.size - from \in Nat /\ from + (p.size - from) = p.size
  BY <1>1, <1>2, <1>4
<1> HIDE DEF from
<1>9. /\ Primary(sn, p).sn = sn /\ Primary(sn, p).from = from
      /\ Primary(sn, p).length = p.size - from
  BY <1>6
<1> QED BY <1>2, <1>7, <1>8, <1>9 DEF from

\* The packets of a call: the chosen blocks and the primary one, in order and apart.
LEMMA Extracted ==
  ASSUME NEW p \in Payloads, NEW sn \in SeqNums, NEW bits \in SUBSET (0 .. MaxRecover - 1),
         ErrorOf(p) = "none", NEW pkts, pkts = ExtractPackets(sn, p, bits)
  PROVE  /\ Len(pkts) \in Nat \ {0} /\ DOMAIN pkts = 1 .. Len(pkts)
         /\ pkts # <<>> /\ pkts[Len(pkts)] = Primary(sn, p)
         /\ \A j \in 1 .. Len(pkts) - 1 :
              \E k \in Chosen(p, bits) : pkts[j] = BlockOf(sn, p, k)
         /\ \A k \in Chosen(p, bits) :
              \E j \in 1 .. Len(pkts) - 1 : pkts[j] = BlockOf(sn, p, k)
         /\ \A j, l \in 1 .. Len(pkts) : j < l => Before(sn, pkts[j], pkts[l])
<1> DEFINE n == Len(p.lengths)
<1>1. PICK q : Cuts(q, sn, p, bits) /\ pkts = Append(q[n], Primary(sn, p))
  BY ExtractIsALoop
<1> DEFINE s == q[n]
           c == Primary(sn, p)
<1>2. CutOf(s, sn, p, bits, n)
  BY <1>1, CutHolds
<1>3. \A k \in Chosen(p, bits) : k \in 1 .. n
  BY DEF Chosen
<1>4. n \in Nat /\ pkts = Append(s, c)
  BY <1>1, PayloadsAssumption
<1> HIDE DEF n, s, c
<1>5. /\ s \in Seq(Blocks(sn, p)) /\ Len(s) \in Nat /\ pkts = Append(s, c)
      /\ \A j \in 1 .. Len(s) : \E k \in Chosen(p, bits) : s[j] = BlockOf(sn, p, k)
      /\ \A k \in Chosen(p, bits) : \E j \in 1 .. Len(s) : s[j] = BlockOf(sn, p, k)
      /\ \A j, l \in 1 .. Len(s) : j < l => Before(sn, s[j], s[l])
  <2>1. /\ s \in Seq(Blocks(sn, p))
        /\ \A j \in 1 .. Len(s) : \E k \in 1 .. n : k \in Chosen(p, bits) /\ s[j] = BlockOf(sn, p, k)
        /\ \A k \in 1 .. n : k \in Chosen(p, bits) =>
             \E j \in 1 .. Len(s) : s[j] = BlockOf(sn, p, k)
        /\ \A j, l \in 1 .. Len(s) : j < l => Before(sn, s[j], s[l])
    BY ONLY <1>2 DEF CutOf
  <2>2. Len(s) \in Nat
    BY ONLY <2>1
  <2>3. \A j \in 1 .. Len(s) : \E k \in Chosen(p, bits) : s[j] = BlockOf(sn, p, k)
    BY ONLY <2>1
  <2>4. \A k \in Chosen(p, bits) : \E j \in 1 .. Len(s) : s[j] = BlockOf(sn, p, k)
    BY ONLY <2>1, <1>3
  <2> QED BY ONLY <1>4, <2>1, <2>2, <2>3, <2>4
<1>6. /\ Len(pkts) = Len(s) + 1 /\ pkts[Len(pkts)] = c /\ DOMAIN pkts = 1 .. Len(pkts)
      /\ \A j \in 1 .. Len(s) : pkts[j] = s[j]
  BY <1>5
<1>7. Len(pkts) - 1 = Len(s) /\ Len(pkts) \in Nat \ {0}
      /\ \A j \in 1 .. Len(pkts) : j \in 1 .. Len(s) \/ j = Len(pkts)
  BY <1>5, <1>6
<1>8. pkts # <<>>
  BY <1>7
<1>9. ASSUME NEW k \in Chosen(p, bits) PROVE Before(sn, BlockOf(sn, p, k), c)
  <2> DEFINE b == BlockOf(sn, p, k)
  <2>1. /\ k \in 1 .. n /\ Minus(sn, b.sn) \in 1 .. MaxRecover
        /\ b.from + b.length = BlockEnd(p)[k]
    BY BlockPlace DEF n
  <2>2. c.sn = sn /\ c.from = BlockEnd(p)[n]
    BY PrimaryPlace DEF c, n
  <2>3. BlockEnd(p)[k] <= BlockEnd(p)[n]
    <3>1. p.lengths \in Seq(Nat) /\ HeaderBytes(p) \in Nat
      BY PayloadsAssumption DEF HeaderBytes
    <3>2. k \in 0 .. n /\ n \in k .. n
      BY <1>4, <2>1
    <3> QED BY <3>1, <3>2, RunningOrder DEF BlockEnd, n
  <2>4. Minus(sn, sn) = 0
    BY MinusTyped
  <2>5. Minus(sn, b.sn) > 0
    BY <2>1, RedAssumption
  <2> HIDE DEF b
  <2>6. Before(sn, b, c)
    BY <2>1, <2>2, <2>3, <2>4, <2>5 DEF Before
  <2> QED BY <2>6 DEF b
<1>10. ASSUME NEW j \in 1 .. Len(pkts), NEW l \in 1 .. Len(pkts), j < l
       PROVE  Before(sn, pkts[j], pkts[l])
  <2>1. j \in 1 .. Len(s)
    BY <1>5, <1>7, <1>10
  <2>2. CASE l \in 1 .. Len(s)
    BY <1>5, <1>6, <1>10, <2>1, <2>2
  <2>3. CASE l = Len(pkts)
    <3>1. PICK k \in Chosen(p, bits) : s[j] = BlockOf(sn, p, k)
      BY <1>5, <2>1
    <3> QED BY <1>6, <1>9, <2>1, <2>3, <3>1
  <2> QED BY <1>7, <2>2, <2>3
<1>11. /\ \A j \in 1 .. Len(pkts) - 1 : \E k \in Chosen(p, bits) : pkts[j] = BlockOf(sn, p, k)
       /\ \A k \in Chosen(p, bits) : \E j \in 1 .. Len(pkts) - 1 : pkts[j] = BlockOf(sn, p, k)
  BY <1>5, <1>6, <1>7
<1> QED BY <1>6, <1>7, <1>8, <1>10, <1>11 DEF c

-----------------------------------------------------------------------------
(* What a call returns.                                                    *)

\* A call looks for copies unless its number tells nothing new, or comes so late
\* that the history does not reach it.
LEMMA TrackTells ==
  ASSUME IInv, NEW sn \in SeqNums
  PROVE  Track(sn)[3] <=>
           ~(~started \/ sn = lastSeq) /\ ~(Minus(Track(sn)[1], sn) > Width)
<1> DEFINE diff == Minus(sn, lastSeq)
<1>1. started \in BOOLEAN /\ lastSeq \in SeqNums
  BY DEF IInv, HistoryExact, TypeOK
<1>2. /\ diff \in SeqNums /\ (diff = 0 <=> sn = lastSeq)
      /\ diff # 0 => Minus(lastSeq, sn) = SeqRange - diff
      /\ Minus(sn, sn) = 0
  BY <1>1, MinusTyped
<1> HIDE DEF diff
<1>3. \/ ~started
      \/ started /\ diff = 0
      \/ started /\ diff > Half
      \/ started /\ diff \in Width + 1 .. Half
      \/ started /\ diff \in 1 .. Width
  BY <1>1, <1>2, ConstantsTyped DEF SeqNums
<1>4. ~(0 > Width)
  BY ConstantsTyped
<1>5. CASE ~started
  BY <1>5 DEF Track
<1>6. CASE started /\ diff = 0
  BY <1>2, <1>6, ConstantsTyped DEF Track, diff
<1>7. CASE started /\ diff > Half
  <2>1. diff # 0 /\ ~(diff \in Width + 1 .. Half) /\ ~(diff \in 1 .. Width)
        /\ Minus(lastSeq, sn) = LateBit(diff) + 1 /\ LateBit(diff) \in Int
    BY <1>2, <1>7, ConstantsTyped DEF SeqNums, LateBit
  <2>2. Minus(lastSeq, sn) > Width <=> ~(LateBit(diff) < Width)
    BY <2>1, ConstantsTyped
  <2>3. Track(sn) = IF LateBit(diff) < Width
                    THEN <<lastSeq, pktHistory \cup {LateBit(diff)}, TRUE>>
                    ELSE <<lastSeq, pktHistory, FALSE>>
    BY <1>7, <2>1 DEF Track, diff
  <2>4. Track(sn)[1] = lastSeq /\ (Track(sn)[3] <=> LateBit(diff) < Width)
    BY <2>3
  <2> QED BY <1>2, <1>7, <2>1, <2>2, <2>4
<1>8. CASE started /\ diff \in Width + 1 .. Half
  <2>1. diff # 0 /\ ~(diff > Half) /\ ~(diff \in 1 .. Width)
    BY <1>8, ConstantsTyped
  <2>2. Track(sn) = <<sn, {}, TRUE>>
    BY <1>8, <2>1 DEF Track, diff
  <2> QED BY <1>2, <1>4, <1>8, <2>1, <2>2
<1>9. CASE started /\ diff \in 1 .. Width
  <2>1. diff # 0 /\ ~(diff > Half) /\ ~(diff \in Width + 1 .. Half)
    BY <1>9, ConstantsTyped
  <2>2. Track(sn) = <<sn, Shifted(pktHistory, diff), TRUE>>
    BY <1>9, <2>1 DEF Track, diff
  <2> QED BY <1>2, <1>4, <1>9, <2>1, <2>2
<1> QED BY <1>3, <1>5, <1>6, <1>7, <1>8, <1>9

\* A bit is asked for exactly if its packet, d before this one, is within the
\* history's reach and was never received.
LEMMA BitsAreLost ==
  ASSUME NEW last \in SeqNums, NEW h, NEW seen, NEW sn \in SeqNums, ~(Minus(last, sn) > Width),
         \A k \in Bits : k \in h <=> Minus(last, k + 1) \in seen,
         NEW d \in 1 .. MaxRecover
  PROVE  d - 1 \in RecoverBits(Minus(last, sn), h) <=>
           Minus(sn, d) \notin seen /\ Minus(last, Minus(sn, d)) \in 1 .. Width
<1> DEFINE behind == Minus(last, sn)
           s == Minus(sn, d)
           k == behind + d - 1
<1>1. /\ behind \in Nat /\ behind <= Width /\ MaxRecover \in Nat /\ Width + MaxRecover < Half
      /\ d \in Nat /\ d >= 1 /\ d <= MaxRecover /\ d \in SeqNums /\ Width \in Nat
      /\ Half \in Nat /\ Half < SeqRange /\ SeqRange \in Nat
  BY MinusTyped, RedAssumption, ConstantsTyped DEF SeqNums, Half
<1>2. s \in SeqNums /\ Minus(sn, s) = d
  <2>1. s = IF sn >= d THEN sn - d ELSE sn - d + SeqRange
    BY <1>1, MinusIs
  <2>2. s \in SeqNums
    BY <1>1, <2>1 DEF SeqNums
  <2>3. Minus(sn, s) = IF sn >= s THEN sn - s ELSE sn - s + SeqRange
    BY <2>2, MinusIs
  <2> HIDE DEF s
  <2> QED BY <1>1, <2>1, <2>2, <2>3 DEF SeqNums
<1> HIDE DEF behind, s
<1>3. Minus(last, s) = behind + d
  <2>1. Minus(last, s) = IF behind + d < SeqRange THEN behind + d ELSE behind + d - SeqRange
    BY <1>2, Further DEF behind
  <2> QED BY <1>1, <2>1
<1>4. behind + (d - 1) = k /\ k \in Nat /\ k + 1 = behind + d
  BY <1>1
<1>5. k \in Bits <=> Minus(last, s) \in 1 .. Width
  BY <1>1, <1>3, <1>4 DEF Bits
<1>6. ASSUME k \in Bits PROVE Minus(last, k + 1) = s
  <2>1. Minus(last, k + 1) \in SeqNums /\ Minus(last, Minus(last, k + 1)) = k + 1
    BY <1>6, BitNumber
  <2> QED BY <1>2, <1>3, <1>4, <2>1, SameDistance
<1>7. k \in Bits => (k \in h <=> s \in seen)
  BY <1>6
<1>8. d - 1 \in RecoverBits(behind, h) <=> k \in Bits /\ k \notin h
  <2>1. d - 1 \in 0 .. MaxRecover - 1
    BY <1>1
  <2> HIDE DEF k
  <2> QED BY <1>4, <2>1 DEF RecoverBits
<1> HIDE DEF k
<1> QED BY <1>5, <1>7, <1>8 DEF behind, s

\* The packets before the primary one have the numbers of the chosen blocks.
LEMMA RecoveredNumbers ==
  ASSUME NEW p \in Payloads, NEW sn \in SeqNums, NEW bits \in SUBSET (0 .. MaxRecover - 1),
         ErrorOf(p) = "none", NEW pkts, pkts = ExtractPackets(sn, p, bits)
  PROVE  /\ \A j \in 1 .. Len(pkts) - 1 :
              \E d \in 1 .. Len(p.lengths) : d - 1 \in bits /\ pkts[j].sn = Minus(sn, d)
         /\ \A d \in 1 .. Len(p.lengths) :
              d - 1 \in bits => \E j \in 1 .. Len(pkts) - 1 : pkts[j].sn = Minus(sn, d)
<1>1. /\ \A j \in 1 .. Len(pkts) - 1 : \E k \in Chosen(p, bits) : pkts[j] = BlockOf(sn, p, k)
      /\ \A k \in Chosen(p, bits) : \E j \in 1 .. Len(pkts) - 1 : pkts[j] = BlockOf(sn, p, k)
  <2>1. p \in Payloads /\ sn \in SeqNums /\ bits \in SUBSET (0 .. MaxRecover - 1)
        /\ ErrorOf(p) = "none" /\ pkts = ExtractPackets(sn, p, bits)
    OBVIOUS
  <2> QED BY ONLY <2>1, Extracted
<1> DEFINE n == Len(p.lengths)
           D == { e \in 1 .. n : e - 1 \in bits }
<1>0. n \in Nat
  BY PayloadsAssumption
<1>2. \A k \in Chosen(p, bits) : Distance(p, k) \in D
  BY <1>0 DEF Chosen, Distance
<1>3. \A d \in D : n - d + 1 \in Chosen(p, bits) /\ Distance(p, n - d + 1) = d
  BY <1>0 DEF Chosen, Distance
<1>4. \A k : BlockOf(sn, p, k).sn = Minus(sn, Distance(p, k))
  BY DEF BlockOf
<1> HIDE DEF n, D
<1>5. \A j \in 1 .. Len(pkts) - 1 : \E d \in D : pkts[j].sn = Minus(sn, d)
  <2> TAKE j \in 1 .. Len(pkts) - 1
  <2>1. PICK k \in Chosen(p, bits) : pkts[j] = BlockOf(sn, p, k)
    BY <1>1
  <2>2. pkts[j].sn = Minus(sn, Distance(p, k)) /\ Distance(p, k) \in D
    BY <1>2, <1>4, <2>1
  <2> QED BY <2>2
<1>6. \A d \in D : \E j \in 1 .. Len(pkts) - 1 : pkts[j].sn = Minus(sn, d)
  <2> TAKE d \in D
  <2>1. PICK j \in 1 .. Len(pkts) - 1 : pkts[j] = BlockOf(sn, p, n - d + 1)
    BY <1>1, <1>3
  <2>2. pkts[j].sn = Minus(sn, d)
    BY <1>3, <1>4, <2>1
  <2> QED BY <2>2
<1> QED BY <1>5, <1>6 DEF D, n

\* A call that succeeds recovers what RecoversTheLost says, from what it knows then.
LEMMA CallRecovers ==
  ASSUME IInv, IInv', NEW sn \in SeqNums, NEW p \in Payloads, Depacketize(sn, p),
         ErrorOf(p) = "none"
  PROVE  LET n == Len(p.lengths)
             lost == { s \in { Minus(sn, d) : d \in 1 .. (IF n < MaxRecover THEN n ELSE MaxRecover) } :
                         s \notin arrived' /\ Minus(lastSeq', s) \in 1 .. Width }
         IN  { result'.pkts[i].sn : i \in 1 .. Len(result'.pkts) - 1 } =
               IF ~started \/ sn = lastSeq \/ Minus(lastSeq', sn) > Width THEN {} ELSE lost
<1> DEFINE n == Len(p.lengths)
           m == IF n < MaxRecover THEN n ELSE MaxRecover
           lost == { s \in { Minus(sn, d) : d \in 1 .. m } :
                       s \notin arrived' /\ Minus(lastSeq', s) \in 1 .. Width }
           t == Track(sn)
           bits == IF t[3] THEN RecoverBits(Minus(t[1], sn), t[2]) ELSE {}
           D == { e \in 1 .. n : e - 1 \in bits }
           old == ~started \/ sn = lastSeq \/ Minus(lastSeq', sn) > Width
<1>1. lastSeq' = t[1] /\ pktHistory' = t[2] /\ result'.pkts = ExtractPackets(sn, p, bits)
  BY DEF Depacketize
<1>2. t[3] <=> ~old
  BY <1>1, TrackTells
<1>3. /\ lastSeq' \in SeqNums /\ n \in Nat /\ MaxRecover \in Nat
      /\ \A k \in Bits : k \in pktHistory' <=> Minus(lastSeq', k + 1) \in arrived'
  BY PayloadsAssumption, RedAssumption DEF IInv, HistoryExact, TypeOK
<1>4. bits = IF old THEN {} ELSE RecoverBits(Minus(lastSeq', sn), pktHistory')
  BY <1>1, <1>2
<1>5. bits \in SUBSET (0 .. MaxRecover - 1)
  BY <1>4 DEF RecoverBits
<1> HIDE DEF t, bits, n
<1>6. { result'.pkts[i].sn : i \in 1 .. Len(result'.pkts) - 1 } = { Minus(sn, d) : d \in D }
  <2> DEFINE pkts == ExtractPackets(sn, p, bits)
  <2>1. /\ \A j \in 1 .. Len(pkts) - 1 : \E d \in 1 .. n : d - 1 \in bits /\ pkts[j].sn = Minus(sn, d)
        /\ \A d \in 1 .. n : d - 1 \in bits => \E j \in 1 .. Len(pkts) - 1 : pkts[j].sn = Minus(sn, d)
    <3> HIDE DEF D, lost, old, m
    <3> QED BY <1>5, RecoveredNumbers DEF n
  <2>2. result'.pkts = pkts
    BY <1>1
  <2> HIDE DEF pkts
  <2>3. { pkts[i].sn : i \in 1 .. Len(pkts) - 1 } = { Minus(sn, d) : d \in D }
    BY <2>1
  <2> QED BY <2>2, <2>3
<1>7. CASE old
  <2>1. D = {}
    BY <1>4, <1>7
  <2> QED BY <1>6, <1>7, <2>1 DEF n
<1>8. CASE ~old
  <2>1. \A d \in 1 .. MaxRecover :
          d - 1 \in bits <=> Minus(sn, d) \notin arrived' /\ Minus(lastSeq', Minus(sn, d)) \in 1 .. Width
    BY <1>3, <1>4, <1>8, BitsAreLost
  <2>2. \A e \in 1 .. n : e - 1 \in bits => e \in 1 .. m
    BY <1>3, <1>5
  <2>3. \A e \in 1 .. m : e \in 1 .. n /\ e \in 1 .. MaxRecover
    BY <1>3
  <2> HIDE DEF m
  <2>4. { Minus(sn, d) : d \in D } = lost
    BY <2>1, <2>2, <2>3
  <2> QED BY <1>6, <1>8, <2>4 DEF n, m
<1> QED BY <1>7, <1>8

LEMMA CallSeparates ==
  ASSUME IInv, NEW sn \in SeqNums, NEW p \in Payloads, Depacketize(sn, p), ErrorOf(p) = "none"
  PROVE  BlocksApart'
<1> DEFINE t == Track(sn)
           bits == IF t[3] THEN RecoverBits(Minus(t[1], sn), t[2]) ELSE {}
           pkts == ExtractPackets(sn, p, bits)
           c == Primary(sn, p)
<1>1. /\ result'.pkts = pkts /\ result'.primary = ExtractPrimaryEncoding(p)
      /\ result'.sn = sn /\ result'.payload = p
  BY DEF Depacketize
<1>2. bits \in SUBSET (0 .. MaxRecover - 1)
  BY DEF RecoverBits
<1> HIDE DEF bits
<1>3. /\ Len(pkts) \in Nat \ {0} /\ DOMAIN pkts = 1 .. Len(pkts)
      /\ pkts # <<>> /\ pkts[Len(pkts)] = c
      /\ \A j \in 1 .. Len(pkts) - 1 : \E k \in Chosen(p, bits) : pkts[j] = BlockOf(sn, p, k)
      /\ \A j, l \in 1 .. Len(pkts) : j < l => Before(sn, pkts[j], pkts[l])
  BY <1>2, Extracted
<1>4. /\ c.sn = sn /\ c.from \in Nat /\ c.length \in Nat /\ c.from + c.length = p.size
      /\ ExtractPrimaryEncoding(p) = <<c.from, c.length>>
  BY PrimaryPlace
<1> HIDE DEF pkts, c
<1>5. ASSUME NEW i \in 1 .. Len(pkts)
      PROVE  /\ pkts[i].length >= 0 /\ pkts[i].from + pkts[i].length <= p.size
             /\ \A j \in i + 1 .. Len(pkts) :
                  /\ pkts[i].from + pkts[i].length <= pkts[j].from
                  /\ Minus(sn, pkts[i].sn) > Minus(sn, pkts[j].sn)
  <2>1. ASSUME NEW j \in i + 1 .. Len(pkts)
        PROVE  /\ pkts[i].from + pkts[i].length <= pkts[j].from
               /\ Minus(sn, pkts[i].sn) > Minus(sn, pkts[j].sn)
    <3>1. j \in 1 .. Len(pkts) /\ i < j
      BY <1>3
    <3> QED BY <1>3, <3>1 DEF Before
  <2>2. CASE i = Len(pkts)
    <3>1. c.length >= 0 /\ c.from + c.length <= p.size
      <4>1. p.size \in Nat
        BY PayloadsAssumption
      <4> QED BY <1>4, <4>1
    <3> QED BY <1>3, <2>1, <2>2, <3>1
  <2>3. CASE i # Len(pkts)
    <3>1. i \in 1 .. Len(pkts) - 1 /\ Len(pkts) \in i + 1 .. Len(pkts)
      <4>1. Len(pkts) \in Nat
        BY <1>3
      <4> QED BY <2>3, <4>1
    <3>2. PICK k \in Chosen(p, bits) : pkts[i] = BlockOf(sn, p, k)
      BY <1>3, <3>1
    <3>3. pkts[i].from \in Nat /\ pkts[i].length \in Nat
      BY <1>2, <3>2, BlockPlace
    <3>4. pkts[i].from + pkts[i].length <= c.from
      BY <1>3, <2>1, <3>1
    <3>5. pkts[i].length >= 0 /\ pkts[i].from + pkts[i].length <= p.size
      BY <1>4, <3>3, <3>4
    <3> QED BY <2>1, <3>5
  <2> QED BY <2>2, <2>3
<1>6. Last(pkts) = c
  BY <1>3 DEF Last
<1>7. /\ result'.primary = <<Last(pkts).from, Last(pkts).length>>
      /\ Last(pkts).sn = sn
  BY <1>1, <1>4, <1>6
<1> QED BY <1>1, <1>3, <1>5, <1>7 DEF BlocksApart

\* RecoversTheLost, as what it says of the three variables it reads.
Recovers(res, last, seen) ==
  res.err # "no call" /\ res.err = "none" =>
    LET n == Len(res.payload.lengths)
        recovered == { res.pkts[i].sn : i \in 1 .. Len(res.pkts) - 1 }
        lost == { s \in { Minus(res.sn, d) : d \in 1 .. (IF n < MaxRecover THEN n ELSE MaxRecover) } :
                    s \notin seen /\ Minus(last, s) \in 1 .. Width }
        late == Minus(last, res.sn) > Width
    IN  recovered = IF res.fresh \/ late THEN {} ELSE lost

\* What each call returns, with what it knew.
LEMMA ReturnedHolds == Spec => [](IInv /\ RecoversTheLost /\ BlocksApart)
<1>1. Init => RecoversTheLost /\ BlocksApart
  <2>1. ASSUME Init PROVE ~Called
    BY <2>1 DEF Init, Called
  <2> QED BY <2>1, Zenon DEF RecoversTheLost, BlocksApart
<1>2. IInv /\ IInv' /\ RecoversTheLost /\ BlocksApart /\ [Next]_vars
      => RecoversTheLost' /\ BlocksApart'
  <2> SUFFICES ASSUME IInv, IInv', RecoversTheLost, BlocksApart, [Next]_vars
               PROVE  RecoversTheLost' /\ BlocksApart'
    OBVIOUS
  <2>1. ASSUME NEW sn \in SeqNums, NEW p \in Payloads, Depacketize(sn, p)
        PROVE  RecoversTheLost' /\ BlocksApart'
    <3>1. /\ result'.err = ErrorOf(p) /\ result'.sn = sn /\ result'.payload = p
          /\ result'.fresh = (~started \/ sn = lastSeq)
      BY <2>1 DEF Depacketize
    <3>2. CASE ErrorOf(p) # "none"
      BY <3>1, <3>2 DEF RecoversTheLost, BlocksApart
    <3>3. CASE ErrorOf(p) = "none"
      <4>1. BlocksApart'
        BY <2>1, <3>3, CallSeparates
      <4>2. RecoversTheLost'
        BY <2>1, <3>1, <3>3, CallRecovers DEF RecoversTheLost
      <4> QED BY <4>1, <4>2
    <3> QED BY <3>2, <3>3
  <2>2. CASE UNCHANGED vars
    <3>1. lastSeq' = lastSeq /\ arrived' = arrived /\ result' = result
      BY <2>2 DEF vars
    <3>2. RecoversTheLost'
      <4>1. RecoversTheLost <=> Recovers(result, lastSeq, arrived)
        BY Zenon DEF RecoversTheLost, Recovers, Called
      <4>2. RecoversTheLost' <=> Recovers(result', lastSeq', arrived')
        BY Zenon DEF RecoversTheLost, Recovers, Called
      <4> QED BY <3>1, <4>1, <4>2
    <3>3. BlocksApart'
      BY <3>1, Zenon DEF BlocksApart, Called
    <3> QED BY <3>2, <3>3
  <2> QED BY <2>1, <2>2 DEF Next
<1> QED BY <1>1, <1>2, IInvHolds, PTL DEF Spec

\* Exactly the packets that were lost, that this one has copies of and that the history
\* reaches, are recovered, for every number range, width of the history and payload, and
\* every order of arrival (lines 42-88, 150-155).
THEOREM LostAreRecovered == Spec => []RecoversTheLost
BY ReturnedHolds, PTL

\* The packets of every call are in order and share no bytes, and the primary one is the
\* one that ExtractPrimaryEncoding finds, for every list of lengths (lines 97-197).
THEOREM BlocksAreApart == Spec => []BlocksApart
BY ReturnedHolds, PTL

-----------------------------------------------------------------------------
(* VP8 descriptors (vp8.go, Unmarshal and MarshalTo).                      *)

OneByteId == { id \in TwoByteId : id < 128 }

\* Of a descriptor with a picture id: whether that takes two bytes, and the flags behind
\* those of the picture id.
Long(q) == Bit(q[3], 128)
HasL(q) == Bit(q[2], 64)
HasT(q) == Bit(q[2], 32)
HasK(q) == Bit(q[2], 16)
Indexed(q) == 3 + Size(Long(q)) + Size(HasL(q)) + Size(HasT(q) \/ HasK(q))

Complete(q) ==
  /\ Bit(q[1], 128) /\ Bit(q[2], 128) /\ (HasL(q) => HasT(q))
  /\ Len(q) >= 3 /\ Len(q) > Indexed(q)

Descriptor(q) ==
  [err |-> "none", FirstByte |-> q[1], S |-> Bit(q[1], 16), I |-> TRUE,
   M |-> Long(q), L |-> HasL(q), T |-> HasT(q), K |-> HasK(q),
   PictureID |-> IF Long(q) THEN ((q[3] % 128) * 256) + q[4] ELSE q[3] % 128,
   TL0PICIDX |-> IF HasL(q) THEN q[4 + Size(Long(q))] ELSE 0,
   TID |-> IF HasT(q) THEN q[Indexed(q)] \div 64 ELSE 0, Y |-> HasT(q) /\ Bit(q[Indexed(q)], 32),
   KEYIDX |-> IF HasK(q) THEN q[Indexed(q)] % 32 ELSE 0,
   HeaderSize |-> Indexed(q),
   IsKeyFrame |-> ~Bit(q[Indexed(q) + 1], 1) /\ Bit(q[1], 16)]

\* Unmarshal reads those fields, and nothing else has a descriptor with a picture id.
LEMMA Parsing ==
  ASSUME NEW q \in Seq(Byte)
  PROVE  /\ Unmarshal(q).err = "none" /\ Unmarshal(q).I => Complete(q)
         /\ Complete(q) => Unmarshal(q) = Descriptor(q)
<1> DEFINE X == Bit(q[1], 128)
           has(mask) == X /\ Len(q) >= 2 /\ Bit(q[2], mask)
           I == has(128)
           L == has(64)
           T == has(32)
           K == has(16)
           M == I /\ Len(q) >= 3 /\ Bit(q[3], 128)
           idx == 1 + Size(X) + Size(I) + Size(M) + Size(L) + Size(T \/ K)
           PictureID == IF M THEN ((q[3] % 128) * 256) + q[4] ELSE IF I THEN q[3] % 128 ELSE 0
           TL0PICIDX == IF L THEN q[1 + Size(X) + Size(I) + Size(M) + 1] ELSE 0
           TID == IF T THEN q[idx] \div 64 ELSE 0
           Y == T /\ Bit(q[idx], 32)
           KEYIDX == IF K THEN q[idx] % 32 ELSE 0
           keyFrame == ~Bit(q[idx + 1], 1) /\ Bit(q[1], 16)
           S == Bit(q[1], 16)
<1>1. Unmarshal(q) = IF q = <<>> THEN [err |-> "short"]
        ELSE IF L /\ ~T THEN [err |-> "invalid"]
        ELSE IF Len(q) < idx + 1 THEN [err |-> "short"]
        ELSE [err |-> "none", FirstByte |-> q[1], S |-> S, I |-> I, M |-> M, L |-> L, T |-> T, K |-> K,
              PictureID |-> PictureID, TL0PICIDX |-> TL0PICIDX, TID |-> TID, Y |-> Y, KEYIDX |-> KEYIDX,
              HeaderSize |-> idx, IsKeyFrame |-> keyFrame]
  BY DEF Unmarshal
<1>2. ASSUME Unmarshal(q).err = "none", Unmarshal(q).I PROVE Complete(q)
  <2> HIDE DEF X, I, L, T, K, M, idx, PictureID, TL0PICIDX, TID, Y, KEYIDX, keyFrame, S
  <2>1. q # <<>> /\ ~(L /\ ~T) /\ ~(Len(q) < idx + 1)
    BY <1>1, <1>2
  <2>2. I
    BY <1>1, <1>2, <2>1
  <2> QED BY <2>1, <2>2 DEF X, I, L, T, K, M, idx, Size, Complete, Indexed, Long, HasL, HasT, HasK
<1>3. ASSUME Complete(q) PROVE Unmarshal(q) = Descriptor(q)
  <2>1. q # <<>> /\ X /\ Len(q) >= 3 /\ ~(Len(q) < Indexed(q) + 1) /\ (HasL(q) => HasT(q))
    BY <1>3 DEF Complete, Indexed, Size
  <2>2. /\ I = TRUE /\ M = Long(q) /\ L = HasL(q) /\ T = HasT(q) /\ K = HasK(q)
    BY <1>3, <2>1 DEF Complete, Long, HasL, HasT, HasK, Bit
  <2>3. Size(X) = 1 /\ Size(I) = 1 /\ Size(M) = Size(Long(q)) /\ Size(L) = Size(HasL(q)) /\ Size(T \/ K) = Size(HasT(q) \/ HasK(q))
    BY <2>1, <2>2 DEF Size
  <2>9. Size(M) \in {0, 1}
    BY DEF Size
  <2> HIDE DEF X, I, L, T, K, M
  <2>4. idx = Indexed(q)
    BY <2>3, <2>9 DEF Indexed
  <2>5. 1 + Size(X) + Size(I) + Size(M) + 1 = 4 + Size(Long(q))
    BY <2>3, <2>9
  <2> HIDE DEF idx
  <2>6. PictureID = Descriptor(q).PictureID /\ TL0PICIDX = Descriptor(q).TL0PICIDX /\ TID = Descriptor(q).TID
        /\ KEYIDX = Descriptor(q).KEYIDX
    BY <2>2, <2>4, <2>5 DEF Descriptor
  <2>7. Y = Descriptor(q).Y /\ keyFrame = Descriptor(q).IsKeyFrame
    BY <2>2, <2>4 DEF Descriptor
  <2> HIDE DEF PictureID, TL0PICIDX, TID, Y, KEYIDX, keyFrame, S
  <2>8. Unmarshal(q) = 
        [err |-> "none", FirstByte |-> q[1], S |-> S, I |-> I, M |-> M, L |-> L, T |-> T, K |-> K,
              PictureID |-> PictureID, TL0PICIDX |-> TL0PICIDX, TID |-> TID, Y |-> Y, KEYIDX |-> KEYIDX,
              HeaderSize |-> idx, IsKeyFrame |-> keyFrame]
    BY <1>1, <2>1, <2>2, <2>4
  <2> QED BY <2>2, <2>4, <2>6, <2>7, <2>8 DEF Descriptor, S
<1> QED BY <1>2, <1>3

\* Bytes behind each other.
LEMMA BytesBehind ==
  ASSUME NEW a \in Seq(Byte), NEW b \in Seq(Byte)
  PROVE  /\ a \o b \in Seq(Byte) /\ Len(a \o b) = Len(a) + Len(b)
         /\ \A i \in 1 .. Len(a) : (a \o b)[i] = a[i]
         /\ \A i \in 1 .. Len(b) : (a \o b)[Len(a) + i] = b[i]
OBVIOUS

\* A byte behind the others, or none.
LEMMA MayFollow ==
  ASSUME NEW a \in Seq(Byte), NEW set \in BOOLEAN, NEW x \in Byte
  PROVE  LET s == a \o Optional(set, <<x>>) IN
         /\ s \in Seq(Byte) /\ Len(s) = Len(a) + Size(set)
         /\ \A i \in 1 .. Len(a) : s[i] = a[i]
         /\ set => s[Len(a) + 1] = x
<1>1. CASE set
  <2>1. <<x>> \in Seq(Byte) /\ Len(<<x>>) = 1 /\ <<x>>[1] = x
    OBVIOUS
  <2>2. Optional(set, <<x>>) = <<x>> /\ Size(set) = 1
    BY <1>1 DEF Optional, Size
  <2>3. /\ a \o <<x>> \in Seq(Byte) /\ Len(a \o <<x>>) = Len(a) + 1
        /\ \A i \in 1 .. Len(a) : (a \o <<x>>)[i] = a[i]
        /\ (a \o <<x>>)[Len(a) + 1] = x
    BY <2>1, BytesBehind
  <2> QED BY <2>2, <2>3
<1>2. CASE ~set
  <2>1. Optional(set, <<x>>) = <<>> /\ Size(set) = 0
    BY <1>2 DEF Optional, Size
  <2>2. <<>> \in Seq(Byte) /\ Len(<<>>) = 0 /\ Len(a) \in Nat
    OBVIOUS
  <2> QED BY <1>2, <2>1, <2>2, BytesBehind
<1> QED BY <1>1, <1>2

Flags(L, T, K) == 128 + Flag(L, 64) + Flag(T, 32) + Flag(K, 16)

\* The flags are read as they were written.
LEMMA FlagsAreRead ==
  ASSUME NEW L \in BOOLEAN, NEW T \in BOOLEAN, NEW K \in BOOLEAN
  PROVE  /\ Flags(L, T, K) \in Byte
         /\ Bit(Flags(L, T, K), 128) /\ (Bit(Flags(L, T, K), 64) <=> L)
         /\ (Bit(Flags(L, T, K), 32) <=> T) /\ (Bit(Flags(L, T, K), 16) <=> K)
BY DEF Flags, Flag, Bit, Byte

\* The first byte of an extended descriptor keeps its value.
LEMMA FirstByteKept ==
  ASSUME NEW b \in Byte, Bit(b, 128)
  PROVE  (b % 128) + 128 = b
BY DEF Bit, Byte

\* The byte of TID, Y and KEYIDX, from those of b.
Tk(b, T, K) ==
  (IF T THEN (((b \div 64) * 64) % 256) + Flag(T /\ Bit(b, 32), 32) ELSE 0) + (IF K THEN (b % 32) % 32 ELSE 0)

\* What is read of that byte is what was written.
LEMMA TkRead ==
  ASSUME NEW b \in Byte, NEW T \in BOOLEAN, NEW K \in BOOLEAN
  PROVE  /\ Tk(b, T, K) \in Byte
         /\ T => Tk(b, T, K) \div 64 = b \div 64 /\ (Bit(Tk(b, T, K), 32) <=> Bit(b, 32))
         /\ K => Tk(b, T, K) % 32 = b % 32
<1> DEFINE t == b \div 64
           y == (b \div 32) % 2
           k == b % 32
<1>1. t \in 0 .. 3 /\ y \in 0 .. 1 /\ k \in 0 .. 31
  BY DEF Byte
<1>2. k % 32 = k /\ (t * 64) % 256 = t * 64
  <2> HIDE DEF t, k
  <2> QED BY <1>1
<1>3. Flag(T /\ Bit(b, 32), 32) = IF T THEN 32 * y ELSE 0
  <2>1. Bit(b, 32) <=> y = 1
    BY DEF Bit
  <2> HIDE DEF y
  <2> QED BY <1>1, <2>1 DEF Flag
<1>4. Bit(b, 32) <=> y = 1
  BY DEF Bit
<1> DEFINE h == IF T THEN 64 * t + 32 * y ELSE 0
           l == IF K THEN k ELSE 0
<1>5. Tk(b, T, K) = h + l
  <2>1. Tk(b, T, K) = (IF T THEN ((t * 64) % 256) + Flag(T /\ Bit(b, 32), 32) ELSE 0) + (IF K THEN k % 32 ELSE 0)
    BY DEF Tk
  <2> HIDE DEF t, y, k
  <2> QED BY <1>1, <1>2, <1>3, <2>1
<1> HIDE DEF t, y, k
<1>6. l \in 0 .. 31 /\ h + l \in Byte
  BY <1>1 DEF Byte
<1>7. T => (h + l) \div 64 = t /\ (Bit(h + l, 32) <=> y = 1)
  <2> SUFFICES ASSUME T PROVE (h + l) \div 64 = t /\ (Bit(h + l, 32) <=> y = 1)
    OBVIOUS
  <2>1. h = 64 * t + 32 * y
    OBVIOUS
  <2> HIDE DEF h, l
  <2>2. (h + l) \div 64 = t
    BY <1>1, <1>6, <2>1
  <2>3. (h + l) \div 32 = 2 * t + y
    BY <1>1, <1>6, <2>1
  <2>4. (2 * t + y) % 2 = y
    BY <1>1
  <2> QED BY <2>2, <2>3, <2>4 DEF Bit
<1>8. K => (h + l) % 32 = k
  <2> SUFFICES ASSUME K PROVE (h + l) % 32 = k
    OBVIOUS
  <2>1. l = k /\ h = 32 * (IF T THEN 2 * t + y ELSE 0)
    BY <1>1
  <2> DEFINE n == IF T THEN 2 * t + y ELSE 0
  <2>2. n \in 0 .. 7
    BY <1>1
  <2> HIDE DEF h, l, n
  <2>3. (32 * n + k) % 32 = k
    BY <1>1, <2>2
  <2> QED BY <2>1, <2>3 DEF n
<1>9. b \div 64 = t /\ b % 32 = k
  BY DEF t, k
<1> HIDE DEF h, l
<1> QED BY <1>4, <1>5, <1>6, <1>7, <1>8, <1>9

\* The bytes of a picture id.
\* pic holds id, in one byte and size more.
Holds(pic, size, id) ==
  /\ pic \in Seq(Byte) /\ Len(pic) = 1 + size
  /\ Bit(pic[1], 128) <=> size = 1
  /\ id = IF size = 1 THEN ((pic[1] % 128) * 256) + pic[2] ELSE pic[1] % 128

LongId(id) == <<128 + ((id \div 256) % 128), id % 256>>
ShortId(id) == <<id % 256>>

\* An id of two bytes, and of one, is read as it was written.
LEMMA LongPicture ==
  ASSUME NEW id \in TwoByteId
  PROVE  Holds(LongId(id), 1, id)
<1> DEFINE a == id \div 256
           r == id % 256
           pic == <<128 + (a % 128), r>>
<1>1. a \in 0 .. 127 /\ r \in 0 .. 255 /\ id = 256 * a + r
  <2>1. id \in Int /\ 0 <= id /\ id < 32768
    BY DEF TwoByteId
  <2>2. a \in Int /\ r \in 0 .. 255
    BY <2>1
  <2>3. id = 256 * a + r
    BY <2>1
  <2>4. 0 <= a /\ a <= 127
    BY <2>1
  <2> QED BY <2>2, <2>3, <2>4
<1>2. LongId(id) = pic
  BY DEF LongId
<1> HIDE DEF a, r
<1>3. a % 128 = a /\ (128 + a) % 128 = a /\ (128 + a) \div 128 = 1
  BY <1>1
<1>4. pic \in Seq(Byte) /\ Len(pic) = 2 /\ pic[1] = 128 + a /\ pic[2] = r
  BY <1>1, <1>3 DEF Byte
<1> HIDE DEF pic
<1>5. Bit(pic[1], 128)
  BY <1>3, <1>4 DEF Bit
<1>6. ((pic[1] % 128) * 256) + pic[2] = id
  BY <1>1, <1>3, <1>4
<1> QED BY <1>2, <1>4, <1>5, <1>6 DEF Holds

LEMMA ShortPicture ==
  ASSUME NEW id \in OneByteId
  PROVE  Holds(ShortId(id), 0, id)
<1> DEFINE pic == <<id % 256>>
<1>1. id % 256 = id /\ id \in Byte /\ id \div 128 = 0 /\ id % 128 = id
  <2>1. id \in Int /\ 0 <= id /\ id < 128
    BY DEF TwoByteId, OneByteId
  <2> QED BY <2>1 DEF Byte
<1>2. ShortId(id) = pic
  BY DEF ShortId
<1>3. pic \in Seq(Byte) /\ Len(pic) = 1 /\ pic[1] = id
  BY <1>1
<1> HIDE DEF pic
<1>4. ~Bit(pic[1], 128)
  BY <1>1, <1>3 DEF Bit
<1>5. pic[1] % 128 = id
  BY <1>1, <1>3
<1> QED BY <1>2, <1>3, <1>4, <1>5 DEF Holds

\* The bytes written for a descriptor with a picture id, in front of others.
Written(first, L, T, K, pic, tl0, tk) ==
  (((<<first>> \o <<Flags(L, T, K)>>) \o pic) \o Optional(L, <<tl0>>)) \o Optional(T \/ K, <<tk>>)

\* Where those bytes are.
InPlace(first, L, T, K, pic, long, tl0, tk, rest) ==
  LET s == Written(first, L, T, K, pic, tl0, tk)
      n == 3 + Size(long) + Size(L) + Size(T \/ K)
      q == s \o rest
  IN /\ s \in Seq(Byte) /\ Len(s) = n
     /\ q \in Seq(Byte) /\ Len(q) = n + Len(rest)
     /\ q[1] = first /\ q[2] = Flags(L, T, K) /\ q[3] = pic[1]
     /\ long => q[4] = pic[2]
     /\ L => q[4 + Size(long)] = tl0
     /\ T \/ K => q[n] = tk
     /\ rest # <<>> => q[n + 1] = rest[1]

\* By the lengths of the fields in front of each.
LEMMA WrittenBytes ==
  ASSUME NEW first \in Byte, NEW L \in BOOLEAN, NEW T \in BOOLEAN, NEW K \in BOOLEAN,
         NEW pic \in Seq(Byte), NEW long \in BOOLEAN, Len(pic) = 1 + Size(long),
         NEW tl0 \in Byte, NEW tk \in Byte, NEW rest \in Seq(Byte)
  PROVE  InPlace(first, L, T, K, pic, long, tl0, tk, rest)
<1> DEFINE s1 == <<first>> \o <<Flags(L, T, K)>>
           s2 == s1 \o pic
           s3 == s2 \o Optional(L, <<tl0>>)
           s4 == s3 \o Optional(T \/ K, <<tk>>)
           q == s4 \o rest
           n == 3 + Size(long) + Size(L) + Size(T \/ K)
<1>0. Size(long) \in 0 .. 1 /\ Size(L) \in 0 .. 1 /\ Size(T \/ K) \in 0 .. 1 /\ (long => Size(long) = 1)
      /\ (L => Size(L) = 1) /\ (T \/ K => Size(T \/ K) = 1)
  BY DEF Size
<1>1. s1 \in Seq(Byte) /\ Len(s1) = 2 /\ s1[1] = first /\ s1[2] = Flags(L, T, K)
  <2>1. Flags(L, T, K) \in Byte
    BY FlagsAreRead
  <2> DEFINE a == <<first>>
             b == <<Flags(L, T, K)>>
  <2>2. a \in Seq(Byte) /\ Len(a) = 1 /\ a[1] = first /\ b \in Seq(Byte) /\ Len(b) = 1 /\ b[1] = Flags(L, T, K)
    BY <2>1
  <2> HIDE DEF a, b
  <2>3. /\ a \o b \in Seq(Byte) /\ Len(a \o b) = Len(a) + Len(b)
        /\ \A i \in 1 .. Len(a) : (a \o b)[i] = a[i]
        /\ \A i \in 1 .. Len(b) : (a \o b)[Len(a) + i] = b[i]
    BY <2>2, BytesBehind
  <2>4. (a \o b)[1] = first /\ (a \o b)[1 + 1] = Flags(L, T, K) /\ Len(a \o b) = 2
    BY <2>2, <2>3
  <2> QED BY <2>3, <2>4 DEF a, b
<1> HIDE DEF s1
<1>2. /\ s2 \in Seq(Byte) /\ Len(s2) = 3 + Size(long)
      /\ \A i \in 1 .. 2 : s2[i] = s1[i]
      /\ s2[3] = pic[1] /\ (long => s2[4] = pic[2])
  <2>0. /\ s1 \o pic \in Seq(Byte) /\ Len(s1 \o pic) = Len(s1) + Len(pic)
        /\ \A i \in 1 .. Len(s1) : (s1 \o pic)[i] = s1[i]
        /\ \A i \in 1 .. Len(pic) : (s1 \o pic)[Len(s1) + i] = pic[i]
    BY <1>1, BytesBehind
  <2>1. /\ s2 \in Seq(Byte) /\ Len(s2) = 2 + Len(pic)
        /\ \A i \in 1 .. 2 : s2[i] = s1[i]
        /\ \A i \in 1 .. Len(pic) : s2[2 + i] = pic[i]
    BY <1>1, <2>0
  <2> HIDE DEF s2
  <2>2. s2[2 + 1] = pic[1] /\ (long => s2[2 + 2] = pic[2])
    BY <1>0, <2>1
  <2> QED BY <1>0, <2>1, <2>2
<1> HIDE DEF s2
<1>3. /\ s3 \in Seq(Byte) /\ Len(s3) = Len(s2) + Size(L)
      /\ \A i \in 1 .. Len(s2) : s3[i] = s2[i]
      /\ L => s3[Len(s2) + 1] = tl0
  BY <1>2, MayFollow
<1> HIDE DEF s3
<1>4. /\ s4 \in Seq(Byte) /\ Len(s4) = Len(s3) + Size(T \/ K)
      /\ \A i \in 1 .. Len(s3) : s4[i] = s3[i]
      /\ T \/ K => s4[Len(s3) + 1] = tk
  <2>1. (T \/ K) \in BOOLEAN
    OBVIOUS
  <2> QED BY <1>3, <2>1, MayFollow
<1> HIDE DEF s4
<1>5. /\ q \in Seq(Byte) /\ Len(q) = Len(s4) + Len(rest)
      /\ \A i \in 1 .. Len(s4) : q[i] = s4[i]
      /\ \A i \in 1 .. Len(rest) : q[Len(s4) + i] = rest[i]
  BY <1>4, BytesBehind
<1> HIDE DEF q
<1>6. Len(s3) = 3 + Size(long) + Size(L) /\ Len(s4) = n /\ n \in 3 .. 6
  BY <1>0, <1>2, <1>3, <1>4
<1>7. \A i \in 1 .. 3 + Size(long) : q[i] = s2[i]
  <2> SUFFICES ASSUME NEW i \in 1 .. 3 + Size(long) PROVE q[i] = s2[i]
    OBVIOUS
  <2>1. i \in 1 .. Len(s2) /\ i \in 1 .. Len(s3) /\ i \in 1 .. Len(s4)
    BY <1>0, <1>2, <1>6
  <2> QED BY <1>3, <1>4, <1>5, <2>1
<1>8. q[1] = first /\ q[2] = Flags(L, T, K) /\ q[3] = pic[1] /\ (long => q[4] = pic[2])
  <2>1. 1 \in 1 .. 3 + Size(long) /\ 2 \in 1 .. 3 + Size(long) /\ 3 \in 1 .. 3 + Size(long)
        /\ (long => 4 \in 1 .. 3 + Size(long))
    BY <1>0
  <2> QED BY <1>1, <1>2, <1>7, <2>1
<1>9. L => q[4 + Size(long)] = tl0
  <2> SUFFICES ASSUME L = TRUE PROVE q[4 + Size(long)] = tl0
    OBVIOUS
  <2>0. Size(L) = 1
    BY DEF Size
  <2>1. 4 + Size(long) = Len(s2) + 1 /\ 4 + Size(long) \in 1 .. Len(s3) /\ 4 + Size(long) \in 1 .. Len(s4)
    BY <1>0, <1>2, <1>6, <2>0
  <2> QED BY <1>3, <1>4, <1>5, <2>1
<1>10. T \/ K => q[n] = tk
  <2> SUFFICES ASSUME T \/ K PROVE q[n] = tk
    OBVIOUS
  <2>1. n = Len(s3) + 1 /\ n \in 1 .. Len(s4)
    BY <1>0, <1>6
  <2> QED BY <1>4, <1>5, <2>1
<1>11. rest # <<>> => q[n + 1] = rest[1]
  <2> SUFFICES ASSUME rest # <<>> PROVE q[n + 1] = rest[1]
    OBVIOUS
  <2>1. 1 \in 1 .. Len(rest)
    OBVIOUS
  <2> QED BY <1>5, <1>6, <2>1
<1>12. Len(q) = n + Len(rest)
  BY <1>5, <1>6
<1>13. s4 = Written(first, L, T, K, pic, tl0, tk) /\ q = Written(first, L, T, K, pic, tl0, tk) \o rest
  BY DEF Written, s1, s2, s3, s4, q
<1> HIDE DEF n
<1>14. /\ s4 \in Seq(Byte) /\ Len(s4) = n
       /\ q \in Seq(Byte) /\ Len(q) = n + Len(rest)
       /\ q[1] = first /\ q[2] = Flags(L, T, K) /\ q[3] = pic[1]
       /\ long => q[4] = pic[2]
       /\ L => q[4 + Size(long)] = tl0
       /\ T \/ K => q[n] = tk
       /\ rest # <<>> => q[n + 1] = rest[1]
  BY <1>4, <1>5, <1>6, <1>8, <1>9, <1>10, <1>11, <1>12
<1> QED BY <1>13, <1>14 DEF n, InPlace

LEMMA BitsAreBoolean ==
  ASSUME NEW x, NEW mask
  PROVE  Bit(x, mask) \in BOOLEAN
BY DEF Bit

\* The descriptor of p with another id.
Renamed(p, long, id) ==
  [err |-> "none", FirstByte |-> p[1], S |-> Bit(p[1], 16), I |-> TRUE,
   M |-> long, L |-> HasL(p), T |-> HasT(p), K |-> HasK(p),
   PictureID |-> id,
   TL0PICIDX |-> IF HasL(p) THEN p[4 + Size(Long(p))] ELSE 0,
   TID |-> IF HasT(p) THEN p[Indexed(p)] \div 64 ELSE 0, Y |-> HasT(p) /\ Bit(p[Indexed(p)], 32),
   KEYIDX |-> IF HasK(p) THEN p[Indexed(p)] % 32 ELSE 0,
   HeaderSize |-> Indexed(p) + (Size(long) - Size(Long(p))),
   IsKeyFrame |-> ~Bit(p[Indexed(p) + 1], 1) /\ Bit(p[1], 16)]

\* What is written for it.
WrittenFor(p, pic) ==
  Written(p[1], HasL(p), HasT(p), HasK(p), pic, IF HasL(p) THEN p[4 + Size(Long(p))] ELSE 0,
          Tk(p[Indexed(p)], HasT(p), HasK(p)))

\* What is written for p with another picture id, read again.
LEMMA WrittenIsRead ==
  ASSUME NEW p \in Seq(Byte), Complete(p), NEW long \in BOOLEAN, NEW id,
         NEW pic, Holds(pic, Size(long), id)
  PROVE  LET w == Renamed(p, long, id)
             s == WrittenFor(p, pic)
         IN Len(s) = w.HeaderSize /\ Unmarshal(s \o SubSeq(p, Indexed(p) + 1, Len(p))) = w
<1> DEFINE n == Indexed(p)
           L == HasL(p)
           T == HasT(p)
           K == HasK(p)
           tl0 == IF L THEN p[4 + Size(Long(p))] ELSE 0
           tk == Tk(p[n], T, K)
           s == Written(p[1], L, T, K, pic, tl0, tk)
           rest == SubSeq(p, n + 1, Len(p))
           q == s \o rest
           size == 3 + Size(long) + Size(L) + Size(T \/ K)
<1>0. /\ pic \in Seq(Byte) /\ Len(pic) = 1 + Size(long)
      /\ Bit(pic[1], 128) <=> long
      /\ id = IF long THEN ((pic[1] % 128) * 256) + pic[2] ELSE pic[1] % 128
  <2>1. Size(long) = 1 <=> long
    BY DEF Size
  <2> QED BY <2>1 DEF Holds
<1>1. L \in BOOLEAN /\ T \in BOOLEAN /\ K \in BOOLEAN /\ Long(p) \in BOOLEAN
  BY BitsAreBoolean DEF HasL, HasT, HasK, Long
<1>2. \A set \in BOOLEAN : Size(set) \in 0 .. 1 /\ (set => Size(set) = 1)
  BY DEF Size
<1>3. n = 3 + Size(Long(p)) + Size(L) + Size(T \/ K) /\ Len(p) > n /\ Len(p) \in Nat
  BY DEF Complete, Indexed
<1>4. (T \/ K) \in BOOLEAN
  BY <1>1
<1>5. /\ Size(Long(p)) \in 0 .. 1 /\ Size(long) \in 0 .. 1 /\ Size(T \/ K) \in 0 .. 1 /\ Size(L) \in 0 .. 1
      /\ L => Size(L) = 1
  BY <1>1, <1>2, <1>4
<1>6. n \in 3 .. 6 /\ size = n + (Size(long) - Size(Long(p)))
  BY <1>3, <1>5
<1>24. tl0 \in Byte
  <2>1. CASE L
    <3>0. tl0 = p[4 + Size(Long(p))]
      BY <2>1
    <3> HIDE DEF n, L, T, K, tl0
    <3>1. Size(L) = 1
      BY <1>2, <1>1, <2>1
    <3>2. 4 + Size(Long(p)) \in 1 .. Len(p)
      BY <1>3, <1>5, <3>1
    <3> QED BY <3>0, <3>2
  <2>2. CASE ~L
    <3>1. tl0 = 0
      BY <2>2
    <3> QED BY <3>1 DEF Byte
  <2> QED BY <2>1, <2>2
<1> HIDE DEF n, L, T, K, tl0, tk
<1>7. p[1] \in Byte /\ p[n] \in Byte
  <2>1. 1 \in 1 .. Len(p) /\ n \in 1 .. Len(p)
    BY <1>3, <1>6
  <2> QED BY <2>1
<1>8. rest \in Seq(Byte) /\ rest # <<>> /\ rest[1] = p[n + 1]
  <2>1. Len(rest) = Len(p) - n /\ Len(rest) > 0 /\ rest \in Seq(Byte)
    BY <1>3, <1>6
  <2>2. 1 \in 1 .. Len(p) - n
    BY <1>3, <1>6
  <2>3. rest[1] = p[n + 1]
    BY <1>3, <1>6, <2>1
  <2>4. rest # <<>>
    <3> HIDE DEF rest
    <3> QED BY <2>1
  <2> QED BY <2>1, <2>3, <2>4
<1>9. /\ tk \in Byte
      /\ T => tk \div 64 = p[n] \div 64 /\ (Bit(tk, 32) <=> Bit(p[n], 32))
      /\ K => tk % 32 = p[n] % 32
  BY <1>1, <1>7, TkRead DEF tk
<1> HIDE DEF rest, s, q, size
<1>10. /\ Len(s) = size /\ q \in Seq(Byte) /\ Len(q) = size + Len(rest)
       /\ q[1] = p[1] /\ q[2] = Flags(L, T, K) /\ q[3] = pic[1]
       /\ long => q[4] = pic[2]
       /\ L => q[4 + Size(long)] = tl0
       /\ T \/ K => q[size] = tk
       /\ rest # <<>> => q[size + 1] = rest[1]
  <2>1. InPlace(p[1], L, T, K, pic, long, tl0, tk, rest)
    <3>1. p[1] \in Byte /\ tk \in Byte /\ tl0 \in Byte /\ rest \in Seq(Byte)
      BY <1>24, <1>7, <1>8, <1>9
    <3> QED BY <1>0, <1>1, <3>1, WrittenBytes, SMTT(60)
  <2> QED BY <2>1 DEF s, q, size, InPlace
<1>11. Long(q) = long /\ HasL(q) = L /\ HasT(q) = T /\ HasK(q) = K
  <2>1. Bit(q[2], 64) <=> L
    BY <1>1, <1>10, FlagsAreRead
  <2>2. Bit(q[2], 32) <=> T
    BY <1>1, <1>10, FlagsAreRead
  <2>3. Bit(q[2], 16) <=> K
    BY <1>1, <1>10, FlagsAreRead
  <2>4. Bit(q[3], 128) <=> long
    BY <1>0, <1>10
  <2> QED BY <1>1, <2>1, <2>2, <2>3, <2>4, BitsAreBoolean DEF Long, HasL, HasT, HasK
<1>12. Indexed(q) = size
  <2> QED BY <1>11 DEF Indexed, size
<1>13. Complete(q)
  <2>1. Bit(q[1], 128)
    BY <1>10 DEF Complete
  <2>2. Bit(q[2], 128)
    BY <1>1, <1>10, FlagsAreRead
  <2>3. L => T
    BY DEF Complete, L, T
  <2>4. Len(q) > size /\ Len(q) >= 3
    <3>1. Len(rest) \in Nat /\ Len(rest) > 0
      BY <1>8
    <3>2. size \in 3 .. 6
      BY <1>5 DEF size
    <3> QED BY <1>10, <3>1, <3>2
  <2> QED BY <1>11, <1>12, <2>1, <2>2, <2>3, <2>4 DEF Complete
<1>14. Unmarshal(q) = Descriptor(q)
  BY <1>10, <1>13, Parsing
<1> HIDE DEF q
<1>16. Descriptor(q).PictureID = id
  BY <1>0, <1>10, <1>11 DEF Descriptor
<1>17. Descriptor(q).TL0PICIDX = tl0
  <2>1. Descriptor(q).TL0PICIDX = IF L THEN q[4 + Size(long)] ELSE 0
    BY <1>11 DEF Descriptor
  <2> QED BY <1>10, <2>1 DEF tl0
<1>18. Descriptor(q).TID = (IF T THEN p[n] \div 64 ELSE 0) /\ Descriptor(q).Y = (T /\ Bit(p[n], 32))
  <2>1. Descriptor(q).TID = (IF T THEN q[size] \div 64 ELSE 0) /\ Descriptor(q).Y = (T /\ Bit(q[size], 32))
    BY <1>11, <1>12 DEF Descriptor
  <2> QED BY <1>9, <1>10, <2>1
<1>19. Descriptor(q).KEYIDX = IF K THEN p[n] % 32 ELSE 0
  <2>1. Descriptor(q).KEYIDX = IF K THEN q[size] % 32 ELSE 0
    BY <1>11, <1>12 DEF Descriptor
  <2> QED BY <1>9, <1>10, <2>1
<1>20. Descriptor(q).IsKeyFrame = (~Bit(p[n + 1], 1) /\ Bit(p[1], 16)) /\ Descriptor(q).S = Bit(p[1], 16)
  <2>1. Descriptor(q).IsKeyFrame = (~Bit(q[size + 1], 1) /\ Bit(q[1], 16)) /\ Descriptor(q).S = Bit(q[1], 16)
    BY <1>12 DEF Descriptor
  <2> QED BY <1>8, <1>10, <2>1
<1>21. Descriptor(q) = Renamed(p, long, id)
  <2>1. Descriptor(q) = 
    [err |-> "none", FirstByte |-> q[1], S |-> Descriptor(q).S, I |-> TRUE,
     M |-> Long(q), L |-> HasL(q), T |-> HasT(q), K |-> HasK(q),
     PictureID |-> Descriptor(q).PictureID, TL0PICIDX |-> Descriptor(q).TL0PICIDX,
     TID |-> Descriptor(q).TID, Y |-> Descriptor(q).Y, KEYIDX |-> Descriptor(q).KEYIDX,
     HeaderSize |-> Indexed(q), IsKeyFrame |-> Descriptor(q).IsKeyFrame]
    BY DEF Descriptor
  <2>2. Descriptor(q) = 
    [err |-> "none", FirstByte |-> p[1], S |-> Bit(p[1], 16), I |-> TRUE,
     M |-> long, L |-> L, T |-> T, K |-> K,
     PictureID |-> id, TL0PICIDX |-> tl0,
     TID |-> IF T THEN p[n] \div 64 ELSE 0, Y |-> T /\ Bit(p[n], 32), KEYIDX |-> IF K THEN p[n] % 32 ELSE 0,
     HeaderSize |-> n + (Size(long) - Size(Long(p))), IsKeyFrame |-> ~Bit(p[n + 1], 1) /\ Bit(p[1], 16)]
    BY <1>6, <1>10, <1>11, <1>12, <1>16, <1>17, <1>18, <1>19, <1>20, <2>1
  <2> QED BY <2>2 DEF Renamed, tl0, n, L, T, K
<1>22. Len(s) = Renamed(p, long, id).HeaderSize
  <2>1. Renamed(p, long, id).HeaderSize = n + (Size(long) - Size(Long(p)))
    BY DEF Renamed, n
  <2> QED BY <1>6, <1>10, <2>1
<1>23. s = WrittenFor(p, pic) /\ q = WrittenFor(p, pic) \o SubSeq(p, Indexed(p) + 1, Len(p))
  BY DEF WrittenFor, s, q, rest, n, L, T, K, tl0, tk
<1> QED BY <1>14, <1>21, <1>22, <1>23

\* Which is what the forwarder has, and what MarshalTo writes.
LEMMA RewrittenIsRenamed ==
  ASSUME NEW p \in Seq(Byte), NEW m \in BOOLEAN, NEW id
  PROVE  Rewritten(Descriptor(p), m, id) = Renamed(p, m, id)
<1> DEFINE v == Descriptor(p)
           size == Indexed(p) + (Size(m) - Size(Long(p)))
           v1 == [v EXCEPT !.M = m]
           v2 == [v1 EXCEPT !.PictureID = id]
           v3 == [v2 EXCEPT !.HeaderSize = size]
           With(M, PictureID, HeaderSize) ==
             [err |-> "none", FirstByte |-> v.FirstByte, S |-> v.S, I |-> v.I,
              M |-> M, L |-> v.L, T |-> v.T, K |-> v.K, PictureID |-> PictureID,
              TL0PICIDX |-> v.TL0PICIDX, TID |-> v.TID, Y |-> v.Y, KEYIDX |-> v.KEYIDX,
              HeaderSize |-> HeaderSize, IsKeyFrame |-> v.IsKeyFrame]
<1>1. v = With(v.M, v.PictureID, v.HeaderSize) /\ v.HeaderSize = Indexed(p) /\ v.M = Long(p)
  BY DEF Descriptor
<1>2. Renamed(p, m, id) = With(m, id, size)
  BY DEF Renamed, Descriptor
<1> HIDE DEF v
<1>3. v1 = With(m, v.PictureID, v.HeaderSize)
  BY <1>1
<1> HIDE DEF v1
<1>4. v2 = With(m, id, v.HeaderSize)
  BY <1>3
<1> HIDE DEF v2
<1>5. v3 = With(m, id, size)
  BY <1>4
<1>6. v.HeaderSize + VPxPictureIdSizeDiff(m, v.M) = size
  BY <1>1 DEF VPxPictureIdSizeDiff
<1>7. Rewritten(v, m, id) = [v EXCEPT !.M = m, !.PictureID = id, !.HeaderSize = size]
  BY <1>6, Zenon DEF Rewritten
<1>8. Rewritten(v, m, id) = v3
  BY <1>7, Zenon DEF v1, v2
<1> QED BY <1>2, <1>5, <1>8 DEF v

LEMMA LongIsWritten ==
  ASSUME NEW p \in Seq(Byte), Complete(p), NEW m \in BOOLEAN, Size(m) = 1, NEW id
  PROVE  MarshalTo(Renamed(p, m, id)) = WrittenFor(p, LongId(id))
<1> DEFINE w == Renamed(p, m, id)
           tl0 == IF HasL(p) THEN p[4 + Size(Long(p))] ELSE 0
           tid == IF HasT(p) THEN p[Indexed(p)] \div 64 ELSE 0
           key == IF HasK(p) THEN p[Indexed(p)] % 32 ELSE 0
           y == HasT(p) /\ Bit(p[Indexed(p)], 32)
           tk == (IF HasT(p) THEN ((tid * 64) % 256) + Flag(y, 32) ELSE 0) + (IF HasK(p) THEN key % 32 ELSE 0)
           xval == 128 + Flag(HasL(p), 64) + Flag(HasT(p), 32) + Flag(HasK(p), 16)
<1>1. /\ w.FirstByte = p[1] /\ w.I = TRUE /\ Size(w.M) = 1 /\ w.L = HasL(p) /\ w.T = HasT(p) /\ w.K = HasK(p)
      /\ w.PictureID = id /\ w.TL0PICIDX = tl0 /\ w.TID = tid /\ w.Y = y /\ w.KEYIDX = key
  BY DEF Renamed
<1>2. (p[1] % 128) + 128 = p[1]
  <2>1. p[1] \in Byte /\ Bit(p[1], 128)
    BY DEF Complete
  <2> QED BY <2>1, FirstByteKept
<1>3. tk = Tk(p[Indexed(p)], HasT(p), HasK(p))
  BY DEF Tk
<1> HIDE DEF w, tl0, tid, key, y
<1>4. MarshalTo(w) = <<p[1]>> \o <<xval>> \o LongId(id) \o Optional(HasL(p), <<tl0>>) \o Optional(HasT(p) \/ HasK(p), <<tk>>)
  BY <1>1, <1>2 DEF MarshalTo, LongId, Optional, Flag, Size
<1> HIDE DEF xval, tk
<1>6. WrittenFor(p, LongId(id)) = (<<p[1]>> \o <<xval>>) \o LongId(id) \o Optional(HasL(p), <<tl0>>) \o Optional(HasT(p) \/ HasK(p), <<tk>>)
  BY <1>3 DEF WrittenFor, Written, Flags, xval, tl0
<1> QED BY <1>4, <1>6 DEF w

LEMMA ShortIsWritten ==
  ASSUME NEW p \in Seq(Byte), Complete(p), NEW m \in BOOLEAN, Size(m) = 0, NEW id
  PROVE  MarshalTo(Renamed(p, m, id)) = WrittenFor(p, ShortId(id))
<1> DEFINE w == Renamed(p, m, id)
           tl0 == IF HasL(p) THEN p[4 + Size(Long(p))] ELSE 0
           tid == IF HasT(p) THEN p[Indexed(p)] \div 64 ELSE 0
           key == IF HasK(p) THEN p[Indexed(p)] % 32 ELSE 0
           y == HasT(p) /\ Bit(p[Indexed(p)], 32)
           tk == (IF HasT(p) THEN ((tid * 64) % 256) + Flag(y, 32) ELSE 0) + (IF HasK(p) THEN key % 32 ELSE 0)
           xval == 128 + Flag(HasL(p), 64) + Flag(HasT(p), 32) + Flag(HasK(p), 16)
<1>1. /\ w.FirstByte = p[1] /\ w.I = TRUE /\ w.M = m /\ w.L = HasL(p) /\ w.T = HasT(p) /\ w.K = HasK(p)
      /\ w.PictureID = id /\ w.TL0PICIDX = tl0 /\ w.TID = tid /\ w.Y = y /\ w.KEYIDX = key
  BY DEF Renamed
<1>2. (p[1] % 128) + 128 = p[1]
  <2>1. p[1] \in Byte /\ Bit(p[1], 128)
    BY DEF Complete
  <2> QED BY <2>1, FirstByteKept
<1>3. tk = Tk(p[Indexed(p)], HasT(p), HasK(p))
  BY DEF Tk
<1> HIDE DEF w, tl0, tid, key, y
<1>9. w.M = FALSE
  BY <1>1 DEF Size
<1>4. MarshalTo(w) = <<p[1]>> \o <<xval>> \o ShortId(id) \o Optional(HasL(p), <<tl0>>) \o Optional(HasT(p) \/ HasK(p), <<tk>>)
  BY <1>1, <1>9, <1>2 DEF MarshalTo, ShortId, Optional, Flag
<1> HIDE DEF xval, tk
<1>6. WrittenFor(p, ShortId(id)) = (<<p[1]>> \o <<xval>>) \o ShortId(id) \o Optional(HasL(p), <<tl0>>) \o Optional(HasT(p) \/ HasK(p), <<tk>>)
  BY <1>3 DEF WrittenFor, Written, Flags, xval, tl0
<1> QED BY <1>4, <1>6 DEF w

\* What Vp8RoundTrip says of a new id.
Survives(p, v, m, id) ==
  LET w == Rewritten(v, m, id)
      written == MarshalTo(w)
  IN Len(written) = w.HeaderSize /\ Unmarshal(written \o SubSeq(p, v.HeaderSize + 1, Len(p))) = w

LEMMA SurvivesLong ==
  ASSUME NEW p \in Seq(Byte), Complete(p), NEW m \in BOOLEAN, Size(m) = 1, NEW id \in TwoByteId
  PROVE  Survives(p, Descriptor(p), m, id)
<1>1. Holds(LongId(id), Size(m), id)
  BY LongPicture
<1>2. Len(WrittenFor(p, LongId(id))) = Renamed(p, m, id).HeaderSize
      /\ Unmarshal(WrittenFor(p, LongId(id)) \o SubSeq(p, Indexed(p) + 1, Len(p))) = Renamed(p, m, id)
  BY <1>1, WrittenIsRead
<1>3. Descriptor(p).HeaderSize = Indexed(p)
  BY DEF Descriptor
<1>4. Rewritten(Descriptor(p), m, id) = Renamed(p, m, id)
  BY RewrittenIsRenamed
<1>5. MarshalTo(Renamed(p, m, id)) = WrittenFor(p, LongId(id))
  BY LongIsWritten
<1> QED BY <1>2, <1>3, <1>4, <1>5 DEF Survives

LEMMA SurvivesShort ==
  ASSUME NEW p \in Seq(Byte), Complete(p), NEW m \in BOOLEAN, Size(m) = 0, NEW id \in OneByteId
  PROVE  Survives(p, Descriptor(p), m, id)
<1>1. Holds(ShortId(id), Size(m), id)
  BY ShortPicture
<1>2. Len(WrittenFor(p, ShortId(id))) = Renamed(p, m, id).HeaderSize
      /\ Unmarshal(WrittenFor(p, ShortId(id)) \o SubSeq(p, Indexed(p) + 1, Len(p))) = Renamed(p, m, id)
  BY <1>1, WrittenIsRead
<1>3. Descriptor(p).HeaderSize = Indexed(p)
  BY DEF Descriptor
<1>4. Rewritten(Descriptor(p), m, id) = Renamed(p, m, id)
  BY RewrittenIsRenamed
<1>5. MarshalTo(Renamed(p, m, id)) = WrittenFor(p, ShortId(id))
  BY ShortIsWritten
<1> QED BY <1>2, <1>3, <1>4, <1>5 DEF Survives

\* Whatever the payload is, and however it was cut: if it has a VP8 descriptor with a
\* picture id, and is given another one of as many bytes as that takes or of two, what
\* MarshalTo writes is HeaderSize bytes long and is parsed with every other field as
\* it was, in front of the same packet (lines 55-249).
THEOREM DescriptorSurvives ==
  ASSUME NEW p \in Seq(Byte), NEW ids \in SUBSET TwoByteId
  PROVE  Vp8RoundTrip(p, ids)
<1>1. ASSUME Unmarshal(p).err = "none", Unmarshal(p).I, NEW m \in BOOLEAN, NEW id \in ids, Size(m) = 1 \/ id < 128
      PROVE  Survives(p, Unmarshal(p), m, id)
  <2>1. Complete(p) /\ Unmarshal(p) = Descriptor(p)
    BY <1>1, Parsing
  <2>2. CASE Size(m) = 1
    <3>1. Survives(p, Descriptor(p), m, id)
      BY <2>1, <2>2, SurvivesLong
    <3> QED BY <2>1, <3>1
  <2>3. CASE Size(m) # 1
    <3>1. Size(m) = 0
      BY <2>3 DEF Size
    <3>2. id \in OneByteId
      <4>1. id < 128
        BY <1>1, <2>3
      <4>2. id \in TwoByteId
        OBVIOUS
      <4> QED BY <4>1, <4>2 DEF OneByteId
    <3>3. Survives(p, Descriptor(p), m, id)
      BY <2>1, <3>1, <3>2, SurvivesShort
    <3> QED BY <2>1, <3>3
  <2> QED BY <2>2, <2>3
<1>2. \A m \in BOOLEAN : m => Size(m) = 1
  BY DEF Size
<1> QED BY <1>1, <1>2, Zenon DEF Vp8RoundTrip, Survives

\* The payloads of a run are sequences of bytes.
LEMMA Vp8PayloadsTyped ==
  ASSUME NEW p \in Vp8Payloads
  PROVE  p \in Seq(Byte)
<1>1. ASSUME NEW rest \in {<<>>} \cup UpTo(5, Bytes) PROVE rest \in Seq(Byte)
  <2>1. CASE rest = <<>>
    BY <2>1
  <2>2. CASE rest \in UpTo(5, Bytes)
    <3>1. PICK k \in 1 .. 5 : rest \in [1 .. k -> Bytes]
      BY <2>2 DEF UpTo
    <3>2. rest \in [1 .. k -> Byte] /\ k \in Nat
      BY <3>1, BytesAssumption
    <3> QED BY <3>2
  <2> QED BY <1>1, <2>1, <2>2
<1>2. ASSUME NEW h \in Heads PROVE <<h>> \in Seq(Byte)
  BY BytesAssumption
<1>3. ASSUME NEW h \in Heads, NEW e \in Extensions PROVE <<h, e>> \in Seq(Byte)
  BY BytesAssumption
<1>4. CASE p \in { <<h>> : h \in Heads }
  BY <1>2, <1>4
<1>5. CASE p \in { start \o rest : start \in Heads \X Extensions, rest \in {<<>>} \cup UpTo(5, Bytes) }
  <2>1. PICK start \in Heads \X Extensions, rest \in {<<>>} \cup UpTo(5, Bytes) : p = start \o rest
    BY <1>5
  <2>2. PICK h \in Heads, e \in Extensions : start = <<h, e>>
    OBVIOUS
  <2>3. start \in Seq(Byte) /\ rest \in Seq(Byte)
    BY <1>1, <1>3, <2>2
  <2> QED BY <2>1, <2>3, BytesBehind
<1> QED BY <1>4, <1>5 DEF Vp8Payloads

\* So it is for every payload handed to the parsers, for all bytes and picture ids that
\* those are made of (vp8.go, Unmarshal and MarshalTo).
THEOREM DescriptorsAreKept == MCSpec => []DescriptorsSurvive
<1>1. MCInit => DescriptorsSurvive
  BY DEF MCInit, NoPayload, DescriptorsSurvive
<1>2. ASSUME DescriptorsSurvive, [MCNext]_<<vars, payload>> PROVE DescriptorsSurvive'
  <2>1. CASE payload' = payload
    BY <1>2, <2>1 DEF DescriptorsSurvive
  <2>2. CASE Parse
    <3>1. CASE payload' \in H264Inputs \cup H265Inputs \cup Av1Inputs
      <4>1. payload'.codec # "vp8"
        BY <3>1 DEF H264Inputs, H265Inputs, Av1Inputs, Of
      <4> QED BY <4>1 DEF DescriptorsSurvive
    <3>2. CASE payload' \in { [codec |-> "vp8", bytes |-> p] : p \in Vp8Payloads }
      <4>1. payload'.bytes \in Vp8Payloads
        BY <3>2
      <4>2. Vp8RoundTrip(payload'.bytes, PictureIds)
        BY <4>1, BytesAssumption, Vp8PayloadsTyped, DescriptorSurvives
      <4> QED BY <4>2 DEF DescriptorsSurvive
    <3> QED BY <2>2, <3>1, <3>2 DEF Parse
  <2>3. CASE Return
    <3>1. payload'.codec = "none"
      BY <2>3 DEF Return, NoPayload
    <3> QED BY <3>1 DEF DescriptorsSurvive
  <2> QED BY <1>2, <2>1, <2>2, <2>3 DEF MCNext, Arrive
<1> QED BY <1>1, <1>2, PTL DEF MCSpec

-----------------------------------------------------------------------------
(* What packets carry, unit by unit.                                       *)

\* f goes on from j to next[j] at the places of S, and is base at the others.
GoesOn(f, S, V, next, H, base) ==
  /\ f \in [Nat \ {0} -> V]
  /\ \A j \in Nat \ {0} : f[j] = IF j \in S THEN H[j][f[next[j]]] ELSE base

\* A recursion that goes on at the places of S, each time further up, ends.
LEMMA ForwardRecursion ==
  ASSUME NEW hi \in Nat, NEW S \in SUBSET (1 .. hi), NEW V, NEW base \in V,
         NEW next \in [S -> Nat], \A j \in S : next[j] > j,
         NEW H \in [S -> [V -> V]]
  PROVE  \E f : GoesOn(f, S, V, next, H, base)
<1> DEFINE Value(f, j) == IF j \in S THEN H[j][f[next[j]]] ELSE base
           P == { k \in 0 .. hi : \E f \in [Nat \ {0} -> V] :
                                    \A j \in Nat \ {0} : j > hi - k => f[j] = Value(f, j) }
<1>1. 0 \in P
  <2> DEFINE f == [j \in Nat \ {0} |-> base]
  <2>1. f \in [Nat \ {0} -> V] /\ \A j \in Nat \ {0} : j > hi - 0 => f[j] = Value(f, j)
    OBVIOUS
  <2> HIDE DEF f, Value
  <2>2. \E g \in [Nat \ {0} -> V] : \A j \in Nat \ {0} : j > hi - 0 => g[j] = Value(g, j)
    BY <2>1
  <2> QED BY <2>2
<1>2. ASSUME NEW k \in 0 .. hi - 1, k \in P PROVE k + 1 \in P
  <2> DEFINE d == hi - k
  <2>1. PICK f \in [Nat \ {0} -> V] : \A j \in Nat \ {0} : j > d => f[j] = Value(f, j)
    <3> HIDE DEF Value
    <3> QED BY <1>2
  <2> DEFINE v == Value(f, d)
             g == [j \in Nat \ {0} |-> IF j = d THEN v ELSE f[j]]
  <2>2. d \in Nat \ {0} /\ d \in 1 .. hi
    OBVIOUS
  <2>3. v \in V
    <3>1. CASE d \in S
      <4>1. next[d] \in Nat \ {0} /\ H[d] \in [V -> V]
        BY <2>2, <3>1
      <4> QED BY <3>1, <4>1
    <3>2. CASE d \notin S
      BY <3>2
    <3> QED BY <3>1, <3>2
  <2> HIDE DEF d
  <2>4. g \in [Nat \ {0} -> V] /\ g[d] = v /\ \A j \in Nat \ {0} : j # d => g[j] = f[j]
    <3> HIDE DEF v
    <3> QED BY <2>2, <2>3
  <2> HIDE DEF g, v
  <2>5. ASSUME NEW j \in Nat \ {0}, j >= d PROVE Value(g, j) = Value(f, j)
    <3>1. CASE j \in S
      <4>1. next[j] \in Nat \ {0} /\ next[j] # d
        BY <2>2, <2>5, <3>1
      <4> QED BY <2>4, <3>1, <4>1
    <3>2. CASE j \notin S
      BY <3>2
    <3> QED BY <3>1, <3>2
  <2>6. ASSUME NEW j \in Nat \ {0}, j > hi - (k + 1) PROVE g[j] = Value(g, j)
    <3>1. j >= d
      BY <2>6 DEF d
    <3>2. CASE j = d
      BY <2>2, <2>4, <2>5, <3>2 DEF v
    <3>3. CASE j # d
      <4>1. j > d
        BY <2>2, <3>1, <3>3
      <4> HIDE DEF Value
      <4> QED BY <2>1, <2>4, <2>5, <3>1, <3>3, <4>1
    <3> QED BY <3>2, <3>3
  <2>7. \E h \in [Nat \ {0} -> V] : \A j \in Nat \ {0} : j > hi - (k + 1) => h[j] = Value(h, j)
    <3> HIDE DEF Value
    <3> QED BY <2>4, <2>6
  <2>8. k + 1 \in 0 .. hi
    OBVIOUS
  <2> QED BY <2>7, <2>8
<1>3. hi \in P
  <2>1. P \in SUBSET (0 .. hi)
    OBVIOUS
  <2> HIDE DEF P
  <2> QED BY <1>1, <1>2, <2>1, UpwardInduction
<1>4. PICK f \in [Nat \ {0} -> V] : \A j \in Nat \ {0} : j > hi - hi => f[j] = Value(f, j)
  <2> HIDE DEF Value
  <2> QED BY <1>3
<1>5. \A j \in Nat \ {0} : f[j] = Value(f, j)
  <2> HIDE DEF Value
  <2> QED BY <1>4
<1> QED BY <1>5 DEF GoesOn

LEMMA ByteIsNat ==
  ASSUME NEW b \in Byte
  PROVE  b \in Nat /\ b < 256
BY DEF Byte

LEMMA SizeIsNat ==
  ASSUME NEW p \in Seq(Byte), NEW i \in Nat \ {0}, i + 1 <= Len(p)
  PROVE  Uint16(p, i) \in Nat
<1>1. i \in 1 .. Len(p) /\ i + 1 \in 1 .. Len(p)
  OBVIOUS
<1>2. p[i] \in Byte /\ p[i + 1] \in Byte
  BY <1>1, ElementOfSeq
<1>3. p[i] \in Nat /\ p[i + 1] \in Nat
  BY <1>2, ByteIsNat
<1> QED BY <1>3 DEF Uint16

\* Is the unit at byte i all there?
Short(p, i) == Len(p) < i + 1 \/ Len(p) < i + 1 + Uint16(p, i)

LEMMA UnitsUnfold ==
  ASSUME NEW p \in Seq(Byte), NEW i \in Nat \ {0}
  PROVE  Units(p, i) = IF Short(p, i) THEN <<>>
                       ELSE <<SubSeq(p, i + 2, (i + 2 + Uint16(p, i)) - 1)>> \o Units(p, i + 2 + Uint16(p, i))
<1> DEFINE V == Seq(Seq(Byte))
           S == { j \in 1 .. Len(p) : ~Short(p, j) }
           after(j) == j + 2 + Uint16(p, j)
           unit(j) == SubSeq(p, j + 2, after(j) - 1)
           next == [j \in S |-> after(j)]
           H == [j \in S |-> [v \in V |-> <<unit(j)>> \o v]]
           Body(f) == [j \in Nat \ {0} |->
                         IF Len(p) < j + 1 \/ Len(p) < j + 1 + Uint16(p, j) THEN <<>>
                         ELSE <<unit(j)>> \o f[after(j)]]
           q == CHOOSE f : f = Body(f)
<1>0. Len(p) \in Nat
  OBVIOUS
<1>1. ASSUME NEW j \in S
      PROVE  j \in Nat \ {0} /\ after(j) \in Nat \ {0} /\ after(j) > j /\ after(j) - 1 <= Len(p) /\ unit(j) \in Seq(Byte)
  <2>1. j \in Nat \ {0} /\ j + 1 <= Len(p) /\ ~Short(p, j)
    BY <1>0, <1>1 DEF Short
  <2>2. Uint16(p, j) \in Nat
    BY <2>1, SizeIsNat
  <2>3. after(j) - 1 <= Len(p)
    BY <1>0, <2>1, <2>2 DEF Short
  <2>4. \A k \in j + 2 .. after(j) - 1 : p[k] \in Byte
    BY <2>1, <2>2, <2>3, ElementOfSeq
  <2>5. unit(j) \in Seq(Byte)
    BY <2>1, <2>2, <2>4, SubSeqProperties
  <2> QED BY <2>1, <2>2, <2>3, <2>5
<1>2. \A j \in Nat \ {0} : j \in S <=> ~Short(p, j)
  BY <1>0 DEF Short
<1>3. PICK f : GoesOn(f, S, V, next, H, <<>>)
  <2>1. S \in SUBSET (1 .. Len(p)) /\ <<>> \in V
    OBVIOUS
  <2>2. next \in [S -> Nat] /\ \A j \in S : next[j] > j
    <3> HIDE DEF S, after
    <3> QED BY <1>1
  <2>3. H \in [S -> [V -> V]]
    <3>1. ASSUME NEW j \in S, NEW v \in V PROVE <<unit(j)>> \o v \in V
      <4>1. unit(j) \in Seq(Byte)
        BY <1>1
      <4> HIDE DEF unit, S
      <4> QED BY <4>1
    <3> HIDE DEF V, S, unit
    <3> QED BY <3>1
  <2> HIDE DEF S, V, next, H
  <2> QED BY <1>0, <2>1, <2>2, <2>3, ForwardRecursion
<1>4. f = Body(f)
  <2>1. ASSUME NEW j \in Nat \ {0}
        PROVE  f[j] = IF Len(p) < j + 1 \/ Len(p) < j + 1 + Uint16(p, j) THEN <<>> ELSE <<unit(j)>> \o f[after(j)]
    <3>1. CASE j \in S
      <4>1. f[after(j)] \in V
        <5> HIDE DEF V, S, after
        <5> QED BY <1>1, <1>3, <3>1 DEF GoesOn
      <4>2. f[j] = H[j][f[next[j]]] /\ next[j] = after(j)
        <5> HIDE DEF H, V, S, after
        <5> QED BY <1>3, <3>1 DEF GoesOn
      <4>3. H[j][f[after(j)]] = <<unit(j)>> \o f[after(j)]
        <5> HIDE DEF S, V, unit, after
        <5> QED BY <3>1, <4>1
      <4>4. ~(Len(p) < j + 1 \/ Len(p) < j + 1 + Uint16(p, j))
        <5> HIDE DEF S
        <5> QED BY <1>2, <3>1 DEF Short
      <4> HIDE DEF H, V, S, unit, after, next
      <4> QED BY <4>2, <4>3, <4>4
    <3>2. CASE j \notin S
      <4>1. Len(p) < j + 1 \/ Len(p) < j + 1 + Uint16(p, j)
        <5> HIDE DEF S
        <5> QED BY <1>2, <3>2 DEF Short
      <4> HIDE DEF H, V, S, unit, after, next
      <4> QED BY <1>3, <3>2, <4>1 DEF GoesOn
    <3> HIDE DEF H, V, S, unit, after, next
    <3> QED BY <3>1, <3>2
  <2> HIDE DEF V, unit, after
  <2> QED BY <1>3, <2>1 DEF GoesOn
<1>5. \A x : Units(p, x) = q[x]
  BY DEF Units
<1> HIDE DEF Body
<1>6. q = Body(q)
  BY <1>4
<1> HIDE DEF q
<1>7. q[i] = IF Len(p) < i + 1 \/ Len(p) < i + 1 + Uint16(p, i) THEN <<>> ELSE <<unit(i)>> \o q[after(i)]
  <2> HIDE DEF unit, after
  <2> QED BY <1>6 DEF Body
<1> QED BY <1>5, <1>7 DEF Short

LEMMA StartsUnfold ==
  ASSUME NEW p \in Seq(Byte), NEW i \in Nat \ {0}
  PROVE  H265Starts(p, i) = IF Len(p) < i + 2 THEN {} ELSE {i} \cup H265Starts(p, i + 2 + Uint16(p, i))
<1> DEFINE V == SUBSET Nat
           S == { j \in 1 .. Len(p) : j + 2 <= Len(p) }
           after(j) == j + 2 + Uint16(p, j)
           next == [j \in S |-> after(j)]
           H == [j \in S |-> [v \in V |-> {j} \cup v]]
           Body(f) == [j \in Nat \ {0} |-> IF Len(p) < j + 2 THEN {} ELSE {j} \cup f[after(j)]]
           q == CHOOSE f : f = Body(f)
<1>0. Len(p) \in Nat
  OBVIOUS
<1>1. ASSUME NEW j \in S
      PROVE  j \in Nat \ {0} /\ after(j) \in Nat \ {0} /\ after(j) > j
  <2>1. j \in Nat \ {0} /\ j + 1 <= Len(p)
    BY <1>0, <1>1
  <2>2. Uint16(p, j) \in Nat
    BY <2>1, SizeIsNat
  <2> QED BY <2>1, <2>2
<1>2. \A j \in Nat \ {0} : j \in S <=> ~(Len(p) < j + 2)
  BY <1>0
<1>3. PICK f : GoesOn(f, S, V, next, H, {})
  <2>1. S \in SUBSET (1 .. Len(p)) /\ {} \in V
    OBVIOUS
  <2>2. next \in [S -> Nat] /\ \A j \in S : next[j] > j
    <3> HIDE DEF S, after
    <3> QED BY <1>1
  <2>3. H \in [S -> [V -> V]]
    <3>1. ASSUME NEW j \in S, NEW v \in V PROVE {j} \cup v \in V
      BY <1>1
    <3> HIDE DEF V, S
    <3> QED BY <3>1
  <2> HIDE DEF S, V, next, H
  <2> QED BY <1>0, <2>1, <2>2, <2>3, ForwardRecursion
<1>4. f = Body(f)
  <2>1. ASSUME NEW j \in Nat \ {0}
        PROVE  f[j] = IF Len(p) < j + 2 THEN {} ELSE {j} \cup f[after(j)]
    <3>1. CASE j \in S
      <4>1. f[after(j)] \in V
        <5> HIDE DEF V, S, after
        <5> QED BY <1>1, <1>3, <3>1 DEF GoesOn
      <4>2. f[j] = H[j][f[next[j]]] /\ next[j] = after(j)
        <5> HIDE DEF H, V, S, after
        <5> QED BY <1>3, <3>1 DEF GoesOn
      <4>3. H[j][f[after(j)]] = {j} \cup f[after(j)]
        <5> HIDE DEF S, V, after
        <5> QED BY <3>1, <4>1
      <4> HIDE DEF H, V, S, after, next
      <4> QED BY <1>2, <3>1, <4>2, <4>3
    <3>2. CASE j \notin S
      <4> HIDE DEF H, V, S, after, next
      <4> QED BY <1>2, <1>3, <3>2 DEF GoesOn
    <3> HIDE DEF H, V, S, after, next
    <3> QED BY <3>1, <3>2
  <2> HIDE DEF V, after
  <2> QED BY <1>3, <2>1 DEF GoesOn
<1>5. \A x : H265Starts(p, x) = q[x]
  BY DEF H265Starts
<1> HIDE DEF Body
<1>6. q = Body(q)
  BY <1>4
<1> HIDE DEF q
<1>7. q[i] = IF Len(p) < i + 2 THEN {} ELSE {i} \cup q[after(i)]
  <2> HIDE DEF after
  <2> QED BY <1>6 DEF Body
<1> QED BY <1>5, <1>7

-----------------------------------------------------------------------------
(* Pieces one behind the other.                                            *)

\* t is the first n pieces one behind the other, and piece k ends with its byte ends[k].
Pieced(t, n, pieces, ends) ==
  /\ ends \in [0 .. n -> Nat]
  /\ ends[0] = 0 /\ ends[n] = Len(t)
  /\ \A k \in 1 .. n :
       /\ ends[k] = ends[k - 1] + Len(pieces[k])
       /\ \A x \in 1 .. Len(pieces[k]) : t[ends[k - 1] + x] = pieces[k][x]

LEMMA NeverFalls ==
  ASSUME NEW n \in Nat, NEW f \in [0 .. n -> Nat], \A k \in 1 .. n : f[k - 1] <= f[k],
         NEW i \in 0 .. n, NEW j \in i .. n
  PROVE  f[i] <= f[j]
<1> DEFINE P == { k \in 0 .. n : k < i \/ f[i] <= f[k] }
<1>1. 0 \in P
  OBVIOUS
<1>2. ASSUME NEW k \in 0 .. n - 1, k \in P PROVE k + 1 \in P
  <2>1. k + 1 \in 1 .. n /\ (k + 1) - 1 = k /\ k \in 0 .. n /\ k + 1 \in 0 .. n
    OBVIOUS
  <2>2. f[k] <= f[k + 1] /\ f[k] \in Nat /\ f[k + 1] \in Nat /\ f[i] \in Nat
    BY <2>1
  <2>3. k + 1 < i \/ k + 1 = i \/ ~(k < i)
    OBVIOUS
  <2> QED BY <1>2, <2>1, <2>2, <2>3
<1>3. P \in SUBSET (0 .. n)
  OBVIOUS
<1>4. j \in P
  <2> HIDE DEF P
  <2>1. j \in 0 .. n
    OBVIOUS
  <2> QED BY <1>1, <1>2, <1>3, <2>1, UpwardInduction
<1> QED BY <1>4

LEMMA OneMorePiece ==
  ASSUME NEW m \in Nat, NEW t \in Seq(Byte), NEW pieces, NEW ends, Pieced(t, m, pieces, ends),
         \A k \in 1 .. m + 1 : pieces[k] \in Seq(Byte)
  PROVE  \E more : Pieced(t \o pieces[m + 1], m + 1, pieces, more)
<1> DEFINE last == pieces[m + 1]
           u == t \o last
           more == [k \in 0 .. m + 1 |-> IF k = m + 1 THEN Len(u) ELSE ends[k]]
<1>1. /\ ends \in [0 .. m -> Nat] /\ ends[0] = 0 /\ ends[m] = Len(t)
      /\ \A k \in 1 .. m : ends[k] = ends[k - 1] + Len(pieces[k])
  BY DEF Pieced
<1>2. \A k \in 1 .. m : \A x \in 1 .. Len(pieces[k]) : t[ends[k - 1] + x] = pieces[k][x]
  BY DEF Pieced
<1>3. last \in Seq(Byte) /\ Len(last) \in Nat /\ Len(t) \in Nat
  OBVIOUS
<1>4. /\ u \in Seq(Byte) /\ Len(u) = Len(t) + Len(last)
      /\ \A i \in 1 .. Len(t) + Len(last) : u[i] = IF i <= Len(t) THEN t[i] ELSE last[i - Len(t)]
  <2> HIDE DEF last
  <2> QED BY <1>3, ConcatProperties
<1>5. \A k \in 1 .. m : Len(pieces[k]) \in Nat
  OBVIOUS
<1> HIDE DEF u
<1>6. more \in [0 .. m + 1 -> Nat] /\ more[0] = 0 /\ more[m + 1] = Len(u) /\ \A k \in 0 .. m : more[k] = ends[k]
  BY <1>1, <1>3, <1>4
<1> HIDE DEF more
<1>7. ASSUME NEW k \in 1 .. m + 1
      PROVE  /\ more[k] = more[k - 1] + Len(pieces[k])
             /\ \A x \in 1 .. Len(pieces[k]) : u[more[k - 1] + x] = pieces[k][x]
  <2>1. CASE k = m + 1
    <3>1. more[k - 1] = Len(t) /\ more[k] = Len(t) + Len(last)
      BY <1>1, <1>4, <1>6, <2>1
    <3>2. ASSUME NEW x \in 1 .. Len(last) PROVE u[Len(t) + x] = last[x]
      <4> HIDE DEF last
      <4>1. Len(t) + x \in 1 .. Len(t) + Len(last) /\ ~(Len(t) + x <= Len(t)) /\ (Len(t) + x) - Len(t) = x
        BY <1>3
      <4> QED BY <1>4, <4>1
    <3> QED BY <2>1, <3>1, <3>2
  <2>2. CASE k \in 1 .. m
    <3>1. k - 1 \in 0 .. m /\ k \in 0 .. m
      BY <2>2
    <3>2. more[k] = ends[k] /\ more[k - 1] = ends[k - 1] /\ ends[k - 1] \in Nat /\ ends[k] \in Nat
      BY <1>1, <1>6, <3>1
    <3>3. ends[k] = ends[k - 1] + Len(pieces[k]) /\ Len(pieces[k]) \in Nat
      BY <1>1, <1>5, <2>2
    <3>4. ends[k] <= Len(t)
      <4>1. ASSUME NEW j \in 1 .. m PROVE ends[j - 1] <= ends[j]
        <5>1. j - 1 \in 0 .. m /\ j \in 0 .. m
          OBVIOUS
        <5>2. ends[j - 1] \in Nat /\ ends[j] \in Nat
          BY <1>1, <5>1
        <5>3. ends[j] = ends[j - 1] + Len(pieces[j]) /\ Len(pieces[j]) \in Nat
          BY <1>1, <1>5
        <5> QED BY <5>2, <5>3
      <4>2. m \in k .. m
        BY <2>2
      <4>3. ends[k] <= ends[m]
        BY <1>1, <3>1, <4>1, <4>2, NeverFalls
      <4> QED BY <1>1, <4>3
    <3>5. ASSUME NEW x \in 1 .. Len(pieces[k]) PROVE u[ends[k - 1] + x] = pieces[k][x]
      <4>1. x \in Nat /\ 1 <= x /\ x <= Len(pieces[k])
        BY <3>3
      <4>2. ends[k - 1] + x \in 1 .. Len(t) + Len(last) /\ ends[k - 1] + x <= Len(t)
        <5> HIDE DEF last
        <5> QED BY <1>3, <3>2, <3>3, <3>4, <4>1
      <4>3. u[ends[k - 1] + x] = t[ends[k - 1] + x]
        BY <1>4, <4>2
      <4> QED BY <1>2, <2>2, <4>3
    <3> QED BY <3>2, <3>3, <3>5
  <2> QED BY <2>1, <2>2
<1>8. Pieced(u, m + 1, pieces, more)
  BY <1>6, <1>7 DEF Pieced
<1> QED BY <1>8 DEF u

LEMMA PiecesAreFlattened ==
  ASSUME NEW pieces \in Seq(Seq(Byte))
  PROVE  /\ FlattenSeq(pieces) \in Seq(Byte)
         /\ \E ends : Pieced(FlattenSeq(pieces), Len(pieces), pieces, ends)
<1> DEFINE n == Len(pieces)
<1>0. n \in Nat /\ \A k \in 1 .. n : pieces[k] \in Seq(Byte)
  OBVIOUS
<1>1. Pieced(<<>>, 0, pieces, [k \in 0 .. 0 |-> 0]) /\ <<>> \in Seq(Byte)
  BY DEF Pieced
<1>2. CASE n = 0
  <2>1. FlattenSeq(pieces) = <<>>
    BY <1>2 DEF FlattenSeq
  <2> QED BY <1>1, <1>2, <2>1
<1>3. CASE n # 0
  <2> DEFINE V == Seq(Byte)
             G == [i \in 1 .. n |-> [v \in V |-> v \o pieces[i]]]
             Body(f) == [i \in 1 .. n |-> IF i = 1 THEN pieces[i] ELSE f[i - 1] \o pieces[i]]
             q == CHOOSE f : f = Body(f)
  <2>1. PICK f : CountsUp(f, n, V, <<>>, G)
    <3>1. G \in [1 .. n -> [V -> V]] /\ <<>> \in V
      BY <1>0
    <3> HIDE DEF n, V, G
    <3> QED BY <1>0, <3>1, UpwardRecursion
  <2>2. ASSUME NEW i \in 1 .. n
        PROVE  f[i - 1] \in V /\ f[i] = f[i - 1] \o pieces[i]
    <3>1. f[i - 1] \in V /\ f[i] = G[i][f[i - 1]]
      <4> HIDE DEF n, V, G
      <4> QED BY <1>0, <2>1 DEF CountsUp
    <3> HIDE DEF n, V
    <3> QED BY <3>1
  <2> DEFINE g == [i \in 1 .. n |-> f[i]]
  <2>3. g = Body(g)
    <3>1. ASSUME NEW i \in 1 .. n PROVE f[i] = IF i = 1 THEN pieces[i] ELSE g[i - 1] \o pieces[i]
      <4>1. CASE i = 1
        <5>1. f[1 - 1] = <<>>
          BY <2>1 DEF CountsUp
        <5>2. f[1] = <<>> \o pieces[1] /\ pieces[1] \in Seq(Byte)
          BY <1>0, <2>2, <4>1, <5>1
        <5> QED BY <4>1, <5>2, ConcatEmptySeq
      <4>2. CASE i # 1
        <5>1. i - 1 \in 1 .. n
          BY <1>0, <4>2
        <5> HIDE DEF n, V
        <5> QED BY <2>2, <4>2, <5>1
      <4> QED BY <4>1, <4>2
    <3> HIDE DEF n, V
    <3> QED BY <3>1
  <2>4. FlattenSeq(pieces) = q[n]
    BY <1>3 DEF FlattenSeq
  <2> HIDE DEF Body
  <2>5. q = Body(q)
    BY <2>3
  <2> HIDE DEF q, g, G, n
  <2>6. \A i \in 1 .. n : q[i] = IF i = 1 THEN pieces[i] ELSE q[i - 1] \o pieces[i]
    BY <2>5 DEF Body
  <2> DEFINE P == { m \in 0 .. n : m = 0 \/ (q[m] \in V /\ \E ends : Pieced(q[m], m, pieces, ends)) }
  <2>7. 0 \in P
    BY <1>0
  <2>8. ASSUME NEW m \in 0 .. n - 1, m \in P PROVE m + 1 \in P
    <3> DEFINE t == IF m = 0 THEN <<>> ELSE q[m]
    <3>1. m \in Nat /\ m + 1 \in 1 .. n /\ m + 1 \in 0 .. n /\ (m + 1) - 1 = m
      BY <1>0
    <3>2. t \in Seq(Byte) /\ \E ends : Pieced(t, m, pieces, ends)
      BY <1>1, <2>8
    <3>3. q[m + 1] = t \o pieces[m + 1] /\ pieces[m + 1] \in Seq(Byte)
      <4>1. pieces[m + 1] \in Seq(Byte)
        BY <1>0, <3>1
      <4>2. <<>> \o pieces[m + 1] = pieces[m + 1]
        BY <4>1, ConcatEmptySeq
      <4>3. q[m + 1] = IF m + 1 = 1 THEN pieces[m + 1] ELSE q[(m + 1) - 1] \o pieces[m + 1]
        BY <2>6, <3>1
      <4>4. CASE m = 0
        <5>1. q[m + 1] = pieces[m + 1] /\ t = <<>>
          BY <4>3, <4>4
        <5> HIDE DEF t, P
        <5> QED BY <4>1, <4>2, <5>1
      <4>5. CASE m # 0
        <5>1. t = q[m]
          BY <4>5
        <5>2. ~(m + 1 = 1)
          BY <3>1, <4>5
        <5> HIDE DEF t, P
        <5>3. q[m + 1] = q[m] \o pieces[m + 1]
          BY <3>1, <4>3, <5>2
        <5> QED BY <4>1, <5>1, <5>3
      <4> QED BY <4>4, <4>5
    <3>4. \A k \in 1 .. m + 1 : pieces[k] \in Seq(Byte)
      <4>1. \A k \in 1 .. m + 1 : k \in 1 .. n
        BY <1>0, <3>1
      <4> QED BY <1>0, <4>1
    <3>5. t \o pieces[m + 1] \in Seq(Byte)
      BY <3>2, <3>3, ConcatProperties
    <3> HIDE DEF t
    <3>6. \E more : Pieced(t \o pieces[m + 1], m + 1, pieces, more)
      BY <3>1, <3>2, <3>4, OneMorePiece
    <3> QED BY <3>1, <3>3, <3>5, <3>6
  <2>9. n \in P
    <3>1. P \in SUBSET (0 .. n) /\ n \in 0 .. n
      BY <1>0
    <3> HIDE DEF P
    <3> QED BY <1>0, <2>7, <2>8, <3>1, UpwardInduction
  <2>10. q[n] \in V /\ \E ends : Pieced(q[n], n, pieces, ends)
    BY <1>3, <2>9
  <2> QED BY <2>4, <2>10 DEF n
<1> QED BY <1>2, <1>3

\* A packet p that was cut short after n bytes.
LEMMA CutBytes ==
  ASSUME NEW p \in Seq(Byte), NEW c \in 0 .. Len(p)
  PROVE  /\ SubSeq(p, 1, c) \in Seq(Byte) /\ Len(SubSeq(p, 1, c)) = c
         /\ \A i \in 1 .. c : SubSeq(p, 1, c)[i] = p[i]
<1>1. Len(p) \in Nat /\ c \in Nat /\ c <= Len(p)
  OBVIOUS
<1>2. \A i \in 1 .. c : p[i] \in Byte
  BY <1>1, ElementOfSeq
<1>3. /\ SubSeq(p, 1, c) \in Seq(Byte)
      /\ Len(SubSeq(p, 1, c)) = IF 1 <= c THEN c - 1 + 1 ELSE 0
      /\ \A i \in 1 .. c - 1 + 1 : SubSeq(p, 1, c)[i] = p[1 + i - 1]
  BY <1>1, <1>2, SubSeqProperties
<1>4. c - 1 + 1 = c /\ \A i \in 1 .. c : 1 + i - 1 = i
  BY <1>1
<1>5. Len(SubSeq(p, 1, c)) = c
  BY <1>1, <1>3
<1>6. \A i \in 1 .. c : SubSeq(p, 1, c)[i] = p[i]
  BY <1>3, <1>4
<1> QED BY <1>3, <1>5, <1>6

\* Its length fits into two bytes.
SizeFits(u) == Len(u) < 65536

LEMMA TwoBytes ==
  ASSUME NEW l \in Nat, l < 65536
  PROVE  l \div 256 \in Byte /\ l % 256 \in Byte /\ ((l \div 256) * 256) + (l % 256) = l
BY DEF Byte

LEMMA SizedBytes ==
  ASSUME NEW u \in Seq(Byte), SizeFits(u)
  PROVE  /\ Sized(u) \in Seq(Byte) /\ Len(Sized(u)) = 2 + Len(u)
         /\ Uint16(Sized(u), 1) = Len(u)
         /\ \A x \in 1 .. Len(u) : Sized(u)[2 + x] = u[x]
<1> DEFINE h == Len(u) \div 256
           l == Len(u) % 256
           s == <<h, l>>
<1>0. Len(u) \in Nat
  OBVIOUS
<1>1. h \in Byte /\ l \in Byte /\ (h * 256) + l = Len(u)
  BY <1>0, TwoBytes DEF SizeFits
<1> HIDE DEF h, l
<1>2. s \in Seq(Byte) /\ Len(s) = 2 /\ s[1] = h /\ s[2] = l
  BY <1>1
<1> HIDE DEF s
<1>3. /\ s \o u \in Seq(Byte) /\ Len(s \o u) = 2 + Len(u)
      /\ \A i \in 1 .. 2 + Len(u) : (s \o u)[i] = IF i <= 2 THEN s[i] ELSE u[i - 2]
  <2>1. /\ s \o u \in Seq(Byte) /\ Len(s \o u) = Len(s) + Len(u)
        /\ \A i \in 1 .. Len(s) + Len(u) : (s \o u)[i] = IF i <= Len(s) THEN s[i] ELSE u[i - Len(s)]
    BY <1>2, ConcatProperties
  <2>2. Len(s) = 2
    BY <1>2
  <2> QED BY <2>1, <2>2
<1>4. \A x \in 1 .. Len(u) : 2 + x \in 1 .. 2 + Len(u) /\ ~(2 + x <= 2) /\ (2 + x) - 2 = x
  BY <1>0
<1>5. 1 \in 1 .. 2 + Len(u) /\ 2 \in 1 .. 2 + Len(u) /\ 1 <= 2
  BY <1>0
<1>6. (s \o u)[1] = h /\ (s \o u)[1 + 1] = l /\ \A x \in 1 .. Len(u) : (s \o u)[2 + x] = u[x]
  BY <1>2, <1>3, <1>4, <1>5
<1>7. Uint16(s \o u, 1) = Len(u)
  BY <1>1, <1>6 DEF Uint16
<1>8. Sized(u) = s \o u
  BY DEF Sized, SizeBytes, s, h, l
<1> QED BY <1>3, <1>6, <1>7, <1>8

\* Sequences of bytes, and of units, of no concern to what is only arithmetic.
IsBytes(u) == u \in Seq(Byte)
AreUnits(units) ==
  /\ units \in Seq(Seq(Byte))
  /\ \A k \in 1 .. Len(units) : units[k] \in Seq(Byte) /\ Len(units[k]) \in Nat /\ SizeFits(units[k])

\* In packet p, from byte o[0] on, lie n units, each behind its size; unit k ends before byte o[k].
Laid(p, n, units, o) ==
  /\ o \in [0 .. n -> Nat \ {0}] /\ o[n] = Len(p) + 1
  /\ \A k \in 1 .. n :
       /\ o[k] = o[k - 1] + 2 + Len(units[k])
       /\ Uint16(p, o[k - 1]) = Len(units[k])
       /\ \A x \in 1 .. Len(units[k]) : p[o[k - 1] + 1 + x] = units[k][x]

\* Where a piece of 2 + l bytes lies, from byte h + e + 1 up to byte h + f.
LEMMA Places ==
  ASSUME NEW h \in Nat, NEW e \in Nat, NEW f \in Nat, NEW l \in Nat, NEW t \in Nat, f = e + (2 + l), f <= t
  PROVE  /\ h + 1 + f = (h + 1 + e) + 2 + l
         /\ h + 1 + e = h + e + 1 /\ (h + 1 + e) + 1 = h + e + 2
         /\ \A x \in 1 .. l : 2 + x \in 1 .. 2 + l /\ (h + 1 + e) + 1 + x = h + e + (2 + x)
         /\ \A x \in 1 .. 2 + l : /\ h + e + x \in 1 .. h + t /\ ~(h + e + x <= h)
                                  /\ (h + e + x) - h = e + x
OBVIOUS

\* An aggregation with its units one behind the other is laid out like this.
LEMMA AggregationLaid ==
  ASSUME NEW head, IsBytes(head), NEW units, AreUnits(units)
  PROVE  LET p == head \o FlattenSeq([k \in DOMAIN units |-> Sized(units[k])])
         IN /\ p \in Seq(Byte) /\ Len(head) <= Len(p)
            /\ \A i \in 1 .. Len(head) : p[i] = head[i]
            /\ \E o : o[0] = Len(head) + 1 /\ Laid(p, Len(units), units, o)
<1> DEFINE n == Len(units)
           pieces == [k \in DOMAIN units |-> Sized(units[k])]
           t == FlattenSeq(pieces)
           p == head \o t
<1>0. n \in Nat /\ DOMAIN units = 1 .. n /\ \A k \in 1 .. n : units[k] \in Seq(Byte) /\ SizeFits(units[k])
  BY DEF AreUnits
<1>1. \A k \in 1 .. n : Sized(units[k]) \in Seq(Byte)
  BY <1>0, SizedBytes
<1>2. pieces \in Seq(Seq(Byte)) /\ Len(pieces) = n /\ \A k \in 1 .. n : pieces[k] = Sized(units[k])
  <2> HIDE DEF n
  <2> QED BY <1>0, <1>1
<1> HIDE DEF pieces
<1>3. t \in Seq(Byte)
  BY <1>2, PiecesAreFlattened
<1>4. PICK ends : Pieced(t, n, pieces, ends)
  BY <1>2, PiecesAreFlattened
<1> HIDE DEF t, n
<1>5. /\ p \in Seq(Byte) /\ Len(p) = Len(head) + Len(t)
      /\ \A i \in 1 .. Len(head) + Len(t) : p[i] = IF i <= Len(head) THEN head[i] ELSE t[i - Len(head)]
  BY <1>3, ConcatProperties DEF IsBytes
<1> DEFINE h == Len(head)
           o == [k \in 0 .. n |-> h + 1 + ends[k]]
<1>6. h \in Nat /\ Len(t) \in Nat
  BY <1>3 DEF IsBytes
<1>7. ends \in [0 .. n -> Nat] /\ ends[0] = 0 /\ ends[n] = Len(t)
  BY <1>4 DEF Pieced
<1> HIDE DEF p
<1>8. o \in [0 .. n -> Nat \ {0}] /\ o[0] = h + 1 /\ o[n] = Len(p) + 1
  <2>1. 0 \in 0 .. n /\ n \in 0 .. n
    BY <1>0
  <2>2. Len(p) = h + Len(t)
    BY <1>5
  <2> HIDE DEF h
  <2>3. \A k \in 0 .. n : h + 1 + ends[k] \in Nat \ {0}
    BY <1>6, <1>7
  <2> QED BY <1>6, <1>7, <2>1, <2>2, <2>3
<1>9. ASSUME NEW k \in 1 .. n
      PROVE  /\ o[k] = o[k - 1] + 2 + Len(units[k])
             /\ Uint16(p, o[k - 1]) = Len(units[k])
             /\ \A x \in 1 .. Len(units[k]) : p[o[k - 1] + 1 + x] = units[k][x]
  <2>1. k \in 0 .. n /\ k - 1 \in 0 .. n
    BY <1>0
  <2>2. /\ ends[k] = ends[k - 1] + Len(pieces[k])
        /\ \A x \in 1 .. Len(pieces[k]) : t[ends[k - 1] + x] = pieces[k][x]
    BY <1>4 DEF Pieced
  <2>3. /\ pieces[k] \in Seq(Byte) /\ Len(pieces[k]) = 2 + Len(units[k])
        /\ Uint16(pieces[k], 1) = Len(units[k])
        /\ \A x \in 1 .. Len(units[k]) : pieces[k][2 + x] = units[k][x]
    BY <1>0, <1>2, SizedBytes
  <2>4. ends[k - 1] \in Nat /\ ends[k] \in Nat /\ Len(units[k]) \in Nat
    BY <1>0, <1>7, <2>1 DEF n, AreUnits
  <2>5. o[k] = h + 1 + ends[k] /\ o[k - 1] = h + 1 + ends[k - 1]
    BY <2>1
  <2> HIDE DEF o, h
  <2>6. ends[k] <= Len(t)
    <3>1. ASSUME NEW j \in 1 .. n PROVE ends[j - 1] <= ends[j]
      <4>1. j \in 0 .. n /\ j - 1 \in 0 .. n
        BY <1>0
      <4>2. ends[j] = ends[j - 1] + Len(pieces[j])
        BY <1>4 DEF Pieced
      <4>3. Len(pieces[j]) \in Nat
        BY <1>1, <1>2
      <4> QED BY <1>7, <4>1, <4>2, <4>3
    <3>2. n \in k .. n
      BY <1>0
    <3>3. ends[k] <= ends[n]
      BY <1>0, <1>7, <2>1, <3>1, <3>2, NeverFalls
    <3> QED BY <1>7, <3>3
  <2> DEFINE e == ends[k - 1]
             f == ends[k]
             l == Len(units[k])
             m == Len(t)
  <2>0. /\ h + 1 + f = (h + 1 + e) + 2 + l
        /\ h + 1 + e = h + e + 1 /\ (h + 1 + e) + 1 = h + e + 2
        /\ \A x \in 1 .. l : 2 + x \in 1 .. 2 + l /\ (h + 1 + e) + 1 + x = h + e + (2 + x)
        /\ \A x \in 1 .. 2 + l : /\ h + e + x \in 1 .. h + m /\ ~(h + e + x <= h)
                                 /\ (h + e + x) - h = e + x
    <3>1. h \in Nat /\ e \in Nat /\ f \in Nat /\ l \in Nat /\ m \in Nat /\ f = e + (2 + l) /\ f <= m
      BY <1>6, <2>2, <2>3, <2>4, <2>6
    <3> HIDE DEF e, f, l, m
    <3> QED BY <3>1, Places
  <2>7. ASSUME NEW x \in 1 .. 2 + Len(units[k])
        PROVE  p[h + ends[k - 1] + x] = pieces[k][x]
    <3>1. /\ h + ends[k - 1] + x \in 1 .. h + Len(t)
          /\ ~(h + ends[k - 1] + x <= h)
          /\ (h + ends[k - 1] + x) - h = ends[k - 1] + x
      BY <2>0
    <3>2. p[h + ends[k - 1] + x] = t[ends[k - 1] + x]
      BY <1>5, <3>1 DEF h
    <3> QED BY <2>2, <2>3, <3>2
  <2>8. o[k] = o[k - 1] + 2 + Len(units[k])
    BY <2>0, <2>5
  <2>9. Uint16(p, o[k - 1]) = Len(units[k])
    <3>1. p[h + ends[k - 1] + 1] = pieces[k][1] /\ p[h + ends[k - 1] + 2] = pieces[k][2]
      <4>1. 1 \in 1 .. 2 + Len(units[k]) /\ 2 \in 1 .. 2 + Len(units[k])
        BY <2>4
      <4> QED BY <2>7, <4>1
    <3>2. o[k - 1] = h + ends[k - 1] + 1 /\ o[k - 1] + 1 = h + ends[k - 1] + 2
      BY <2>0, <2>5
    <3>3. Uint16(pieces[k], 1) = (pieces[k][1] * 256) + pieces[k][2]
      BY DEF Uint16
    <3>4. Uint16(p, o[k - 1]) = (p[o[k - 1]] * 256) + p[o[k - 1] + 1]
      BY DEF Uint16
    <3> QED BY <2>3, <3>1, <3>2, <3>3, <3>4
  <2>10. ASSUME NEW x \in 1 .. Len(units[k]) PROVE p[o[k - 1] + 1 + x] = units[k][x]
    <3>1. 2 + x \in 1 .. 2 + Len(units[k]) /\ o[k - 1] + 1 + x = h + ends[k - 1] + (2 + x)
      BY <2>0, <2>5
    <3> QED BY <2>3, <2>7, <3>1
  <2> QED BY <2>8, <2>9, <2>10
<1> HIDE DEF o, h
<1>10. Laid(p, n, units, o)
  BY <1>8, <1>9, Zenon DEF Laid
<1>11. h <= Len(p) /\ \A i \in 1 .. h : p[i] = head[i]
  <2>1. \A i \in 1 .. h : i \in 1 .. h + Len(t) /\ i <= h
    BY <1>6
  <2> QED BY <1>5, <1>6, <2>1 DEF h
<1> QED BY <1>5, <1>8, <1>10, <1>11 DEF p, t, pieces, n, h

\* q is what is left of p when it is cut short after c bytes.
IsCut(q, p, c) ==
  /\ q \in Seq(Byte) /\ Len(q) = c /\ c \in 0 .. Len(p)
  /\ \A i \in 1 .. c : q[i] = p[i]

LEMMA CutsAreCuts ==
  ASSUME NEW p, IsBytes(p), NEW c \in 0 .. Len(p)
  PROVE  IsCut(SubSeq(p, 1, c), p, c)
BY CutBytes DEF IsBytes, IsCut

LEMMA UnitPlace ==
  ASSUME NEW p, IsBytes(p), NEW units, AreUnits(units), NEW o, Laid(p, Len(units), units, o),
         NEW k \in 1 .. Len(units)
  PROVE  /\ o[k - 1] \in Nat \ {0} /\ o[k] \in Nat \ {0} /\ Len(units[k]) \in Nat
         /\ o[k] = o[k - 1] + 2 + Len(units[k])
         /\ o[k] <= Len(p) + 1
<1> DEFINE n == Len(units)
<1>0. n \in Nat /\ \A j \in 1 .. n : Len(units[j]) \in Nat
  BY DEF AreUnits
<1>1. o \in [0 .. n -> Nat] /\ o \in [0 .. n -> Nat \ {0}] /\ o[n] = Len(p) + 1
  BY DEF Laid
<1>2. \A j \in 1 .. n : o[j] = o[j - 1] + 2 + Len(units[j])
  BY DEF Laid
<1> HIDE DEF n
<1>3. \A j \in 1 .. n : j \in 0 .. n /\ j - 1 \in 0 .. n
  BY <1>0
<1>4. k \in 1 .. n /\ n \in k .. n /\ k \in 0 .. n
  BY <1>0 DEF n
<1>5. \A j \in 1 .. n : o[j - 1] <= o[j]
  <2> TAKE j \in 1 .. n
  <2>1. o[j] \in Nat /\ o[j - 1] \in Nat /\ Len(units[j]) \in Nat /\ o[j] = o[j - 1] + 2 + Len(units[j])
    BY <1>0, <1>1, <1>2, <1>3
  <2> QED BY <2>1
<1>6. o[k] <= o[n]
  BY <1>0, <1>1, <1>4, <1>5, NeverFalls
<1> QED BY <1>0, <1>1, <1>2, <1>3, <1>4, <1>6

\* A unit is taken out of a packet that was cut short if it is all there.
LEMMA UnitInCut ==
  ASSUME NEW p, IsBytes(p), NEW units, AreUnits(units), NEW o, Laid(p, Len(units), units, o),
         NEW k \in 1 .. Len(units), NEW q, NEW c, IsCut(q, p, c)
  PROVE  /\ o[k] <= c + 1 => /\ ~Short(q, o[k - 1])
                             /\ o[k - 1] + 2 + Uint16(q, o[k - 1]) = o[k]
                             /\ SubSeq(q, o[k - 1] + 2, o[k] - 1) = units[k]
         /\ o[k - 1] + 1 <= c => Uint16(q, o[k - 1]) = Len(units[k])
         /\ ~(o[k] <= c + 1) => Short(q, o[k - 1])
<1> DEFINE a == o[k - 1]
           b == o[k]
           l == Len(units[k])
<1>1. a \in Nat \ {0} /\ b \in Nat \ {0} /\ l \in Nat /\ b = a + 2 + l /\ b <= Len(p) + 1
  BY UnitPlace
<1>2. Uint16(p, a) = l /\ \A x \in 1 .. l : p[a + 1 + x] = units[k][x]
  BY DEF Laid
<1>3. c \in Nat /\ Len(q) = c /\ \A i \in 1 .. c : q[i] = p[i]
  BY DEF IsCut, IsBytes
<1>4. q \in Seq(Byte) /\ units[k] \in Seq(Byte)
  BY DEF IsCut, AreUnits
<1> HIDE DEF a, b, l
<1>5. ASSUME a + 1 <= c PROVE Uint16(q, a) = l
  <2>1. a \in 1 .. c /\ a + 1 \in 1 .. c
    BY <1>1, <1>3, <1>5
  <2> QED BY <1>2, <1>3, <2>1 DEF Uint16
<1>6. ASSUME b <= c + 1
      PROVE  ~Short(q, a) /\ a + 2 + Uint16(q, a) = b /\ SubSeq(q, a + 2, b - 1) = units[k]
  <2>1. a + 1 <= c
    BY <1>1, <1>3, <1>6
  <2>2. Uint16(q, a) = l
    BY <1>5, <2>1
  <2>3. ~Short(q, a) /\ a + 2 + Uint16(q, a) = b
    BY <1>1, <1>3, <1>6, <2>1, <2>2 DEF Short
  <2> DEFINE s == SubSeq(q, a + 2, b - 1)
  <2>4. \A i \in a + 2 .. b - 1 : i \in 1 .. c
    BY <1>1, <1>3, <1>6
  <2>5. \A i \in a + 2 .. b - 1 : q[i] \in Byte
    BY <1>3, <1>4, <2>4, ElementOfSeq
  <2>6. /\ s \in Seq(Byte)
        /\ Len(s) = IF a + 2 <= b - 1 THEN (b - 1) - (a + 2) + 1 ELSE 0
        /\ \A i \in 1 .. (b - 1) - (a + 2) + 1 : s[i] = q[(a + 2) + i - 1]
    <3>1. a + 2 \in Int /\ b - 1 \in Int
      BY <1>1
    <3> QED BY <2>5, <3>1, SubSeqProperties
  <2> HIDE DEF s
  <2>7. (b - 1) - (a + 2) + 1 = l /\ (a + 2 <= b - 1 \/ l = 0)
    BY <1>1
  <2>8. Len(s) = l
    BY <1>1, <2>6, <2>7
  <2>9. ASSUME NEW x \in 1 .. l PROVE s[x] = units[k][x]
    <3>1. (a + 2) + x - 1 = a + 1 + x /\ a + 1 + x \in a + 2 .. b - 1
      BY <1>1
    <3>2. s[x] = q[a + 1 + x]
      BY <2>6, <2>7, <3>1
    <3>3. q[a + 1 + x] = p[a + 1 + x]
      BY <1>3, <2>4, <3>1
    <3> QED BY <1>2, <3>2, <3>3
  <2>10. s = units[k]
    <3>1. Len(s) = Len(units[k]) /\ \A x \in 1 .. Len(s) : s[x] = units[k][x]
      BY <2>8, <2>9 DEF l
    <3> QED BY <1>4, <2>6, <3>1, SeqEqual
  <2> QED BY <2>3, <2>10 DEF s
<1>7. ASSUME ~(b <= c + 1) PROVE Short(q, a)
  <2>1. CASE a + 1 <= c
    <3>1. Uint16(q, a) = l
      BY <1>5, <2>1
    <3> QED BY <1>1, <1>3, <1>7, <3>1 DEF Short
  <2>2. CASE ~(a + 1 <= c)
    BY <1>1, <1>3, <2>2 DEF Short
  <2> QED BY <2>1, <2>2
<1> QED BY <1>5, <1>6, <1>7 DEF a, b, l

\* The units found in a packet that was cut short are those that are all there.
LEMMA UnitsOfCut ==
  ASSUME NEW p, IsBytes(p), NEW units, AreUnits(units), NEW o, Laid(p, Len(units), units, o),
         NEW q, NEW c, IsCut(q, p, c)
  PROVE  \E m \in 0 .. Len(units) :
           /\ Units(q, o[0]) = SubSeq(units, 1, m)
           /\ \A k \in 1 .. m : o[k] <= c + 1
           /\ c = Len(p) => m = Len(units)
<1> DEFINE n == Len(units)
           Missing == { k \in 1 .. n : ~(o[k] <= c + 1) }
<1>0. n \in Nat /\ c \in Nat /\ Len(q) = c /\ q \in Seq(Byte) /\ c <= Len(p) /\ Len(p) \in Nat
  BY DEF AreUnits, IsCut, IsBytes
<1>1. PICK m \in 0 .. n : (\A k \in 1 .. m : o[k] <= c + 1) /\ (m < n => ~(o[m + 1] <= c + 1))
  <2> HIDE DEF n
  <2>1. CASE Missing = {}
    <3>1. n \in 0 .. n /\ \A k \in 1 .. n : o[k] <= c + 1
      BY <1>0, <2>1
    <3>2. ~(n < n)
      BY <1>0
    <3> QED BY <3>1, <3>2
  <2>2. CASE Missing # {}
    <3>1. PICK x \in Missing : \A y \in Missing : x <= y
      <4>1. Missing \in SUBSET Nat
        BY <1>0
      <4> HIDE DEF Missing
      <4> QED BY <2>2, <4>1, LeastElement
    <3>2. x \in 1 .. n /\ ~(o[x] <= c + 1) /\ x - 1 \in 0 .. n /\ (x - 1) + 1 = x
      BY <1>0, <3>1
    <3>3. \A k \in 1 .. x - 1 : o[k] <= c + 1
      BY <1>0, <3>1, <3>2
    <3> QED BY <3>2, <3>3
  <2> QED BY <2>1, <2>2
<1>2. m \in Nat /\ m <= n
  BY <1>0
<1>3. \A k \in 1 .. n : o[k] \in Nat \ {0} /\ o[k - 1] \in Nat \ {0} /\ o[k] <= Len(p) + 1
  BY UnitPlace
<1>4. o[n] = Len(p) + 1 /\ o[n] \in Nat \ {0}
  BY <1>0 DEF Laid
<1>5. c = Len(p) => m = n
  <2>1. ASSUME c = Len(p), m < n PROVE FALSE
    <3>1. m + 1 \in 1 .. n
      BY <1>0, <1>2, <2>1
    <3> QED BY <1>1, <1>3, <2>1, <3>1
  <2> QED BY <1>0, <1>2, <2>1
<1>7. o[m] \in Nat \ {0} /\ Short(q, o[m])
  <2>1. CASE m < n
    <3>1. m + 1 \in 1 .. n /\ (m + 1) - 1 = m
      BY <1>0, <1>2, <2>1
    <3> QED BY <1>1, <1>3, <2>1, <3>1, UnitInCut
  <2>2. CASE m = n
    BY <1>0, <1>4, <2>2 DEF Short
  <2> QED BY <1>0, <1>2, <2>1, <2>2
<1> DEFINE P == { j \in 0 .. m : Units(q, o[m - j]) = SubSeq(units, (m - j) + 1, m) }
<1> HIDE DEF n
<1>8. 0 \in P
  <2>1. Units(q, o[m]) = <<>>
    BY <1>0, <1>7, UnitsUnfold
  <2>2. SubSeq(units, m + 1, m) = <<>>
    BY <1>2, SubSeqEmpty
  <2>3. m - 0 = m /\ 0 \in 0 .. m
    BY <1>2
  <2> QED BY <2>1, <2>2, <2>3
<1>9. ASSUME NEW j \in 0 .. m - 1, j \in P PROVE j + 1 \in P
  <2> DEFINE k == m - j
  <2>1. k \in 1 .. m /\ k \in 1 .. n /\ m - (j + 1) = k - 1 /\ (k - 1) + 1 = k /\ j + 1 \in 0 .. m
    BY <1>0, <1>2
  <2>2. Units(q, o[k]) = SubSeq(units, k + 1, m)
    BY <1>9
  <2> HIDE DEF k
  <2>3. o[k - 1] \in Nat \ {0} /\ o[k] <= c + 1
    BY <1>1, <1>3, <2>1
  <2>4. /\ ~Short(q, o[k - 1]) /\ o[k - 1] + 2 + Uint16(q, o[k - 1]) = o[k]
        /\ SubSeq(q, o[k - 1] + 2, o[k] - 1) = units[k]
    BY <2>1, <2>3, UnitInCut DEF n
  <2>5. Units(q, o[k - 1]) = <<units[k]>> \o Units(q, o[k])
    BY <1>0, <2>3, <2>4, UnitsUnfold
  <2>6. SubSeq(units, k, m) = <<units[k]>> \o SubSeq(units, k + 1, m)
    <3>1. units \in Seq(Seq(Byte)) /\ k \in 1 .. Len(units) /\ m \in k .. Len(units)
      BY <1>0, <1>2, <2>1 DEF AreUnits, n
    <3> QED BY <3>1, SubSeqRecursiveFirst
  <2> QED BY <2>1, <2>2, <2>5, <2>6
<1>10. m \in P
  <2>1. P \in SUBSET (0 .. m) /\ m \in 0 .. m
    BY <1>2
  <2> HIDE DEF P
  <2> QED BY <1>2, <1>8, <1>9, <2>1, UpwardInduction
<1>11. Units(q, o[0]) = SubSeq(units, 1, m)
  <2>1. m - m = 0 /\ 0 + 1 = 1
    BY <1>2
  <2> QED BY <1>10, <2>1
<1> QED BY <1>1, <1>5, <1>11 DEF n

LEMMA WholeIsCut ==
  ASSUME NEW p, IsBytes(p)
  PROVE  IsCut(p, p, Len(p))
<1>1. Len(p) \in Nat /\ p \in Seq(Byte)
  BY DEF IsBytes
<1>2. Len(p) \in 0 .. Len(p)
  BY <1>1
<1> QED BY <1>1, <1>2 DEF IsCut

\* Units are found in a part of a packet as they are in the packet, as far as it goes.
Leads(a, b) ==
  /\ a \in Seq(Seq(Byte)) /\ b \in Seq(Seq(Byte))
  /\ DOMAIN a = 1 .. Len(a) /\ DOMAIN b = 1 .. Len(b) /\ Len(a) \in Nat /\ Len(b) \in Nat /\ Len(a) <= Len(b)
  /\ \A k \in 1 .. Len(a) : a[k] = b[k]

LEMMA NothingLeads ==
  ASSUME NEW b, b \in Seq(Seq(Byte))
  PROVE  Leads(<<>>, b)
<1>1. <<>> \in Seq(Seq(Byte)) /\ Len(<<>>) = 0 /\ DOMAIN <<>> = 1 .. 0 /\ 1 .. 0 = {}
  OBVIOUS
<1>2. Len(b) \in Nat /\ DOMAIN b = 1 .. Len(b)
  OBVIOUS
<1> QED BY <1>1, <1>2 DEF Leads

LEMMA OneMoreLeads ==
  ASSUME NEW a, NEW b, Leads(a, b), NEW u, IsBytes(u)
  PROVE  Leads(<<u>> \o a, <<u>> \o b)
<1> DEFINE h == <<u>>
<1>1. h \in Seq(Seq(Byte)) /\ Len(h) = 1
  BY DEF IsBytes
<1> HIDE DEF h
<1>2. /\ a \in Seq(Seq(Byte)) /\ b \in Seq(Seq(Byte)) /\ Len(a) \in Nat /\ Len(b) \in Nat /\ Len(a) <= Len(b)
      /\ \A k \in 1 .. Len(a) : a[k] = b[k]
  BY DEF Leads
<1>3. /\ h \o a \in Seq(Seq(Byte)) /\ Len(h \o a) = 1 + Len(a)
      /\ \A i \in 1 .. 1 + Len(a) : (h \o a)[i] = IF i <= 1 THEN h[i] ELSE a[i - 1]
  <2>1. /\ h \o a \in Seq(Seq(Byte)) /\ Len(h \o a) = Len(h) + Len(a)
        /\ \A i \in 1 .. Len(h) + Len(a) : (h \o a)[i] = IF i <= Len(h) THEN h[i] ELSE a[i - Len(h)]
    BY <1>1, <1>2, ConcatProperties
  <2> QED BY <1>1, <2>1
<1>4. /\ h \o b \in Seq(Seq(Byte)) /\ Len(h \o b) = 1 + Len(b)
      /\ \A i \in 1 .. 1 + Len(b) : (h \o b)[i] = IF i <= 1 THEN h[i] ELSE b[i - 1]
  <2>1. /\ h \o b \in Seq(Seq(Byte)) /\ Len(h \o b) = Len(h) + Len(b)
        /\ \A i \in 1 .. Len(h) + Len(b) : (h \o b)[i] = IF i <= Len(h) THEN h[i] ELSE b[i - Len(h)]
    BY <1>1, <1>2, ConcatProperties
  <2> QED BY <1>1, <2>1
<1>5. \A i \in 1 .. 1 + Len(a) : i \in 1 .. 1 + Len(b) /\ (~(i <= 1) => i - 1 \in 1 .. Len(a))
  BY <1>2
<1>6. \A i \in 1 .. 1 + Len(a) : (h \o a)[i] = (h \o b)[i]
  BY <1>2, <1>3, <1>4, <1>5
<1>7. /\ DOMAIN (h \o a) = 1 .. Len(h \o a) /\ DOMAIN (h \o b) = 1 .. Len(h \o b)
      /\ Len(h \o a) \in Nat /\ Len(h \o b) \in Nat /\ Len(h \o a) <= Len(h \o b)
  <2>1. DOMAIN (h \o a) = 1 .. Len(h \o a) /\ DOMAIN (h \o b) = 1 .. Len(h \o b)
    BY <1>3, <1>4, LenProperties
  <2> QED BY <1>2, <1>3, <1>4, <2>1
<1> QED BY <1>3, <1>4, <1>6, <1>7 DEF Leads, h

\* A unit that is all there in a part of a packet.
LEMMA UnitInPart ==
  ASSUME NEW p, IsBytes(p), NEW q, NEW c, IsCut(q, p, c), NEW i \in Nat \ {0}, ~Short(q, i)
  PROVE  /\ ~Short(p, i) /\ Uint16(q, i) = Uint16(p, i) /\ Uint16(p, i) \in Nat
         /\ SubSeq(q, i + 2, (i + 2 + Uint16(q, i)) - 1) = SubSeq(p, i + 2, (i + 2 + Uint16(p, i)) - 1)
         /\ IsBytes(SubSeq(p, i + 2, (i + 2 + Uint16(p, i)) - 1))
<1>1. c \in Nat /\ Len(q) = c /\ c <= Len(p) /\ Len(p) \in Nat /\ p \in Seq(Byte) /\ q \in Seq(Byte)
      /\ \A j \in 1 .. c : q[j] = p[j]
  BY DEF IsCut, IsBytes
<1>2. i + 1 <= c
  BY <1>1 DEF Short
<1>3. i \in 1 .. c /\ i + 1 \in 1 .. c
  BY <1>1, <1>2
<1>4. Uint16(q, i) = Uint16(p, i)
  BY <1>1, <1>3 DEF Uint16
<1> DEFINE l == Uint16(p, i)
<1>5. l \in Nat
  BY <1>1, <1>2, SizeIsNat
<1>6. i + 1 + l <= c /\ ~Short(p, i)
  BY <1>1, <1>2, <1>4, <1>5 DEF Short
<1> HIDE DEF l
<1> DEFINE f == i + 2
           g == (i + 2 + l) - 1
<1>7. f \in Int /\ g \in Int /\ \A j \in f .. g : j \in 1 .. c /\ j \in 1 .. Len(p)
  BY <1>1, <1>5, <1>6
<1>8. \A j \in f .. g : p[j] \in Byte /\ q[j] \in Byte /\ q[j] = p[j]
  BY <1>1, <1>7, ElementOfSeq
<1> HIDE DEF f, g
<1>9. /\ SubSeq(p, f, g) \in Seq(Byte) /\ SubSeq(q, f, g) \in Seq(Byte)
      /\ Len(SubSeq(p, f, g)) = Len(SubSeq(q, f, g))
      /\ Len(SubSeq(p, f, g)) = IF f <= g THEN g - f + 1 ELSE 0
      /\ \A x \in 1 .. g - f + 1 : SubSeq(p, f, g)[x] = p[f + x - 1] /\ SubSeq(q, f, g)[x] = q[f + x - 1]
  <2>1. /\ SubSeq(p, f, g) \in Seq(Byte) /\ Len(SubSeq(p, f, g)) = IF f <= g THEN g - f + 1 ELSE 0
        /\ \A x \in 1 .. g - f + 1 : SubSeq(p, f, g)[x] = p[f + x - 1]
    BY <1>7, <1>8, SubSeqProperties
  <2>2. /\ SubSeq(q, f, g) \in Seq(Byte) /\ Len(SubSeq(q, f, g)) = IF f <= g THEN g - f + 1 ELSE 0
        /\ \A x \in 1 .. g - f + 1 : SubSeq(q, f, g)[x] = q[f + x - 1]
    BY <1>7, <1>8, SubSeqProperties
  <2> QED BY <2>1, <2>2
<1>10. \A x \in 1 .. Len(SubSeq(p, f, g)) : SubSeq(q, f, g)[x] = SubSeq(p, f, g)[x]
  <2>1. \A x \in 1 .. Len(SubSeq(p, f, g)) : x \in 1 .. g - f + 1 /\ f + x - 1 \in f .. g
    BY <1>7, <1>9
  <2> QED BY <1>8, <1>9, <2>1
<1>11. SubSeq(q, f, g) = SubSeq(p, f, g)
  BY <1>9, <1>10, SeqEqual
<1> QED BY <1>4, <1>5, <1>6, <1>9, <1>11 DEF l, f, g, IsBytes

\* A unit that is all there in packet p, from byte i on.
WholeIn(p, i) ==
  /\ Uint16(p, i) \in Nat
  /\ IsBytes(SubSeq(p, i + 2, (i + 2 + Uint16(p, i)) - 1))

LEMMA UnitOfPacket ==
  ASSUME NEW p, IsBytes(p), NEW i \in Nat \ {0}, ~Short(p, i)
  PROVE  WholeIn(p, i)
<1>1. IsCut(p, p, Len(p))
  BY WholeIsCut
<1> QED BY <1>1, UnitInPart DEF WholeIn

LEMMA UnitsOfPart ==
  ASSUME NEW p, IsBytes(p), NEW q, NEW c, IsCut(q, p, c), NEW i \in Nat \ {0}
  PROVE  Leads(Units(q, i), Units(p, i))
<1> DEFINE n == Len(p)
           P == { k \in 0 .. n : \A j \in Nat \ {0} : j > n - k => Leads(Units(q, j), Units(p, j)) }
<1>0. n \in Nat /\ c \in Nat /\ Len(q) = c /\ c <= n /\ p \in Seq(Byte) /\ q \in Seq(Byte)
  BY DEF IsCut, IsBytes
<1>1. Leads(<<>>, <<>>)
  <2>1. <<>> \in Seq(Seq(Byte))
    OBVIOUS
  <2> QED BY <2>1, NothingLeads
<1> HIDE DEF n
<1>2. 0 \in P
  <2>1. ASSUME NEW j \in Nat \ {0}, j > n - 0 PROVE Leads(Units(q, j), Units(p, j))
    <3>1. Short(q, j) /\ Short(p, j)
      BY <1>0, <2>1 DEF Short, n
    <3>2. Units(q, j) = <<>> /\ Units(p, j) = <<>>
      BY <1>0, <3>1, UnitsUnfold
    <3> QED BY <1>1, <3>2
  <2>2. 0 \in 0 .. n
    BY <1>0
  <2> QED BY <2>1, <2>2
<1>3. ASSUME NEW k \in 0 .. n - 1, k \in P PROVE k + 1 \in P
  <2>1. \A j \in Nat \ {0} : j > n - k => Leads(Units(q, j), Units(p, j))
    BY <1>3
  <2>2. ASSUME NEW j \in Nat \ {0}, j > n - (k + 1) PROVE Leads(Units(q, j), Units(p, j))
    <3> DEFINE up == SubSeq(p, j + 2, (j + 2 + Uint16(p, j)) - 1)
               uq == SubSeq(q, j + 2, (j + 2 + Uint16(q, j)) - 1)
    <3>1. CASE Short(p, j)
      <4>1. Short(q, j)
        BY <3>1, UnitInPart
      <4>2. Units(q, j) = <<>> /\ Units(p, j) = <<>>
        BY <1>0, <3>1, <4>1, UnitsUnfold
      <4> QED BY <1>1, <4>2
    <3>2. CASE ~Short(p, j)
      <4>1. WholeIn(p, j)
        BY <3>2, UnitOfPacket
      <4> DEFINE z == j + 2 + Uint16(p, j)
      <4>2. z \in Nat \ {0} /\ z > n - k
        BY <1>0, <2>2, <4>1 DEF WholeIn
      <4>3. Leads(Units(q, z), Units(p, z))
        BY <2>1, <4>2
      <4>4. Units(p, j) = <<up>> \o Units(p, z)
        BY <1>0, <3>2, UnitsUnfold
      <4>5. IsBytes(up)
        BY <4>1 DEF WholeIn
      <4>6. CASE Short(q, j)
        <5>1. Units(q, j) = <<>>
          BY <1>0, <4>6, UnitsUnfold
        <5>2. Leads(<<up>> \o Units(q, z), Units(p, j))
          <6> HIDE DEF up, z
          <6> QED BY <4>3, <4>4, <4>5, OneMoreLeads
        <5>3. Units(p, j) \in Seq(Seq(Byte))
          BY <5>2 DEF Leads
        <5> QED BY <5>1, <5>3, NothingLeads
      <4>7. CASE ~Short(q, j)
        <5>1. Units(q, j) = <<uq>> \o Units(q, j + 2 + Uint16(q, j))
          BY <1>0, <4>7, UnitsUnfold
        <5>2. Uint16(q, j) = Uint16(p, j) /\ uq = up
          BY <4>7, UnitInPart
        <5>3. Units(q, j) = <<up>> \o Units(q, z)
          BY <5>1, <5>2
        <5> HIDE DEF up, z
        <5> QED BY <4>3, <4>4, <4>5, <5>3, OneMoreLeads
      <4> QED BY <4>6, <4>7
    <3> QED BY <3>1, <3>2
  <2>3. k + 1 \in 0 .. n
    BY <1>0
  <2> QED BY <2>2, <2>3
<1>4. n \in P
  <2>1. P \in SUBSET (0 .. n) /\ n \in 0 .. n
    BY <1>0
  <2> HIDE DEF P
  <2> QED BY <1>0, <1>2, <1>3, <2>1, UpwardInduction
<1>5. i > n - n
  BY <1>0
<1> QED BY <1>4, <1>5

LEMMA UnitsAreUnits ==
  ASSUME NEW p, IsBytes(p), NEW i \in Nat \ {0}
  PROVE  Units(p, i) \in Seq(Seq(Byte))
<1>1. IsCut(p, p, Len(p))
  BY WholeIsCut
<1> QED BY <1>1, UnitsOfPart DEF Leads

\* The units looked at in c bytes are the ones of n whose header is there.
StartsAre(q, o, n, c) ==
  /\ \A k \in 1 .. n : o[k - 1] + 2 <= c => o[k - 1] \in H265Starts(q, o[0])
  /\ \A j \in H265Starts(q, o[0]) : \E k \in 1 .. n : j = o[k - 1] /\ o[k - 1] + 2 <= c

\* The units looked at in a packet that was cut short are those whose header is there.
LEMMA StartsOfCut ==
  ASSUME NEW p, IsBytes(p), NEW units, AreUnits(units), NEW o, Laid(p, Len(units), units, o),
         NEW q, NEW c, IsCut(q, p, c)
  PROVE  StartsAre(q, o, Len(units), c)
<1> DEFINE n == Len(units)
           There(k) == { i \in k + 1 .. n : o[i - 1] + 2 <= c }
           Starts(k) == { o[i - 1] : i \in There(k) }
           P == { j \in 0 .. n : H265Starts(q, o[n - j]) = Starts(n - j) }
<1>0. n \in Nat /\ c \in Nat /\ Len(q) = c /\ q \in Seq(Byte) /\ c <= Len(p) /\ Len(p) \in Nat
  BY DEF AreUnits, IsCut, IsBytes
<1>1. \A k \in 1 .. n : /\ o[k] \in Nat \ {0} /\ o[k - 1] \in Nat \ {0} /\ o[k - 1] <= o[k]
                        /\ o[k - 1] + 2 + Len(units[k]) = o[k]
  <2> TAKE k \in 1 .. n
  <2>1. o[k] \in Nat \ {0} /\ o[k - 1] \in Nat \ {0} /\ Len(units[k]) \in Nat /\ o[k] = o[k - 1] + 2 + Len(units[k])
    BY UnitPlace
  <2> QED BY <2>1
<1>2. o[n] = Len(p) + 1 /\ o[n] \in Nat \ {0}
  BY <1>0 DEF Laid
<1>3. \A k \in 1 .. n : o[k - 1] + 1 <= c => Uint16(q, o[k - 1]) = Len(units[k])
  BY UnitInCut
<1> HIDE DEF n
<1>4. 0 \in P
  <2>1. H265Starts(q, o[n]) = {}
    BY <1>0, <1>2, StartsUnfold
  <2>2. Starts(n) = {}
    BY <1>0
  <2>3. n - 0 = n /\ 0 \in 0 .. n
    BY <1>0
  <2> HIDE DEF Starts
  <2> QED BY <2>1, <2>2, <2>3
<1>5. ASSUME NEW j \in 0 .. n - 1, j \in P PROVE j + 1 \in P
  <2> DEFINE k == n - j
  <2>1. k \in 1 .. n /\ n - (j + 1) = k - 1 /\ (k - 1) + 1 = k /\ j + 1 \in 0 .. n
    BY <1>0
  <2>2. H265Starts(q, o[k]) = Starts(k)
    BY <1>5
  <2> HIDE DEF k
  <2>3. o[k] \in Nat \ {0} /\ o[k - 1] \in Nat \ {0} /\ o[k - 1] <= o[k]
    BY <1>1, <2>1
  <2>4. CASE o[k - 1] + 2 <= c
    <3>1. Uint16(q, o[k - 1]) = Len(units[k])
      BY <1>0, <1>3, <2>1, <2>3, <2>4
    <3>2. o[k - 1] + 2 + Uint16(q, o[k - 1]) = o[k]
      BY <1>1, <2>1, <3>1
    <3>3. H265Starts(q, o[k - 1]) = {o[k - 1]} \cup H265Starts(q, o[k])
      <4>1. ~(Len(q) < o[k - 1] + 2)
        BY <1>0, <2>3, <2>4
      <4> QED BY <1>0, <2>3, <3>2, <4>1, StartsUnfold
    <3>4. There(k - 1) = {k} \cup There(k)
      BY <1>0, <2>1, <2>4
    <3> HIDE DEF There
    <3>5. Starts(k - 1) = {o[k - 1]} \cup Starts(k)
      BY <3>4
    <3> HIDE DEF Starts
    <3> QED BY <2>1, <2>2, <3>3, <3>5
  <2>5. CASE ~(o[k - 1] + 2 <= c)
    <3>1. H265Starts(q, o[k - 1]) = {} /\ H265Starts(q, o[k]) = {}
      <4>1. Len(q) < o[k - 1] + 2 /\ Len(q) < o[k] + 2
        BY <1>0, <2>3, <2>5
      <4> QED BY <1>0, <2>3, <4>1, StartsUnfold
    <3>2. There(k - 1) = There(k)
      BY <1>0, <2>1, <2>5
    <3> HIDE DEF There
    <3>3. Starts(k - 1) = Starts(k)
      BY <3>2
    <3> HIDE DEF Starts
    <3> QED BY <2>1, <2>2, <3>1, <3>3
  <2> QED BY <2>4, <2>5
<1>6. n \in P
  <2>1. P \in SUBSET (0 .. n) /\ n \in 0 .. n
    BY <1>0
  <2> HIDE DEF P
  <2> QED BY <1>0, <1>4, <1>5, <2>1, UpwardInduction
<1>7. H265Starts(q, o[0]) = Starts(0)
  <2>1. n - n = 0
    BY <1>0
  <2> HIDE DEF Starts
  <2> QED BY <1>6, <2>1
<1>8. ASSUME NEW k \in 1 .. n, o[k - 1] + 2 <= c PROVE o[k - 1] \in H265Starts(q, o[0])
  <2>1. k \in There(0)
    BY <1>0, <1>8
  <2> HIDE DEF There
  <2> QED BY <1>7, <2>1
<1>9. ASSUME NEW j \in H265Starts(q, o[0]) PROVE \E k \in 1 .. n : j = o[k - 1] /\ o[k - 1] + 2 <= c
  <2>1. PICK k \in There(0) : j = o[k - 1]
    <3> HIDE DEF There
    <3> QED BY <1>7, <1>9
  <2>2. k \in 1 .. n /\ o[k - 1] + 2 <= c
    BY <1>0, <2>1
  <2> QED BY <2>1, <2>2
<1> QED BY <1>8, <1>9 DEF n, StartsAre

-----------------------------------------------------------------------------
(* H.264.                                                                  *)

\* What a sender puts into packets: units of at least a byte and of a size that can be
\* announced; one unit unless they are aggregated.
\* The types of H.264's units end with 23, those of H.265's with 47.
Whole(units) ==
  /\ units \in Seq(Seq(Byte)) /\ Len(units) >= 1
  /\ DOMAIN units = 1 .. Len(units)
  /\ \A k \in 1 .. Len(units) : units[k] \in Seq(Byte) /\ units[k] # <<>>

Short7Bits(u) == Len(u) < 16384

Sent(s) ==
  /\ Whole(s.units)
  /\ s.codec \in {"h264", "h265"} => \A k \in 1 .. Len(s.units) : SizeFits(s.units[k])
  /\ s.codec = "h264" =>
       /\ s.form \in 24 .. 27 \/ Len(s.units) = 1
       /\ \A k \in 1 .. Len(s.units) : H264Type(s.units[k]) < 24
  /\ s.codec = "h265" =>
       /\ s.form = 48 \/ Len(s.units) = 1
       /\ \A k \in 1 .. Len(s.units) : Len(s.units[k]) >= 2 /\ H265Type(s.units[k][1]) < 48
  /\ s.codec = "av1" =>
       /\ s.form = Len(s.units) /\ s.form <= 3
       /\ \A k \in 1 .. Len(s.units) - 1 : Short7Bits(s.units[k])

LEMMA FirstIsOne ==
  ASSUME NEW ks \in SUBSET Nat, ks # {}
  PROVE  Min(ks) \in ks
<1>1. \E x \in ks : \A y \in ks : x =< y
  BY LeastElement
<1> QED BY <1>1 DEF Min

LEMMA FirstOfIs ==
  ASSUME NEW units, NEW ks \in SUBSET Nat, \A k \in ks : units[k] # <<>>
  PROVE  FirstOf(units, ks) # <<>> <=> ks # {}
BY FirstIsOne DEF FirstOf

\* Of a packet and of the same packet cut short.
LEMMA BytesOfCut ==
  ASSUME NEW p, IsBytes(p), NEW q, NEW c, IsCut(q, p, c)
  PROVE  /\ q \in Seq(Byte) /\ Len(q) = c /\ c \in Nat /\ c <= Len(p) /\ Len(p) \in Nat
         /\ q = <<>> <=> c = 0
         /\ c >= 1 => q[1] = p[1]
         /\ c >= 2 => q[2] = p[2]
<1>1. q \in Seq(Byte) /\ Len(q) = c /\ c \in 0 .. Len(p) /\ Len(p) \in Nat /\ \A i \in 1 .. c : q[i] = p[i]
  BY DEF IsCut, IsBytes
<1>2. q = <<>> <=> c = 0
  BY <1>1, EmptySeq
<1>3. c >= 1 => 1 \in 1 .. c
  BY <1>1
<1>4. c >= 2 => 2 \in 1 .. c
  BY <1>1
<1>5. c \in Nat /\ c <= Len(p)
  BY <1>1
<1>6. c >= 1 => q[1] = p[1]
  BY <1>1, <1>3
<1>7. c >= 2 => q[2] = p[2]
  BY <1>1, <1>4
<1> QED BY <1>1, <1>2, <1>5, <1>6, <1>7

LEMMA FirstBytes ==
  ASSUME NEW u \in Seq(Byte), u # <<>>
  PROVE  Len(u) \in Nat \ {0} /\ u[1] \in Byte
<1>1. Len(u) \in Nat \ {0}
  BY EmptySeq
<1>2. 1 \in 1 .. Len(u)
  BY <1>1
<1> QED BY <1>1, <1>2, ElementOfSeq

\* What an H.264 aggregation begins with, and where its units do.
LEMMA H264Numbers ==
  ASSUME NEW form \in 24 .. 27
  PROVE  /\ UnitOffset(form) \in Nat /\ UnitOffset(form) <= 4 /\ Len(Times(form)) = UnitOffset(form)
         /\ Times(form) \in Seq(Byte)
         /\ form \in {24, 25} => UnitOffset(form) = 0 /\ Times(form) = <<>>
         /\ (96 + form) % 32 = form /\ 96 + form \in Byte
         /\ FirstUnit(form) = IF form = 24 THEN 2 ELSE 4
         /\ form \in {24, 25} => 2 + (IF form = 25 THEN 2 ELSE UnitOffset(form)) = FirstUnit(form)
         /\ ~(form <= 23) /\ form # 7 /\ form # 28
<1>1. form = 24 \/ form = 25 \/ form = 26 \/ form = 27
  OBVIOUS
<1>2. 120 \in Byte /\ 121 \in Byte /\ 122 \in Byte /\ 123 \in Byte /\ 1 \in Byte
  BY DEF Byte
<1>3. /\ form = 26 /\ form # 27 => Times(form) = <<1, 1, 1>> /\ UnitOffset(form) = 3
      /\ form = 27 /\ form # 26 => Times(form) = <<1, 1, 1, 1>> /\ UnitOffset(form) = 4
      /\ form # 26 /\ form # 27 => Times(form) = <<>> /\ UnitOffset(form) = 0
  BY Zenon DEF Times, UnitOffset
<1>4. /\ Times(form) \in Seq(Byte) /\ Len(Times(form)) = UnitOffset(form)
      /\ UnitOffset(form) \in Nat /\ UnitOffset(form) <= 4
      /\ form \in {24, 25} => UnitOffset(form) = 0 /\ Times(form) = <<>>
  <2>1. CASE form = 26
    <3> DEFINE times == <<1, 1, 1>>
    <3>1. times \in Seq(Byte) /\ Len(times) = 3
      BY <1>2
    <3> HIDE DEF times
    <3>2. Times(form) = times /\ UnitOffset(form) = 3
      BY <1>3, <2>1 DEF times
    <3>3. Times(form) \in Seq(Byte) /\ Len(Times(form)) = UnitOffset(form)
      BY <3>1, <3>2, Zenon
    <3>4. UnitOffset(form) \in Nat /\ UnitOffset(form) <= 4 /\ form \notin {24, 25}
      BY <2>1, <3>2
    <3> QED BY <3>3, <3>4, Zenon
  <2>2. CASE form = 27
    <3> DEFINE times == <<1, 1, 1, 1>>
    <3>1. times \in Seq(Byte) /\ Len(times) = 4
      BY <1>2
    <3> HIDE DEF times
    <3>2. Times(form) = times /\ UnitOffset(form) = 4
      BY <1>3, <2>2 DEF times
    <3>3. Times(form) \in Seq(Byte) /\ Len(Times(form)) = UnitOffset(form)
      BY <3>1, <3>2, Zenon
    <3>4. UnitOffset(form) \in Nat /\ UnitOffset(form) <= 4 /\ form \notin {24, 25}
      BY <2>2, <3>2
    <3> QED BY <3>3, <3>4, Zenon
  <2>3. CASE form # 26 /\ form # 27
    <3>1. <<>> \in Seq(Byte) /\ Len(<<>>) = 0
      OBVIOUS
    <3>2. Times(form) = <<>> /\ UnitOffset(form) = 0
      BY <1>3, <2>3
    <3> QED BY <3>1, <3>2
  <2> QED BY <2>1, <2>2, <2>3
<1>5. FirstUnit(form) = IF form = 24 THEN 2 ELSE 4
  BY DEF FirstUnit
<1> QED BY <1>1, <1>2, <1>4, <1>5

\* The bytes in front of its first unit.
Opening(form) == <<96 + form>> \o (IF form = 24 THEN <<>> ELSE <<7, 7>>)

LEMMA H264Opening ==
  ASSUME NEW form \in 24 .. 27
  PROVE  /\ IsBytes(Opening(form)) /\ Len(Opening(form)) + 1 = FirstUnit(form)
         /\ Len(Opening(form)) >= 1 /\ Len(Opening(form)) \in Nat /\ Opening(form)[1] = 96 + form
<1> DEFINE head == Opening(form)
<1>1. 96 + form \in Byte /\ FirstUnit(form) = IF form = 24 THEN 2 ELSE 4
  BY H264Numbers
<1>2. 7 \in Byte
  BY DEF Byte
<1>3. CASE form = 24
  <2> DEFINE a == <<96 + form>>
  <2>1. head = a
    <3>1. a \o <<>> = a
      BY <1>1, ConcatEmptySeq
    <3> QED BY <1>3, <3>1 DEF Opening
  <2>2. a \in Seq(Byte) /\ Len(a) = 1 /\ a[1] = 96 + form
    BY <1>1
  <2>3. FirstUnit(form) = 2
    BY <1>1, <1>3
  <2> HIDE DEF a, head
  <2>4. IsBytes(head) /\ Len(head) = 1 /\ head[1] = 96 + form
    BY <2>1, <2>2 DEF IsBytes
  <2> QED BY <2>3, <2>4 DEF head
<1>4. CASE form # 24
  <2> DEFINE a == <<96 + form>>
             b == <<7, 7>>
  <2>1. head = a \o b
    BY <1>4 DEF Opening
  <2>2. a \in Seq(Byte) /\ b \in Seq(Byte) /\ Len(a) = 1 /\ Len(b) = 2 /\ a[1] = 96 + form
    BY <1>1, <1>2
  <2> HIDE DEF head, a, b
  <2>3. /\ a \o b \in Seq(Byte) /\ Len(a \o b) = Len(a) + Len(b)
        /\ \A i \in 1 .. Len(a) + Len(b) : (a \o b)[i] = IF i <= Len(a) THEN a[i] ELSE b[i - Len(a)]
    BY <2>2, ConcatProperties
  <2>4. Len(a \o b) = 3 /\ (a \o b)[1] = 96 + form
    BY <2>2, <2>3
  <2>5. FirstUnit(form) = 4
    BY <1>1, <1>4
  <2>6. IsBytes(head) /\ Len(head) = 3 /\ head[1] = 96 + form
    BY <2>1, <2>3, <2>4 DEF IsBytes
  <2> QED BY <2>5, <2>6 DEF head
<1> QED BY <1>3, <1>4

\* A unit behind its size and its times.
TimedUnit(u, times) == SizeBytes(u) \o times \o u

LEMMA H264Pieces ==
  ASSUME NEW s, Sent(s), s.codec = "h264", s.form \in 24 .. 27
  PROVE  Packet(s) = Opening(s.form) \o FlattenSeq([k \in DOMAIN s.units |-> TimedUnit(s.units[k], Times(s.form))])
<1>1. ~(s.codec = "h264" /\ s.form = 28) /\ ~(s.codec = "h265" /\ s.form = 48) /\ s.codec # "av1"
      /\ s.codec = "h264" /\ s.form \in 24 .. 27
  OBVIOUS
<1> QED BY <1>1, Zenon DEF Packet, TimedUnit, Opening

LEMMA TimedBytes ==
  ASSUME NEW u \in Seq(Byte), u # <<>>, SizeFits(u), NEW times \in Seq(Byte)
  PROVE  LET piece == TimedUnit(u, times)
         IN /\ piece \in Seq(Byte) /\ Len(piece) = 2 + Len(times) + Len(u)
            /\ Uint16(piece, 1) = Len(u)
            /\ piece[3 + Len(times)] = u[1]
            /\ times = <<>> => piece = Sized(u)
<1> DEFINE h == Len(u) \div 256
           l == Len(u) % 256
           s == <<h, l>>
           st == s \o times
           n == Len(times)
           m == Len(u)
<1>0. m \in Nat \ {0} /\ n \in Nat
  BY EmptySeq
<1>1. h \in Byte /\ l \in Byte /\ (h * 256) + l = m
  BY <1>0, TwoBytes DEF SizeFits
<1> HIDE DEF h, l
<1>2. s \in Seq(Byte) /\ Len(s) = 2 /\ s[1] = h /\ s[2] = l
  BY <1>1
<1> HIDE DEF s
<1>3. /\ st \in Seq(Byte) /\ Len(st) = 2 + n
      /\ \A i \in 1 .. 2 + n : st[i] = IF i <= 2 THEN s[i] ELSE times[i - 2]
  <2>1. /\ st \in Seq(Byte) /\ Len(st) = Len(s) + Len(times)
        /\ \A i \in 1 .. Len(s) + Len(times) : st[i] = IF i <= Len(s) THEN s[i] ELSE times[i - Len(s)]
    BY <1>2, ConcatProperties
  <2> QED BY <1>2, <2>1
<1>4. times = <<>> => st = s
  BY <1>2, ConcatEmptySeq
<1> HIDE DEF st, n, m
<1>5. /\ st \o u \in Seq(Byte) /\ Len(st \o u) = (2 + n) + m
      /\ \A i \in 1 .. (2 + n) + m : (st \o u)[i] = IF i <= 2 + n THEN st[i] ELSE u[i - (2 + n)]
  <2>1. /\ st \o u \in Seq(Byte) /\ Len(st \o u) = Len(st) + Len(u)
        /\ \A i \in 1 .. Len(st) + Len(u) : (st \o u)[i] = IF i <= Len(st) THEN st[i] ELSE u[i - Len(st)]
    BY <1>3, ConcatProperties
  <2> QED BY <1>3, <2>1 DEF m
<1>6. /\ 1 \in 1 .. (2 + n) + m /\ 2 \in 1 .. (2 + n) + m /\ 1 <= 2 + n /\ 2 <= 2 + n
      /\ 1 \in 1 .. 2 + n /\ 2 \in 1 .. 2 + n
      /\ 3 + n \in 1 .. (2 + n) + m /\ ~(3 + n <= 2 + n) /\ (3 + n) - (2 + n) = 1
  BY <1>0
<1>7. (st \o u)[1] = h /\ (st \o u)[2] = l /\ (st \o u)[3 + n] = u[1]
  BY <1>2, <1>3, <1>5, <1>6
<1>8. Uint16(st \o u, 1) = m
  <2>1. Uint16(st \o u, 1) = ((st \o u)[1] * 256) + (st \o u)[1 + 1]
    BY DEF Uint16
  <2>2. 1 + 1 = 2
    OBVIOUS
  <2> QED BY <1>1, <1>7, <2>1, <2>2, Zenon
<1>9. TimedUnit(u, times) = st \o u /\ (times = <<>> => TimedUnit(u, times) = Sized(u))
  BY <1>4 DEF TimedUnit, SizeBytes, Sized, st, s, h, l
<1> QED BY <1>5, <1>7, <1>8, <1>9 DEF n, m

\* The packet of an H.264 aggregation without times, laid out.
LEMMA H264Laid ==
  ASSUME NEW s, Sent(s), s.codec = "h264", s.form \in {24, 25}
  PROVE  LET p == Packet(s)
         IN /\ IsBytes(p) /\ Len(p) >= 1 /\ p[1] = 96 + s.form
            /\ AreUnits(s.units)
            /\ \E o : o[0] = FirstUnit(s.form) /\ Laid(p, Len(s.units), s.units, o)
<1> DEFINE form == s.form
           units == s.units
           head == Opening(form)
           p == Packet(s)
<1>1. form \in 24 .. 27 /\ Times(form) = <<>>
  BY H264Numbers
<1>2. DOMAIN units = 1 .. Len(units) /\ units \in Seq(Seq(Byte))
      /\ \A k \in 1 .. Len(units) : units[k] \in Seq(Byte) /\ units[k] # <<>> /\ SizeFits(units[k])
  BY DEF Sent, Whole
<1>3. AreUnits(units)
  <2> HIDE DEF units
  <2>1. \A k \in 1 .. Len(units) : Len(units[k]) \in Nat
    BY <1>2
  <2> QED BY <1>2, <2>1 DEF AreUnits
<1>4. p = head \o FlattenSeq([k \in DOMAIN units |-> Sized(units[k])])
  <2>1. \A k \in DOMAIN units : TimedUnit(units[k], Times(form)) = Sized(units[k])
    <3> HIDE DEF units, form
    <3>1. <<>> \in Seq(Byte)
      OBVIOUS
    <3> QED BY <1>1, <1>2, <3>1, TimedBytes
  <2>2. p = head \o FlattenSeq([k \in DOMAIN units |-> TimedUnit(units[k], Times(form))])
    BY <1>1, H264Pieces
  <2> HIDE DEF p, head, units, form
  <2>3. [k \in DOMAIN units |-> TimedUnit(units[k], Times(form))] = [k \in DOMAIN units |-> Sized(units[k])]
    BY <2>1
  <2> QED BY <2>2, <2>3
<1>5. IsBytes(head) /\ Len(head) + 1 = FirstUnit(form) /\ Len(head) >= 1 /\ Len(head) \in Nat /\ head[1] = 96 + form
  BY <1>1, H264Opening
<1> HIDE DEF p, head, units, form
<1>6. /\ IsBytes(p) /\ Len(head) <= Len(p) /\ \A i \in 1 .. Len(head) : p[i] = head[i]
      /\ \E o : o[0] = Len(head) + 1 /\ Laid(p, Len(units), units, o)
  BY <1>3, <1>4, <1>5, AggregationLaid DEF IsBytes
<1>7. Len(p) >= 1 /\ p[1] = 96 + form
  <2>1. Len(p) \in Nat
    BY <1>6 DEF IsBytes
  <2>2. 1 \in 1 .. Len(head)
    BY <1>5
  <2> QED BY <1>5, <1>6, <2>1, <2>2
<1> QED BY <1>3, <1>5, <1>6, <1>7 DEF p, units, form

\* The SPSs among the first m units.
SpsOf(units, m) == { k \in 1 .. m : H264Type(units[k]) = 7 }

\* However short the packet is cut, what is found is what is in its first m units.
LEMMA H264Found ==
  ASSUME NEW s, Sent(s), s.codec = "h264", s.form \in {24, 25},
         NEW q, NEW c, IsCut(q, Packet(s), c)
  PROVE  \E m \in 0 .. Len(s.units) :
           /\ IsH264KeyFrame(q) <=> SpsOf(s.units, m) # {}
           /\ H264Sps(q) = FirstOf(s.units, SpsOf(s.units, m))
           /\ c = Len(Packet(s)) => m = Len(s.units)
<1> DEFINE p == Packet(s)
           form == s.form
           offset == UnitOffset(form)
           units == s.units
           n == Len(s.units)
<1>0. form \in 24 .. 27 /\ form \in {24, 25}
  OBVIOUS
<1>1. /\ offset = 0 /\ (96 + form) % 32 = form
      /\ FirstUnit(form) \in Nat \ {0}
      /\ 2 + (IF form = 25 THEN 2 ELSE offset) = FirstUnit(form)
      /\ ~(form <= 23) /\ form # 7 /\ form # 28
  BY <1>0, H264Numbers
<1>2. /\ IsBytes(p) /\ Len(p) >= 1 /\ p[1] = 96 + form
      /\ AreUnits(units) /\ Len(units) = n
  BY H264Laid
<1>3. PICK o : o[0] = FirstUnit(form) /\ Laid(p, n, units, o)
  BY <1>2, H264Laid
<1> HIDE DEF p, form, units, offset, n
<1>4. IsCut(q, p, c)
  BY DEF p
<1>5. PICK m \in 0 .. n : /\ Units(q, FirstUnit(form)) = SubSeq(units, 1, m)
                          /\ c = Len(p) => m = n
  BY <1>2, <1>3, <1>4, UnitsOfCut
<1>6. /\ q \in Seq(Byte) /\ Len(q) = c /\ c \in Nat /\ (q = <<>> <=> c = 0)
      /\ c >= 1 => q[1] = p[1]
  BY <1>2, <1>4, BytesOfCut
<1>7. n \in Nat /\ \A k \in 1 .. n : units[k] # <<>> /\ Len(units[k]) > 0
  <2>1. n \in Nat /\ \A k \in 1 .. n : units[k] \in Seq(Byte) /\ units[k] # <<>>
    BY DEF n, units, Sent, Whole
  <2> QED BY <2>1, EmptySeq
<1>8. m \in Nat /\ m <= n
  BY <1>7
<1>9. /\ DOMAIN SubSeq(units, 1, m) = 1 .. m
      /\ \A k \in 1 .. m : SubSeq(units, 1, m)[k] = units[k]
  <2>1. units \in Seq(Seq(Byte)) /\ \A k \in 1 .. m : k \in 1 .. n
    BY <1>2, <1>8 DEF AreUnits
  <2>2. \A k \in 1 .. m : units[k] \in Seq(Byte)
    BY <1>2, <2>1 DEF AreUnits
  <2>3. /\ SubSeq(units, 1, m) \in Seq(Seq(Byte))
        /\ Len(SubSeq(units, 1, m)) = IF 1 <= m THEN m - 1 + 1 ELSE 0
        /\ \A k \in 1 .. m - 1 + 1 : SubSeq(units, 1, m)[k] = units[1 + k - 1]
    BY <1>8, <2>2, SubSeqProperties
  <2>4. Len(SubSeq(units, 1, m)) = m
    BY <1>8, <2>3
  <2>5. \A k \in 1 .. m : k \in 1 .. m - 1 + 1 /\ 1 + k - 1 = k
    BY <1>8
  <2>6. DOMAIN SubSeq(units, 1, m) = 1 .. m
    BY <2>3, <2>4, LenProperties
  <2> QED BY <2>3, <2>5, <2>6
<1>10. CASE q = <<>>
  <2>1. m = 0
    <3>1. Units(q, FirstUnit(form)) = <<>>
      <4>1. Short(q, FirstUnit(form))
        BY <1>1, <1>6, <1>10 DEF Short
      <4> QED BY <1>1, <1>6, <4>1, UnitsUnfold
    <3>2. 1 .. m = {}
      BY <1>5, <1>9, <3>1
    <3> QED BY <1>8, <3>2
  <2>2. SpsOf(units, m) = {}
    BY <2>1 DEF SpsOf
  <2>3. FirstOf(units, SpsOf(units, m)) = <<>>
    BY <2>2 DEF FirstOf
  <2>4. ~IsH264KeyFrame(q) /\ H264Sps(q) = <<>>
    BY <1>10 DEF IsH264KeyFrame, H264Sps
  <2> QED BY <1>5, <2>2, <2>3, <2>4 DEF p, n, units
<1>11. CASE q # <<>>
  <2>1. q[1] = 96 + form /\ H264Type(q) = form
    BY <1>1, <1>2, <1>6, <1>11 DEF H264Type
  <2> DEFINE found == Units(q, FirstUnit(form))
  <2>2. /\ DOMAIN found = 1 .. m
        /\ \A k \in 1 .. m : /\ found[k] = units[k] /\ found[k] # <<>> /\ Len(found[k]) > offset
                             /\ found[k][offset + 1] % 32 = H264Type(units[k])
    BY <1>1, <1>5, <1>7, <1>8, <1>9 DEF H264Type
  <2>3. IsH264KeyFrame(q) <=> \E k \in DOMAIN found : /\ \A j \in 1 .. k : Len(found[j]) > offset
                                                      /\ found[k][offset + 1] % 32 = 7
    BY <1>0, <1>1, <1>11, <2>1 DEF IsH264KeyFrame, offset
  <2>4. H264Sps(q) = FirstOf(found, {k \in DOMAIN found : found[k] # <<>> /\ H264Type(found[k]) = 7})
    <3>1. /\ q # <<>> /\ H264Type(q) # 7 /\ H264Type(q) # 28 /\ H264Type(q) \in 24 .. 27
          /\ 2 + (IF H264Type(q) = 25 THEN 2 ELSE UnitOffset(H264Type(q))) = FirstUnit(form)
      BY <1>0, <1>1, <1>11, <2>1 DEF offset
    <3> QED BY <3>1, Zenon DEF H264Sps
  <2> HIDE DEF found
  <2>5. IsH264KeyFrame(q) <=> SpsOf(units, m) # {}
    <3>1. \A k \in 1 .. m : \A j \in 1 .. k : j \in 1 .. m
      BY <1>8
    <3>2. IsH264KeyFrame(q) => SpsOf(units, m) # {}
      <4>1. SUFFICES ASSUME IsH264KeyFrame(q)
                     PROVE  SpsOf(units, m) # {}
        OBVIOUS
      <4>2. PICK k \in 1 .. m : found[k][offset + 1] % 32 = 7
        BY <2>2, <2>3, <4>1, Zenon
      <4>3. H264Type(units[k]) = 7
        BY <2>2, <4>2, Zenon
      <4> QED BY <4>2, <4>3, Zenon DEF SpsOf
    <3>3. ASSUME NEW k \in SpsOf(units, m)
          PROVE  IsH264KeyFrame(q)
      <4>1. k \in 1 .. m /\ H264Type(units[k]) = 7
        BY <3>3, Zenon DEF SpsOf
      <4>2. found[k][offset + 1] % 32 = 7
        BY <2>2, <4>1, Zenon
      <4>3. \A j \in 1 .. k : Len(found[j]) > offset
        BY <2>2, <3>1, <4>1, Zenon
      <4>4. k \in DOMAIN found
        BY <2>2, <4>1, Zenon
      <4> QED BY <2>3, <4>2, <4>3, <4>4, Zenon
    <3> QED BY <3>2, <3>3
  <2>6. H264Sps(q) = FirstOf(units, SpsOf(units, m))
    <3>1. {k \in DOMAIN found : found[k] # <<>> /\ H264Type(found[k]) = 7} = SpsOf(units, m)
      BY <2>2 DEF SpsOf
    <3>2. FirstOf(found, SpsOf(units, m)) = FirstOf(units, SpsOf(units, m))
      <4>1. CASE SpsOf(units, m) = {}
        BY <4>1 DEF FirstOf
      <4>2. CASE SpsOf(units, m) # {}
        <5>1. SpsOf(units, m) \in SUBSET Nat /\ SpsOf(units, m) \in SUBSET (1 .. m)
          BY <1>8 DEF SpsOf
        <5>2. Min(SpsOf(units, m)) \in 1 .. m
          BY <4>2, <5>1, FirstIsOne
        <5> QED BY <2>2, <4>2, <5>2 DEF FirstOf
      <4> QED BY <4>1, <4>2
    <3> QED BY <2>4, <3>1, <3>2
  <2> QED BY <1>5, <2>5, <2>6 DEF p, n, units
<1> QED BY <1>10, <1>11

\* The types of the bytes that a fragment begins with.
LEMMA FragmentBytes ==
  ASSUME NEW b \in Byte, b % 32 < 24
  PROVE  /\ ((b \div 32) * 32) + 28 \in Byte /\ 128 + (b % 32) \in Byte
         /\ (((b \div 32) * 32) + 28) % 32 = 28
         /\ (((((b \div 32) * 32) + 28) \div 32) * 32) + 7 = ((b \div 32) * 32) + 7
         /\ 128 + (b % 32) >= 128 /\ (128 + (b % 32)) % 32 = b % 32
         /\ b % 32 = 7 => ((b \div 32) * 32) + 7 = b
<1>1. b \in Nat /\ b < 256
  BY ByteIsNat
<1> DEFINE h == b \div 32
           t == b % 32
<1>2. h \in Nat /\ t \in Nat /\ h < 8 /\ b = (h * 32) + t /\ t < 24
  BY <1>1
<1> HIDE DEF h, t
<1>3. (h * 32) + 28 \in Byte /\ 128 + t \in Byte
  BY <1>2 DEF Byte
<1>4. ((h * 32) + 28) % 32 = 28 /\ ((h * 32) + 28) \div 32 = h
  BY <1>2
<1>5. 128 + t >= 128 /\ (128 + t) % 32 = t
  BY <1>2
<1>6. t = 7 => (h * 32) + 7 = b
  BY <1>2
<1> QED BY <1>3, <1>4, <1>5, <1>6 DEF h, t


LEMMA H264Fragment ==
  ASSUME NEW s, Sent(s), s.codec = "h264", s.form = 28,
         NEW q, NEW c, IsCut(q, Packet(s), c)
  PROVE  /\ IsH264KeyFrame(q) => H264Type(s.units[1]) = 7
         /\ IsH264KeyFrame(q) <=> H264Sps(q) # <<>>
         /\ c = Len(Packet(s)) =>
              /\ IsH264KeyFrame(q) <=> H264Type(s.units[1]) = 7
              /\ H264Sps(q) = IF H264Type(s.units[1]) = 7 THEN s.units[1] ELSE <<>>
<1> DEFINE u == s.units[1]
           b == u[1]
           head == <<((b \div 32) * 32) + 28, 128 + H264Type(u)>>
           p == Packet(s)
<1>1. u \in Seq(Byte) /\ u # <<>> /\ H264Type(u) < 24
  BY DEF Sent, Whole
<1>2. p = head \o Tail(u)
  BY DEF Packet
<1>3. IsCut(q, p, c)
  OBVIOUS
<1> HIDE DEF p, u
<1>4. Len(u) \in Nat \ {0} /\ b \in Byte /\ Tail(u) \in Seq(Byte) /\ Len(Tail(u)) = Len(u) - 1
      /\ \A i \in 1 .. Len(Tail(u)) : Tail(u)[i] = u[i + 1]
  BY <1>1, FirstBytes, HeadTailProperties
<1>5. b % 32 = H264Type(u)
  BY DEF H264Type
<1>6. /\ ((b \div 32) * 32) + 28 \in Byte /\ 128 + H264Type(u) \in Byte
      /\ (((b \div 32) * 32) + 28) % 32 = 28
      /\ (((((b \div 32) * 32) + 28) \div 32) * 32) + 7 = ((b \div 32) * 32) + 7
      /\ 128 + H264Type(u) >= 128 /\ (128 + H264Type(u)) % 32 = H264Type(u)
      /\ H264Type(u) = 7 => ((b \div 32) * 32) + 7 = b
  BY <1>1, <1>4, <1>5, FragmentBytes
<1>7. head \in Seq(Byte) /\ Len(head) = 2 /\ head[1] = ((b \div 32) * 32) + 28 /\ head[2] = 128 + H264Type(u)
  BY <1>6
<1> HIDE DEF b, head
<1>8. /\ p \in Seq(Byte) /\ Len(p) = 2 + Len(Tail(u))
      /\ p[1] = head[1] /\ p[2] = head[2]
      /\ \A i \in 1 .. Len(Tail(u)) : p[2 + i] = Tail(u)[i]
  <2>1. /\ head \o Tail(u) \in Seq(Byte) /\ Len(head \o Tail(u)) = Len(head) + Len(Tail(u))
        /\ \A i \in 1 .. Len(head) + Len(Tail(u)) :
             (head \o Tail(u))[i] = IF i <= Len(head) THEN head[i] ELSE Tail(u)[i - Len(head)]
    BY <1>4, <1>7, ConcatProperties
  <2>2. Len(Tail(u)) \in Nat
    BY <1>4
  <2>3. /\ 1 \in 1 .. 2 + Len(Tail(u)) /\ 2 \in 1 .. 2 + Len(Tail(u))
        /\ \A i \in 1 .. Len(Tail(u)) : 2 + i \in 1 .. 2 + Len(Tail(u)) /\ ~(2 + i <= 2) /\ (2 + i) - 2 = i
    BY <2>2
  <2> QED BY <1>2, <1>7, <2>1, <2>3
<1>9. /\ q \in Seq(Byte) /\ Len(q) = c /\ c \in Nat /\ (q = <<>> <=> c = 0)
      /\ c >= 1 => q[1] = p[1]
      /\ c >= 2 => q[2] = p[2]
  BY <1>3, <1>8, BytesOfCut DEF IsBytes
<1>10. CASE c < 2
  <2>1. ~IsH264KeyFrame(q)
    <3>1. CASE q = <<>>
      BY <3>1 DEF IsH264KeyFrame
    <3>2. CASE q # <<>>
      <4>1. H264Type(q) = 28 /\ ~(Len(q) >= 2)
        BY <1>6, <1>7, <1>8, <1>9, <1>10, <3>2 DEF H264Type
      <4>2. ~(H264Type(q) <= 23) /\ H264Type(q) \notin 24 .. 27
        BY <4>1
      <4> QED BY <4>1, <4>2, Zenon DEF IsH264KeyFrame
    <3> QED BY <3>1, <3>2
  <2>2. H264Sps(q) = <<>>
    <3>1. CASE q = <<>>
      BY <3>1 DEF H264Sps
    <3>2. CASE q # <<>>
      <4>1. H264Type(q) = 28 /\ ~(Len(q) >= 2)
        BY <1>6, <1>7, <1>8, <1>9, <1>10, <3>2 DEF H264Type
      <4>2. H264Type(q) # 7 /\ H264Type(q) \notin 24 .. 27
        BY <4>1
      <4> QED BY <3>2, <4>1, <4>2, Zenon DEF H264Sps
    <3> QED BY <3>1, <3>2
  <2>3. c # Len(p)
    BY <1>4, <1>8, <1>10
  <2> QED BY <2>1, <2>2, <2>3 DEF p
<1>11. CASE c >= 2
  <2>1. q # <<>> /\ H264Type(q) = 28 /\ Len(q) >= 2 /\ q[2] >= 128 /\ q[2] % 32 = H264Type(u)
        /\ ((q[1] \div 32) * 32) + 7 = ((b \div 32) * 32) + 7
    BY <1>6, <1>7, <1>8, <1>9, <1>11 DEF H264Type
  <2>2. H264Type(q) # 7 /\ H264Type(q) \notin 24 .. 27 /\ ~(H264Type(q) <= 23) /\ H264Type(q) \in {28, 29}
    BY <2>1
  <2>3. IsH264KeyFrame(q) <=> H264Type(u) = 7
    BY <2>1, <2>2, Zenon DEF IsH264KeyFrame
  <2>4. ASSUME H264Type(u) # 7 PROVE H264Sps(q) = <<>>
    BY <2>1, <2>2, <2>4, Zenon DEF H264Sps
  <2>5. ASSUME H264Type(u) = 7 PROVE H264Sps(q) = <<b>> \o From(q, 3)
    <3>1. H264Sps(q) = <<((q[1] \div 32) * 32) + 7>> \o From(q, 3)
      BY <2>1, <2>2, <2>5, Zenon DEF H264Sps
    <3> QED BY <1>6, <2>1, <2>5, <3>1
  <2>6. From(q, 3) \in Seq(Byte) /\ Len(From(q, 3)) = c - 2
        /\ \A i \in 1 .. c - 2 : From(q, 3)[i] = q[2 + i]
    <3>1. \A i \in 3 .. c : q[i] \in Byte
      <4>1. \A i \in 3 .. c : i \in 1 .. Len(q)
        BY <1>9
      <4> QED BY <1>9, <4>1, ElementOfSeq
    <3>2. /\ SubSeq(q, 3, c) \in Seq(Byte)
          /\ Len(SubSeq(q, 3, c)) = IF 3 <= c THEN c - 3 + 1 ELSE 0
          /\ \A i \in 1 .. c - 3 + 1 : SubSeq(q, 3, c)[i] = q[3 + i - 1]
      BY <1>9, <3>1, SubSeqProperties
    <3>3. c - 3 + 1 = c - 2 /\ \A i \in 1 .. c - 2 : 3 + i - 1 = 2 + i
      BY <1>9
    <3>4. From(q, 3) = SubSeq(q, 3, c)
      BY <1>9 DEF From
    <3>5. Len(SubSeq(q, 3, c)) = c - 2
      BY <1>9, <1>11, <3>2
    <3> QED BY <3>2, <3>3, <3>4, <3>5
  <2>7. /\ <<b>> \o From(q, 3) \in Seq(Byte) /\ Len(<<b>> \o From(q, 3)) = 1 + (c - 2)
        /\ \A i \in 1 .. 1 + (c - 2) :
             (<<b>> \o From(q, 3))[i] = IF i <= 1 THEN b ELSE From(q, 3)[i - 1]
    <3> DEFINE d == <<b>>
    <3>1. b \in Byte
      BY <1>4 DEF b
    <3>2. d \in Seq(Byte) /\ Len(d) = 1 /\ d[1] = b
      BY <3>1
    <3> HIDE DEF d
    <3>3. /\ d \o From(q, 3) \in Seq(Byte) /\ Len(d \o From(q, 3)) = Len(d) + Len(From(q, 3))
          /\ \A i \in 1 .. Len(d) + Len(From(q, 3)) :
               (d \o From(q, 3))[i] = IF i <= Len(d) THEN d[i] ELSE From(q, 3)[i - Len(d)]
      BY <2>6, <3>2, ConcatProperties
    <3>4. ASSUME NEW i \in 1 .. 1 + (c - 2)
          PROVE  (d \o From(q, 3))[i] = IF i <= 1 THEN b ELSE From(q, 3)[i - 1]
      <4>1. i <= 1 => i = 1
        BY <1>9
      <4> QED BY <2>6, <3>2, <3>3, <4>1
    <3> QED BY <2>6, <3>2, <3>3, <3>4 DEF d
  <2>8. <<b>> \o From(q, 3) # <<>>
    <3>1. Len(<<b>> \o From(q, 3)) # 0
      BY <1>9, <1>11, <2>7
    <3> QED BY <3>1, EmptySeq
  <2>9. ASSUME c = Len(p) PROVE <<b>> \o From(q, 3) = u
    <3>1. Len(u) = 1 + (c - 2) /\ Len(Tail(u)) = c - 2
      BY <1>4, <1>8, <2>9
    <3>2. ASSUME NEW i \in 1 .. 1 + (c - 2) PROVE (<<b>> \o From(q, 3))[i] = u[i]
      <4>1. CASE i <= 1
        <5>1. i = 1
          BY <1>9, <4>1
        <5> QED BY <2>7, <4>1, <5>1 DEF b
      <4>2. CASE ~(i <= 1)
        <5>1. i - 1 \in 1 .. c - 2 /\ 2 + (i - 1) \in 1 .. c /\ (i - 1) + 1 = i
          BY <1>9, <4>2
        <5>2. From(q, 3)[i - 1] = q[2 + (i - 1)]
          BY <2>6, <5>1
        <5>3. q[2 + (i - 1)] = p[2 + (i - 1)]
          BY <1>3, <5>1 DEF IsCut
        <5>4. p[2 + (i - 1)] = Tail(u)[i - 1] /\ Tail(u)[i - 1] = u[(i - 1) + 1]
          BY <1>4, <1>8, <3>1, <5>1
        <5> QED BY <2>7, <4>2, <5>1, <5>2, <5>3, <5>4
      <4> QED BY <4>1, <4>2
    <3> HIDE DEF b
    <3> QED BY <1>1, <2>7, <3>1, <3>2, SeqEqual
  <2> QED BY <2>3, <2>4, <2>5, <2>8, <2>9 DEF p, u
<1> QED BY <1>9, <1>10, <1>11

LEMMA H264Single ==
  ASSUME NEW s, Sent(s), s.codec = "h264", s.form \notin 24 .. 28,
         NEW q, NEW c, IsCut(q, Packet(s), c)
  PROVE  /\ Packet(s) = s.units[1]
         /\ IsH264KeyFrame(q) <=> c # 0 /\ H264Type(s.units[1]) = 7
         /\ H264Sps(q) = IF c # 0 /\ H264Type(s.units[1]) = 7 THEN q ELSE <<>>
         /\ q = <<>> <=> c = 0
<1> DEFINE u == s.units[1]
<1>1. u \in Seq(Byte) /\ u # <<>> /\ H264Type(u) < 24
  BY DEF Sent, Whole
<1>2. Packet(s) = u
  <2>1. ~(s.codec = "h264" /\ s.form \in 24 .. 27) /\ ~(s.codec = "h264" /\ s.form = 28)
        /\ ~(s.codec = "h265" /\ s.form = 48) /\ s.codec # "av1"
    OBVIOUS
  <2> QED BY <2>1, Zenon DEF Packet
<1> HIDE DEF u
<1>3. H264Type(u) \in Nat
  <2>1. u[1] \in Nat
    BY <1>1, FirstBytes, ByteIsNat
  <2> QED BY <2>1 DEF H264Type
<1>4. /\ q \in Seq(Byte) /\ Len(q) = c /\ c \in Nat /\ (q = <<>> <=> c = 0)
      /\ c >= 1 => q[1] = u[1]
  BY <1>1, <1>2, BytesOfCut DEF IsBytes
<1>5. CASE c = 0
  BY <1>1, <1>2, <1>4, <1>5 DEF IsH264KeyFrame, H264Sps, u
<1>6. CASE c # 0
  <2>1. q # <<>> /\ H264Type(q) = H264Type(u)
    BY <1>4, <1>6 DEF H264Type
  <2>2. H264Type(q) <= 23 /\ H264Type(q) # 28 /\ H264Type(q) \notin 24 .. 27 /\ H264Type(q) \notin {28, 29}
    BY <1>1, <1>3, <2>1
  <2>3. IsH264KeyFrame(q) <=> H264Type(u) = 7
    BY <2>1, <2>2, Zenon DEF IsH264KeyFrame
  <2>4. H264Sps(q) = IF H264Type(u) = 7 THEN q ELSE <<>>
    <3>1. CASE H264Type(u) = 7
      <4>1. H264Type(q) = 7 /\ 7 # 28 /\ 7 \notin 24 .. 27
        BY <2>1, <3>1
      <4>2. H264Sps(q) = q
        BY <2>1, <4>1, Zenon DEF H264Sps
      <4> QED BY <3>1, <4>2
    <3>2. CASE H264Type(u) # 7
      BY <2>1, <2>2, <3>2, Zenon DEF H264Sps
    <3> QED BY <3>1, <3>2
  <2> QED BY <1>2, <1>4, <1>6, <2>3, <2>4 DEF u
<1> QED BY <1>5, <1>6

\* A packet with times: what it begins with, and its first unit.
LEMMA TimedLaid ==
  ASSUME NEW s, Sent(s), s.codec = "h264", s.form \in {26, 27}
  PROVE  LET p == Packet(s)
             n == Len(Times(s.form))
             l == Len(s.units[1])
         IN /\ IsBytes(p) /\ p[1] = 96 + s.form /\ p[1] % 32 = s.form /\ p[1] % 32 \in 24 .. 27
            /\ n \in Nat /\ l \in Nat \ {0} /\ Len(p) \in Nat /\ 5 + n + l <= Len(p)
            /\ Uint16(p, 4) = l
            /\ p[6 + n] = s.units[1][1]
<1> DEFINE form == s.form
           units == s.units
           times == Times(form)
           head == Opening(form)
           n == Len(times)
           m == Len(units)
           l == Len(units[1])
           pieces == [k \in DOMAIN units |-> TimedUnit(units[k], times)]
           t == FlattenSeq(pieces)
           p == Packet(s)
<1>1. form \in 24 .. 27 /\ form # 24 /\ form \in {26, 27}
  OBVIOUS
<1>2. m \in Nat \ {0} /\ DOMAIN units = 1 .. m
      /\ \A k \in 1 .. m : units[k] \in Seq(Byte) /\ units[k] # <<>> /\ SizeFits(units[k])
  <2>1. m \in Nat /\ m >= 1
    BY DEF Sent, Whole
  <2> QED BY <2>1 DEF Sent, Whole
<1>3. times \in Seq(Byte) /\ FirstUnit(form) = 4 /\ (96 + form) % 32 = form /\ n \in Nat
  BY <1>1, H264Numbers
<1>4. IsBytes(head) /\ Len(head) = 3 /\ head[1] = 96 + form
  <2> HIDE DEF head, form
  <2>1. IsBytes(head) /\ Len(head) + 1 = 4 /\ Len(head) \in Nat /\ head[1] = 96 + form
    BY <1>1, <1>3, H264Opening DEF head
  <2>2. PICK x \in Nat : x = Len(head)
    BY <2>1, Zenon
  <2>3. x + 1 = 4
    BY <2>1, <2>2, Zenon
  <2>4. x = 3
    BY ONLY x \in Nat, <2>3
  <2> QED BY <2>1, <2>2, <2>4, Zenon
<1>5. p = head \o t
  BY <1>1, H264Pieces
<1> HIDE DEF p, head, form, units, times, n, m
<1>6. \A k \in 1 .. m : TimedUnit(units[k], times) \in Seq(Byte)
  BY <1>2, <1>3, TimedBytes
<1>7. pieces \in Seq(Seq(Byte)) /\ Len(pieces) = m /\ pieces[1] = TimedUnit(units[1], times)
  BY <1>2, <1>6
<1>8. 1 \in 1 .. m /\ units[1] \in Seq(Byte) /\ units[1] # <<>> /\ SizeFits(units[1])
  BY <1>2
<1>9. /\ l \in Nat \ {0} /\ Len(pieces[1]) = 2 + n + l
      /\ Uint16(pieces[1], 1) = l /\ pieces[1][3 + n] = units[1][1]
  BY <1>3, <1>7, <1>8, TimedBytes, FirstBytes DEF n
<1> HIDE DEF pieces, l
<1>10. t \in Seq(Byte) /\ Len(t) \in Nat /\ \E ends : Pieced(t, m, pieces, ends)
  <2>1. t \in Seq(Byte) /\ \E ends : Pieced(t, m, pieces, ends)
    BY <1>7, PiecesAreFlattened
  <2> QED BY <2>1
<1> HIDE DEF t
<1>11. 2 + n + l <= Len(t) /\ \A x \in 1 .. 2 + n + l : t[x] = pieces[1][x]
  <2>1. PICK ends : Pieced(t, m, pieces, ends)
    BY <1>10
  <2>2. ends \in [0 .. m -> Nat] /\ ends[0] = 0 /\ ends[m] = Len(t)
    BY <2>1 DEF Pieced
  <2>3. ends[1] = ends[0] + Len(pieces[1]) /\ \A x \in 1 .. Len(pieces[1]) : t[ends[0] + x] = pieces[1][x]
    <3>1. 1 - 1 = 0
      OBVIOUS
    <3> QED BY <1>8, <2>1, <3>1 DEF Pieced
  <2>4. ASSUME NEW k \in 1 .. m PROVE ends[k - 1] <= ends[k]
    <3>1. ends[k] = ends[k - 1] + Len(pieces[k]) /\ pieces[k] \in Seq(Byte)
      BY <1>7, <2>1 DEF Pieced
    <3>2. Len(pieces[k]) \in Nat /\ k \in 0 .. m /\ k - 1 \in 0 .. m
      BY <1>2, <3>1
    <3> QED BY <2>2, <3>1, <3>2
  <2>5. ends[1] <= ends[m]
    <3>1. 1 \in 0 .. m /\ m \in 1 .. m
      BY <1>2
    <3> QED BY <1>2, <2>2, <2>4, <3>1, NeverFalls
  <2>6. \A x \in 1 .. 2 + n + l : ends[0] + x = x
    BY <1>3, <1>9, <2>2
  <2> QED BY <1>3, <1>9, <2>2, <2>3, <2>5, <2>6
<1>12. /\ p \in Seq(Byte) /\ Len(p) = 3 + Len(t)
       /\ \A i \in 1 .. 3 + Len(t) : p[i] = IF i <= 3 THEN head[i] ELSE t[i - 3]
  <2>1. /\ head \o t \in Seq(Byte) /\ Len(head \o t) = Len(head) + Len(t)
        /\ \A i \in 1 .. Len(head) + Len(t) : (head \o t)[i] = IF i <= Len(head) THEN head[i] ELSE t[i - Len(head)]
    BY <1>4, <1>10, ConcatProperties DEF IsBytes
  <2> QED BY <1>4, <1>5, <2>1
<1>13. /\ 1 \in 1 .. 3 + Len(t) /\ 4 \in 1 .. 3 + Len(t) /\ 5 \in 1 .. 3 + Len(t) /\ 6 + n \in 1 .. 3 + Len(t)
       /\ ~(4 <= 3) /\ ~(5 <= 3) /\ ~(6 + n <= 3) /\ 1 <= 3
       /\ 4 - 3 = 1 /\ 5 - 3 = 2 /\ (6 + n) - 3 = 3 + n
       /\ 1 \in 1 .. 2 + n + l /\ 2 \in 1 .. 2 + n + l /\ 3 + n \in 1 .. 2 + n + l
       /\ 5 + n + l <= 3 + Len(t)
  BY <1>3, <1>9, <1>10, <1>11
<1>14. p[1] = head[1] /\ p[4] = pieces[1][1] /\ p[5] = pieces[1][2] /\ p[6 + n] = pieces[1][3 + n]
  BY <1>11, <1>12, <1>13
<1>15. Uint16(p, 4) = l
  <2>1. Uint16(p, 4) = (p[4] * 256) + p[4 + 1] /\ Uint16(pieces[1], 1) = (pieces[1][1] * 256) + pieces[1][1 + 1]
    BY DEF Uint16
  <2>2. 4 + 1 = 5 /\ 1 + 1 = 2
    OBVIOUS
  <2> QED BY <1>9, <1>14, <2>1, <2>2
<1>16. p[1] % 32 \in 24 .. 27
  BY <1>1, <1>3, <1>4, <1>14
<1>17. IsBytes(p) /\ Len(p) \in Nat /\ 5 + n + l <= Len(p)
  BY <1>10, <1>12, <1>13 DEF IsBytes
<1> QED BY <1>3, <1>4, <1>9, <1>14, <1>15, <1>16, <1>17 DEF p, n, l, units, times, form

\* Its first unit, as the code has it, is as long as the one sent and begins with the
\* times; behind them is the header of the one sent.
LEMMA FirstIsFound ==
  ASSUME NEW s, Sent(s), s.codec = "h264", s.form \in {26, 27},
         H264Type(s.units[1]) = 7, Len(s.units[1]) > Len(Times(s.form))
  PROVE  IsH264KeyFrame(Packet(s))
<1> DEFINE p == Packet(s)
           form == s.form
           n == Len(Times(form))
           l == Len(s.units[1])
           units == Units(p, 4)
           first == SubSeq(p, 6, 5 + l)
<1>1. /\ IsBytes(p) /\ p[1] = 96 + form /\ p[1] % 32 = form
      /\ n \in Nat /\ l \in Nat \ {0} /\ Len(p) \in Nat /\ 5 + n + l <= Len(p)
      /\ Uint16(p, 4) = l
      /\ p[6 + n] = s.units[1][1]
  BY TimedLaid
<1>2. form \in 24 .. 27 /\ ~(form <= 23) /\ FirstUnit(form) = 4 /\ UnitOffset(form) = n
  <2>1. form \in 24 .. 27 /\ form # 24
    OBVIOUS
  <2> QED BY <2>1, H264Numbers
<1>3. n < l /\ s.units[1][1] % 32 = 7
  BY <1>1 DEF H264Type
<1> HIDE DEF p, form, n, l
<1>4. units = <<first>> \o Units(p, 6 + l)
  <2>1. ~Short(p, 4)
    BY <1>1 DEF Short
  <2>2. 4 + 2 + Uint16(p, 4) = 6 + l /\ 4 + 2 = 6 /\ (6 + l) - 1 = 5 + l
    BY <1>1
  <2>3. p \in Seq(Byte) /\ 4 \in Nat \ {0}
    BY <1>1 DEF IsBytes
  <2>4. units = <<SubSeq(p, 4 + 2, (4 + 2 + Uint16(p, 4)) - 1)>> \o Units(p, 4 + 2 + Uint16(p, 4))
    BY <2>1, <2>3, UnitsUnfold
  <2> QED BY <2>2, <2>4
<1>5. first \in Seq(Byte) /\ Len(first) = l /\ first[n + 1] = p[6 + n]
  <2>1. \A i \in 6 .. 5 + l : i \in 1 .. Len(p)
    BY <1>1
  <2>2. \A i \in 6 .. 5 + l : p[i] \in Byte
    BY <1>1, <2>1, ElementOfSeq DEF IsBytes
  <2>3. 6 \in Int /\ 5 + l \in Int
    BY <1>1
  <2>4. /\ first \in Seq(Byte)
        /\ Len(first) = IF 6 <= 5 + l THEN (5 + l) - 6 + 1 ELSE 0
        /\ \A i \in 1 .. (5 + l) - 6 + 1 : first[i] = p[6 + i - 1]
    BY <2>2, <2>3, SubSeqProperties
  <2> HIDE DEF first
  <2>5. 6 <= 5 + l /\ (5 + l) - 6 + 1 = l /\ n + 1 \in 1 .. l /\ 6 + (n + 1) - 1 = 6 + n
    BY <1>1, <1>3
  <2> QED BY <2>4, <2>5
<1> HIDE DEF first
<1>6. Units(p, 6 + l) \in Seq(Seq(Byte))
  <2>1. 6 + l \in Nat \ {0}
    BY <1>1
  <2> QED BY <1>1, <2>1, UnitsAreUnits
<1>7. 1 \in DOMAIN units /\ units[1] = first
  <2>1. <<first>> \in Seq(Seq(Byte)) /\ Len(<<first>>) = 1 /\ <<first>>[1] = first
    BY <1>5
  <2> DEFINE a == <<first>>
             b == Units(p, 6 + l)
  <2> HIDE DEF a, b
  <2>2. /\ a \o b \in Seq(Seq(Byte)) /\ Len(a \o b) = Len(a) + Len(b)
        /\ \A i \in 1 .. Len(a) + Len(b) : (a \o b)[i] = IF i <= Len(a) THEN a[i] ELSE b[i - Len(a)]
    BY <1>6, <2>1, ConcatProperties DEF a, b
  <2>3. Len(b) \in Nat /\ Len(a) = 1 /\ a[1] = first
    BY <1>6, <2>1 DEF a, b
  <2>4. 1 \in 1 .. 1 + Len(b) /\ 1 <= 1
    BY <2>3
  <2> QED BY <1>4, <2>2, <2>3, <2>4 DEF a, b
<1> HIDE DEF units
<1>8. \A j \in 1 .. 1 : Len(units[j]) > n
  <2>1. \A j \in 1 .. 1 : j = 1
    OBVIOUS
  <2> QED BY <1>3, <1>5, <1>7, <2>1
<1>9. units[1][n + 1] % 32 = 7
  BY <1>1, <1>3, <1>5, <1>7
<1>10. p # <<>> /\ H264Type(p) = form
  <2>1. Len(p) # 0
    BY <1>1
  <2> QED BY <1>1, <2>1, EmptySeq DEF H264Type, IsBytes
<1>11. IsH264KeyFrame(p)
  BY <1>2, <1>7, <1>8, <1>9, <1>10 DEF IsH264KeyFrame, units
<1> QED BY <1>11 DEF p

\* Whatever the bytes of an aggregation are, a part of it is a key frame only if it is.
LEMMA KeyFrameOfPart ==
  ASSUME NEW p, IsBytes(p), p[1] % 32 \in 24 .. 27, NEW q, NEW c, IsCut(q, p, c)
  PROVE  IsH264KeyFrame(q) => IsH264KeyFrame(p)
<1> DEFINE type == p[1] % 32
           i == FirstUnit(type)
           offset == UnitOffset(type)
           a == Units(q, i)
           b == Units(p, i)
<1>1. type \in 24 .. 27 /\ ~(type <= 23) /\ i \in Nat \ {0}
  BY H264Numbers
<1> SUFFICES ASSUME IsH264KeyFrame(q) PROVE IsH264KeyFrame(p)
  OBVIOUS
<1>2. q # <<>> /\ c >= 1 /\ q[1] = p[1] /\ p # <<>>
  <2>1. q # <<>>
    BY DEF IsH264KeyFrame
  <2>2. c \in Nat /\ c <= Len(p) /\ Len(p) \in Nat /\ (q = <<>> <=> c = 0) /\ (c >= 1 => q[1] = p[1])
    BY BytesOfCut
  <2>3. c >= 1 /\ Len(p) # 0
    BY <2>1, <2>2
  <2> QED BY <2>1, <2>2, <2>3, EmptySeq DEF IsBytes
<1>3. H264Type(q) = type /\ H264Type(p) = type
  BY <1>2 DEF H264Type
<1>4. Leads(a, b)
  BY <1>1, UnitsOfPart
<1> HIDE DEF type, i, offset, a, b
<1>5. PICK k \in DOMAIN a : (\A j \in 1 .. k : Len(a[j]) > offset) /\ a[k][offset + 1] % 32 = 7
  BY <1>1, <1>2, <1>3 DEF IsH264KeyFrame, a, i, offset
<1>6. k \in DOMAIN b /\ \A j \in 1 .. k : a[j] = b[j]
  BY <1>4, <1>5 DEF Leads
<1>7. k \in 1 .. k
  BY <1>4, <1>5 DEF Leads
<1>8. k \in DOMAIN b /\ (\A j \in 1 .. k : Len(b[j]) > offset) /\ b[k][offset + 1] % 32 = 7
  BY <1>5, <1>6, <1>7
<1> QED BY <1>1, <1>2, <1>3, <1>8 DEF IsH264KeyFrame, b, i, offset

LEMMA CarriesSps ==
  ASSUME NEW s, Sent(s), s.codec = "h264"
  PROVE  /\ Carries(s) <=> SpsOf(s.units, Len(s.units)) # {}
         /\ FirstSps(s) = FirstOf(s.units, SpsOf(s.units, Len(s.units)))
<1>1. DOMAIN s.units = 1 .. Len(s.units)
  BY DEF Sent, Whole
<1>2. Carries(s) <=> \E k \in DOMAIN s.units : H264Type(s.units[k]) = 7
  BY Zenon DEF Carries
<1>3. FirstSps(s) = FirstOf(s.units, {k \in DOMAIN s.units : H264Type(s.units[k]) = 7})
  BY DEF FirstSps
<1> QED BY <1>1, <1>2, <1>3 DEF SpsOf

\* What has to be found in an H.264 packet p without times, and in a part q of it.
FoundInH264(s, p, q) ==
  /\ IsH264KeyFrame(q) => Carries(s)
  /\ IsH264KeyFrame(q) <=> H264Sps(q) # <<>>
  /\ q = p => (IsH264KeyFrame(q) <=> Carries(s)) /\ H264Sps(q) = FirstSps(s)

LEMMA H264Bytes ==
  ASSUME NEW s, Sent(s), s.codec = "h264"
  PROVE  IsBytes(Packet(s))
<1> DEFINE p == Packet(s)
           u == s.units[1]
<1>1. CASE s.form \in 24 .. 27
  <2>1. CASE s.form \in {24, 25}
    BY <2>1, H264Laid
  <2>2. CASE s.form \in {26, 27}
    BY <2>2, TimedLaid
  <2> QED BY <1>1, <2>1, <2>2
<1>2. u \in Seq(Byte) /\ u # <<>> /\ H264Type(u) < 24
  BY DEF Sent, Whole
<1>3. CASE s.form = 28
  <2>1. p = <<((u[1] \div 32) * 32) + 28, 128 + H264Type(u)>> \o Tail(u)
    BY <1>3 DEF Packet
  <2> HIDE DEF u, p
  <2>2. Tail(u) \in Seq(Byte) /\ u[1] \in Byte /\ u[1] % 32 < 24
    BY <1>2, FirstBytes, HeadTailProperties DEF H264Type
  <2>3. ((u[1] \div 32) * 32) + 28 \in Byte /\ 128 + (u[1] % 32) \in Byte
    BY <2>2, FragmentBytes
  <2> DEFINE a == ((u[1] \div 32) * 32) + 28
             b == 128 + (u[1] % 32)
  <2> HIDE DEF a, b
  <2>4. <<a, b>> \in Seq(Byte)
    BY <2>3 DEF a, b
  <2>5. <<a, b>> \o Tail(u) \in Seq(Byte)
    BY <2>2, <2>4, ConcatProperties
  <2> QED BY <2>1, <2>5 DEF a, b, p, H264Type, IsBytes
<1>4. CASE s.form \notin 24 .. 28
  <2>1. p = u
    <3>1. ~(s.codec = "h264" /\ s.form \in 24 .. 27) /\ ~(s.codec = "h264" /\ s.form = 28)
          /\ ~(s.codec = "h265" /\ s.form = 48) /\ s.codec # "av1"
      BY <1>4
    <3> QED BY <3>1, Zenon DEF Packet
  <2> QED BY <1>2, <2>1 DEF IsBytes
<1> QED BY <1>1, <1>3, <1>4

LEMMA FoundInCut ==
  ASSUME NEW s, Sent(s), s.codec = "h264", ~HasTimes(s), NEW q, NEW c, IsCut(q, Packet(s), c)
  PROVE  FoundInH264(s, Packet(s), q)
<1> DEFINE n == Len(s.units)
           p == Packet(s)
<1>1. /\ Carries(s) <=> SpsOf(s.units, n) # {}
      /\ FirstSps(s) = FirstOf(s.units, SpsOf(s.units, n))
  BY CarriesSps
<1>2. n \in Nat \ {0} /\ \A k \in 1 .. n : s.units[k] # <<>>
  <2>1. n \in Nat /\ n >= 1
    BY DEF Sent, Whole
  <2>2. \A k \in 1 .. n : s.units[k] # <<>>
    BY DEF Sent, Whole
  <2> QED BY <2>1, <2>2
<1>3. q = p => c = Len(p)
  BY DEF IsCut
<1>4. CASE s.form \in 24 .. 27
  <2>1. s.form \in {24, 25}
    BY <1>4 DEF HasTimes
  <2>2. PICK m \in 0 .. n :
           /\ IsH264KeyFrame(q) <=> SpsOf(s.units, m) # {}
           /\ H264Sps(q) = FirstOf(s.units, SpsOf(s.units, m))
           /\ c = Len(p) => m = n
    BY <2>1, H264Found
  <2>3. SpsOf(s.units, m) \subseteq SpsOf(s.units, n) /\ SpsOf(s.units, m) \in SUBSET Nat
        /\ \A k \in SpsOf(s.units, m) : s.units[k] # <<>>
    <3>1. \A k \in 1 .. m : k \in 1 .. n /\ k \in Nat
      BY <1>2
    <3> HIDE DEF n
    <3> QED BY <1>2, <3>1 DEF SpsOf
  <2>4. FirstOf(s.units, SpsOf(s.units, m)) # <<>> <=> SpsOf(s.units, m) # {}
    BY <2>3, FirstOfIs
  <2> HIDE DEF p, n
  <2>5. IsH264KeyFrame(q) => Carries(s)
    BY <1>1, <2>2, <2>3
  <2>6. IsH264KeyFrame(q) <=> H264Sps(q) # <<>>
    BY <2>2, <2>4
  <2>7. ASSUME q = p
        PROVE  (IsH264KeyFrame(q) <=> Carries(s)) /\ H264Sps(q) = FirstSps(s)
    <3>1. m = n
      BY <1>3, <2>2, <2>7
    <3> QED BY <1>1, <2>2, <3>1
  <2> QED BY <2>5, <2>6, <2>7 DEF FoundInH264, p
<1>5. CASE s.form \notin 24 .. 27
  <2>1. n = 1 /\ SpsOf(s.units, 1) = IF H264Type(s.units[1]) = 7 THEN {1} ELSE {}
    <3>1. n = 1
      BY <1>5 DEF Sent
    <3>2. 1 .. 1 = {1}
      OBVIOUS
    <3>3. SpsOf(s.units, 1) = { k \in {1} : H264Type(s.units[k]) = 7 }
      BY <3>2 DEF SpsOf
    <3> QED BY <3>1, <3>3
  <2>2. s.units[1] # <<>>
    BY <1>2
  <2> DEFINE is == H264Type(s.units[1])
  <2>3. FirstOf(s.units, SpsOf(s.units, 1)) = IF is = 7 THEN s.units[1] ELSE <<>>
    <3>1. CASE is = 7
      <4>1. Min({1}) = 1
        BY FirstIsOne
      <4> QED BY <2>1, <3>1, <4>1 DEF FirstOf
    <3>2. CASE is # 7
      BY <2>1, <3>2 DEF FirstOf
    <3> QED BY <3>1, <3>2
  <2>4. Carries(s) <=> is = 7
    BY <1>1, <2>1
  <2>5. FirstSps(s) = IF is = 7 THEN s.units[1] ELSE <<>>
    BY <1>1, <2>1, <2>3
  <2> HIDE DEF is
  <2>6. CASE s.form = 28
    <3>1. /\ IsH264KeyFrame(q) => is = 7
          /\ IsH264KeyFrame(q) <=> H264Sps(q) # <<>>
          /\ c = Len(p) => /\ IsH264KeyFrame(q) <=> is = 7
                           /\ H264Sps(q) = IF is = 7 THEN s.units[1] ELSE <<>>
      BY <2>6, H264Fragment DEF is
    <3> HIDE DEF p
    <3> QED BY <1>3, <2>4, <2>5, <3>1 DEF FoundInH264, p
  <2>7. CASE s.form # 28
    <3>1. s.form \notin 24 .. 28
      BY <1>5, <2>7
    <3>2. /\ p = s.units[1]
          /\ IsH264KeyFrame(q) <=> c # 0 /\ is = 7
          /\ H264Sps(q) = IF c # 0 /\ is = 7 THEN q ELSE <<>>
          /\ q = <<>> <=> c = 0
      BY <3>1, H264Single DEF is
    <3> HIDE DEF p
    <3>3. q = p => c # 0
      BY <2>2, <3>2
    <3> QED BY <1>3, <2>4, <2>5, <3>2, <3>3 DEF FoundInH264, p
  <2> QED BY <2>6, <2>7
<1> QED BY <1>4, <1>5

\* Whatever H.264 units a sender puts into a packet, and in whatever way.
LEMMA FoundInH264Packets ==
  ASSUME NEW s, Sent(s), s.codec = "h264"
  PROVE  KeyFramesFound(s)
<1> DEFINE p == Packet(s)
           cuts == { SubSeq(p, 1, n) : n \in 0 .. Len(p) }
<1>1. IsBytes(p)
  BY H264Bytes
<1>2. \A q : IsKeyFrame(s.codec, q) <=> IsH264KeyFrame(q)
  BY Zenon DEF IsKeyFrame
<1>3. ASSUME NEW q \in cuts PROVE \E c : IsCut(q, p, c)
  <2>1. PICK c \in 0 .. Len(p) : q = SubSeq(p, 1, c)
    OBVIOUS
  <2> HIDE DEF p
  <2> QED BY <1>1, <2>1, CutsAreCuts
<1>4. s.codec # "h265"
  OBVIOUS
<1>5. CASE ~HasTimes(s)
  <2>1. FoundInH264(s, p, p)
    <3>1. IsCut(p, p, Len(p))
      BY <1>1, WholeIsCut
    <3> QED BY <1>5, <3>1, FoundInCut
  <2>2. ASSUME NEW q \in cuts PROVE FoundInH264(s, p, q)
    BY <1>3, <1>5, FoundInCut
  <2> HIDE DEF p, cuts
  <2>3. /\ IsKeyFrame(s.codec, p) <=> Carries(s)
        /\ \A q \in cuts : IsKeyFrame(s.codec, q) => IsKeyFrame(s.codec, p)
    BY <1>2, <2>1, <2>2, Zenon DEF FoundInH264
  <2>4. H264Sps(p) = FirstSps(s) /\ \A q \in cuts : IsH264KeyFrame(q) <=> H264Sps(q) # <<>>
    BY <2>1, <2>2, Zenon DEF FoundInH264
  <2> QED BY <1>4, <1>5, <2>3, <2>4, Zenon DEF KeyFramesFound, p, cuts
<1>6. CASE HasTimes(s)
  <2>1. s.form \in {26, 27}
    BY <1>6 DEF HasTimes
  <2>2. H264Type(s.units[1]) = 7 /\ Len(s.units[1]) > Len(Times(s.form)) => IsH264KeyFrame(p)
    BY <2>1, FirstIsFound
  <2>3. ASSUME NEW q \in cuts PROVE IsKeyFrame(s.codec, q) => IsKeyFrame(s.codec, p)
    <3>1. p[1] % 32 \in 24 .. 27
      BY <2>1, TimedLaid
    <3> HIDE DEF p, cuts
    <3>2. IsH264KeyFrame(q) => IsH264KeyFrame(p)
      BY <1>1, <1>3, <3>1, KeyFrameOfPart
    <3> QED BY <1>2, <3>2, Zenon
  <2> HIDE DEF p, cuts
  <2> QED BY <1>4, <1>6, <2>2, <2>3, Zenon DEF KeyFramesFound, p, cuts
<1> QED BY <1>5, <1>6

-----------------------------------------------------------------------------
(* H.265.                                                                  *)

IsSet(byte) == H265Type(byte) \in {33, 34}

\* What has to be found in an H.265 packet p, and in a part q of it.
FoundInH265(s, p, q) ==
  /\ IsH265KeyFrame(q) => Carries(s)
  /\ H265Sps(q) # <<>> => IsH265KeyFrame(q)
  /\ q = p => (IsH265KeyFrame(q) <=> Carries(s)) /\ H265Sps(q) = FirstSps(s)

\* The SPSs among the first m units.
SpsOf265(units, m) == { k \in 1 .. m : H265Type(units[k][1]) = 33 }

LEMMA CarriesSet ==
  ASSUME NEW s, Sent(s), s.codec = "h265"
  PROVE  /\ Carries(s) <=> \E k \in 1 .. Len(s.units) : IsSet(s.units[k][1])
         /\ FirstSps(s) = FirstOf(s.units, SpsOf265(s.units, Len(s.units)))
         /\ Len(s.units) \in Nat \ {0}
         /\ \A k \in 1 .. Len(s.units) : /\ s.units[k] \in Seq(Byte) /\ s.units[k] # <<>>
                                         /\ Len(s.units[k]) \in Nat /\ Len(s.units[k]) >= 2
                                         /\ H265Type(s.units[k][1]) < 48
                                         /\ SizeFits(s.units[k])
<1> DEFINE n == Len(s.units)
<1>1. DOMAIN s.units = 1 .. n /\ \A k \in 1 .. n : s.units[k] \in Seq(Byte) /\ s.units[k] # <<>>
  BY DEF Sent, Whole
<1>2. Carries(s) <=> \E k \in DOMAIN s.units : H265Type(s.units[k][1]) \in {33, 34}
  <2>1. s.codec # "h264"
    OBVIOUS
  <2> QED BY <2>1, Zenon DEF Carries
<1>3. FirstSps(s) = FirstOf(s.units, {k \in DOMAIN s.units : IsH265Sps(s.units[k])})
  BY DEF FirstSps
<1>4. {k \in DOMAIN s.units : IsH265Sps(s.units[k])} = SpsOf265(s.units, n)
  BY <1>1 DEF IsH265Sps, SpsOf265
<1>5. n \in Nat \ {0}
  <2>1. n \in Nat /\ n >= 1
    BY DEF Sent, Whole
  <2> QED BY <2>1
<1>6. \A k \in 1 .. n : Len(s.units[k]) >= 2 /\ H265Type(s.units[k][1]) < 48 /\ SizeFits(s.units[k])
  BY DEF Sent
<1>7. \A k \in 1 .. n : Len(s.units[k]) \in Nat
  BY <1>1
<1>8. \A k \in 1 .. n : SizeFits(s.units[k])
  <2> TAKE k \in 1 .. n
  <2>1. Len(s.units[k]) \in Nat /\ SizeFits(s.units[k])
    BY <1>6, <1>7
  <2> QED BY <2>1
<1> QED BY <1>1, <1>2, <1>3, <1>4, <1>5, <1>6, <1>7, <1>8 DEF IsSet

LEMMA H265Laid ==
  ASSUME NEW s, Sent(s), s.codec = "h265", s.form = 48
  PROVE  /\ IsBytes(Packet(s)) /\ Len(Packet(s)) >= 2 /\ Packet(s)[1] = 96
         /\ AreUnits(s.units)
         /\ \E o : o[0] = 3 /\ Laid(Packet(s), Len(s.units), s.units, o)
<1> DEFINE head == <<96, 1>>
           p == Packet(s)
<1>1. AreUnits(s.units)
  <2>1. s.units \in Seq(Seq(Byte))
    BY DEF Sent, Whole
  <2> QED BY <2>1, CarriesSet DEF AreUnits
<1>2. head \in Seq(Byte) /\ Len(head) = 2 /\ head[1] = 96
  <2>1. 96 \in Byte /\ 1 \in Byte
    BY DEF Byte
  <2> QED BY <2>1
<1>3. p = head \o FlattenSeq([k \in DOMAIN s.units |-> Sized(s.units[k])])
  <2>1. ~(s.codec = "h264" /\ s.form \in 24 .. 27) /\ ~(s.codec = "h264" /\ s.form = 28) /\ s.codec # "av1"
    OBVIOUS
  <2> QED BY <2>1, Zenon DEF Packet
<1> HIDE DEF p, head
<1>4. /\ p \in Seq(Byte) /\ Len(head) <= Len(p) /\ \A i \in 1 .. Len(head) : p[i] = head[i]
      /\ \E o : o[0] = Len(head) + 1 /\ Laid(p, Len(s.units), s.units, o)
  <2> DEFINE units == s.units
  <2>1. AreUnits(units) /\ IsBytes(head) /\ p = head \o FlattenSeq([k \in DOMAIN units |-> Sized(units[k])])
    BY <1>1, <1>2, <1>3 DEF IsBytes
  <2> HIDE DEF units
  <2>2. /\ p \in Seq(Byte) /\ Len(head) <= Len(p) /\ \A i \in 1 .. Len(head) : p[i] = head[i]
        /\ \E o : o[0] = Len(head) + 1 /\ Laid(p, Len(units), units, o)
    BY <2>1, AggregationLaid
  <2> QED BY <2>2 DEF units
<1>5. 1 \in 1 .. Len(head) /\ Len(head) + 1 = 3
  BY <1>2
<1> QED BY <1>1, <1>2, <1>4, <1>5 DEF p, IsBytes

LEMMA FoundInAggregation ==
  ASSUME NEW s, Sent(s), s.codec = "h265", s.form = 48,
         NEW q, NEW c, IsCut(q, Packet(s), c)
  PROVE  FoundInH265(s, Packet(s), q)
<1> DEFINE p == Packet(s)
           n == Len(s.units)
           unit(k) == s.units[k]
<1>1. IsBytes(p) /\ Len(p) >= 2 /\ p[1] = 96 /\ AreUnits(s.units)
  BY H265Laid
<1>2. PICK o : o[0] = 3 /\ Laid(p, n, s.units, o)
  BY H265Laid
<1>3. IsCut(q, p, c)
  OBVIOUS
<1>4. /\ Carries(s) <=> \E k \in 1 .. n : IsSet(unit(k)[1])
      /\ FirstSps(s) = FirstOf(s.units, SpsOf265(s.units, n))
      /\ n \in Nat \ {0}
      /\ \A k \in 1 .. n : unit(k) # <<>> /\ Len(unit(k)) \in Nat /\ Len(unit(k)) >= 2
  BY CarriesSet
<1> HIDE DEF p
<1>5. /\ q \in Seq(Byte) /\ Len(q) = c /\ c \in Nat /\ c <= Len(p) /\ Len(p) \in Nat /\ (q = <<>> <=> c = 0)
      /\ c >= 1 => q[1] = p[1]
  BY <1>1, <1>3, BytesOfCut
<1>6. PICK m \in 0 .. n : /\ Units(q, o[0]) = SubSeq(s.units, 1, m)
                          /\ \A k \in 1 .. m : o[k] <= c + 1
                          /\ c = Len(p) => m = n
  BY <1>1, <1>2, <1>3, UnitsOfCut
<1>7. /\ \A k \in 1 .. n : o[k - 1] + 2 <= c => o[k - 1] \in H265Starts(q, 3)
      /\ \A j \in H265Starts(q, 3) : \E k \in 1 .. n : j = o[k - 1] /\ o[k - 1] + 2 <= c
  <2>1. StartsAre(q, o, n, c)
    BY <1>1, <1>2, <1>3, StartsOfCut
  <2> QED BY <1>2, <2>1 DEF StartsAre
<1>8. \A k \in 1 .. n : /\ o[k - 1] \in Nat \ {0} /\ o[k] \in Nat \ {0}
                        /\ o[k] = o[k - 1] + 2 + Len(unit(k)) /\ o[k] <= Len(p) + 1
  BY <1>1, <1>2, UnitPlace
<1>9. ASSUME NEW k \in 1 .. n, o[k - 1] + 2 <= c
      PROVE  q[o[k - 1] + 2] = unit(k)[1]
  <2>1. 1 \in 1 .. Len(unit(k)) /\ o[k - 1] + 1 + 1 = o[k - 1] + 2 /\ o[k - 1] + 2 \in 1 .. c
    <3> DEFINE l == Len(unit(k))
               a == o[k - 1]
    <3>1. l \in Nat /\ l >= 2 /\ a \in Nat \ {0} /\ a + 2 <= c /\ c \in Nat
      BY <1>4, <1>5, <1>8, <1>9
    <3> HIDE DEF l, a
    <3>2. 1 \in 1 .. l /\ a + 1 + 1 = a + 2 /\ a + 2 \in 1 .. c
      BY <3>1
    <3> QED BY <3>2 DEF l, a
  <2>2. p[o[k - 1] + 1 + 1] = unit(k)[1]
    BY <1>2, <2>1 DEF Laid
  <2> QED BY <1>3, <2>1, <2>2 DEF IsCut
<1> HIDE DEF unit
<1>10. ASSUME c >= 2
       PROVE  IsH265KeyFrame(q) <=> \E k \in 1 .. n : o[k - 1] + 2 <= c /\ IsSet(unit(k)[1])
  <2>1. q[1] = 96 /\ H265Type(96) = 48 /\ Len(q) >= 2
    BY <1>1, <1>5, <1>10 DEF H265Type
  <2>2. IsH265KeyFrame(q) <=> \E j \in H265Starts(q, 3) : IsSet(q[j + 2])
    BY <2>1 DEF IsH265KeyFrame, IsSet
  <2> QED BY <1>7, <1>9, <2>2
<1>11. ASSUME c < 2
       PROVE  ~IsH265KeyFrame(q) /\ H265Sps(q) = <<>>
  BY <1>5, <1>11 DEF IsH265KeyFrame, H265Sps
<1>12. m \in Nat /\ m <= n /\ \A k \in 1 .. m : k \in 1 .. n
  BY <1>4
<1>13. ASSUME c >= 2
       PROVE  H265Sps(q) = FirstOf(s.units, SpsOf265(s.units, m))
  <2> DEFINE found == SubSeq(s.units, 1, m)
  <2>1. q[1] = 96 /\ H265Type(96) = 48 /\ Len(q) >= 2
    BY <1>1, <1>5, <1>13 DEF H265Type
  <2>2. H265Sps(q) = FirstOf(found, {k \in DOMAIN found : IsH265Sps(found[k])})
    <3>1. ~IsH265Sps(q) /\ ~(Len(q) < 2)
      BY <1>5, <2>1 DEF IsH265Sps
    <3>2. Units(q, 3) = found
      BY <1>2, <1>6
    <3> HIDE DEF found
    <3> QED BY <2>1, <3>1, <3>2 DEF H265Sps
  <2>3. \A k \in 1 .. m : s.units[k] \in Seq(Byte)
    BY <1>1, <1>12 DEF AreUnits
  <2>4. /\ found \in Seq(Seq(Byte))
        /\ Len(found) = IF 1 <= m THEN m - 1 + 1 ELSE 0
        /\ \A k \in 1 .. m - 1 + 1 : found[k] = s.units[1 + k - 1]
    BY <1>12, <2>3, SubSeqProperties
  <2> HIDE DEF found
  <2>5. DOMAIN found = 1 .. m
    <3>1. Len(found) = m
      BY <1>12, <2>4
    <3> QED BY <2>4, <3>1, LenProperties
  <2>6. \A k \in 1 .. m : found[k] = s.units[k] /\ s.units[k] # <<>>
    <3>1. \A k \in 1 .. m : k \in 1 .. m - 1 + 1 /\ 1 + k - 1 = k
      BY <1>12
    <3>2. \A k \in 1 .. m : s.units[k] # <<>>
      BY <1>4, <1>12 DEF unit
    <3> QED BY <2>4, <3>1, <3>2
  <2>7. {k \in DOMAIN found : IsH265Sps(found[k])} = SpsOf265(s.units, m)
    BY <2>5, <2>6 DEF IsH265Sps, SpsOf265
  <2>8. CASE SpsOf265(s.units, m) = {}
    BY <2>2, <2>7, <2>8 DEF FirstOf
  <2>9. CASE SpsOf265(s.units, m) # {}
    <3>1. SpsOf265(s.units, m) \in SUBSET Nat /\ SpsOf265(s.units, m) \in SUBSET (1 .. m)
      BY <1>12 DEF SpsOf265
    <3>2. Min(SpsOf265(s.units, m)) \in 1 .. m
      BY <2>9, <3>1, FirstIsOne
    <3> QED BY <2>2, <2>6, <2>7, <2>9, <3>2 DEF FirstOf
  <2> QED BY <2>8, <2>9
<1>14. IsH265KeyFrame(q) => Carries(s)
  BY <1>4, <1>5, <1>10, <1>11 DEF unit
<1>15. ASSUME H265Sps(q) # <<>> PROVE IsH265KeyFrame(q)
  <2>1. c >= 2
    BY <1>5, <1>11, <1>15
  <2>2. PICK k \in 1 .. m : H265Type(unit(k)[1]) = 33
    <3>1. SpsOf265(s.units, m) # {}
      BY <1>13, <1>15, <2>1 DEF FirstOf
    <3> QED BY <3>1 DEF SpsOf265, unit
  <2>3. k \in 1 .. n /\ o[k] <= c + 1
    BY <1>6, <1>12
  <2>4. o[k - 1] + 2 <= c
    <3>1. /\ o[k - 1] \in Nat /\ o[k] \in Nat /\ o[k] = o[k - 1] + 2 + Len(unit(k))
          /\ Len(unit(k)) \in Nat /\ Len(unit(k)) >= 2
      BY <1>4, <1>8, <2>3 DEF unit
    <3> QED BY <1>5, <2>3, <3>1
  <2> QED BY <1>10, <2>1, <2>2, <2>3, <2>4 DEF IsSet
<1>16. ASSUME q = p PROVE (IsH265KeyFrame(q) <=> Carries(s)) /\ H265Sps(q) = FirstSps(s)
  <2>1. c = Len(p) /\ c >= 2 /\ m = n
    BY <1>1, <1>5, <1>6, <1>16
  <2>2. \A k \in 1 .. n : o[k - 1] + 2 <= c
    <3> TAKE k \in 1 .. n
    <3>1. /\ o[k - 1] \in Nat /\ o[k] \in Nat /\ o[k] = o[k - 1] + 2 + Len(unit(k)) /\ o[k] <= Len(p) + 1
          /\ Len(unit(k)) \in Nat /\ Len(unit(k)) >= 2
      BY <1>4, <1>8 DEF unit
    <3> QED BY <1>5, <2>1, <3>1
  <2> QED BY <1>4, <1>10, <1>13, <2>1, <2>2 DEF unit
<1> QED BY <1>14, <1>15, <1>16 DEF FoundInH265, p

LEMMA FoundInSingle ==
  ASSUME NEW s, Sent(s), s.codec = "h265", s.form # 48,
         NEW q, NEW c, IsCut(q, Packet(s), c)
  PROVE  Packet(s) = s.units[1] /\ FoundInH265(s, Packet(s), q)
<1> DEFINE u == s.units[1]
           n == Len(s.units)
<1>1. /\ Carries(s) <=> \E k \in 1 .. n : IsSet(s.units[k][1])
      /\ FirstSps(s) = FirstOf(s.units, SpsOf265(s.units, n))
  BY CarriesSet
<1>2. n = 1
  BY DEF Sent
<1>3. u \in Seq(Byte) /\ u # <<>> /\ Len(u) \in Nat /\ Len(u) >= 2 /\ H265Type(u[1]) < 48
  <2>1. 1 \in 1 .. n
    BY <1>2
  <2> QED BY <2>1, CarriesSet
<1>4. 1 .. 1 = {1}
  OBVIOUS
<1>5. Carries(s) <=> IsSet(u[1])
  BY <1>1, <1>2, <1>4
<1>6. FirstSps(s) = IF H265Type(u[1]) = 33 THEN u ELSE <<>>
  <2>1. SpsOf265(s.units, 1) = IF H265Type(u[1]) = 33 THEN {1} ELSE {}
    <3>1. SpsOf265(s.units, 1) = { k \in {1} : H265Type(s.units[k][1]) = 33 }
      BY <1>4 DEF SpsOf265
    <3> QED BY <3>1
  <2>2. Min({1}) = 1
    BY FirstIsOne
  <2> QED BY <1>1, <1>2, <2>1, <2>2 DEF FirstOf
<1>7. Packet(s) = u
  <2>1. ~(s.codec = "h264" /\ s.form \in 24 .. 27) /\ ~(s.codec = "h264" /\ s.form = 28)
        /\ ~(s.codec = "h265" /\ s.form = 48) /\ s.codec # "av1"
    OBVIOUS
  <2> QED BY <2>1, Zenon DEF Packet
<1> HIDE DEF u
<1>8. /\ q \in Seq(Byte) /\ Len(q) = c /\ c \in Nat /\ (q = <<>> <=> c = 0)
      /\ c >= 1 => q[1] = u[1]
  BY <1>3, <1>7, BytesOfCut DEF IsBytes
<1>9. H265Type(u[1]) \in Int /\ H265Type(u[1]) # 48 /\ H265Type(u[1]) # 49
  <2>1. u[1] \in Nat
    BY <1>3, FirstBytes, ByteIsNat
  <2>2. H265Type(u[1]) \in Int
    BY <2>1 DEF H265Type
  <2> QED BY <1>3, <2>2
<1>10. IsH265KeyFrame(q) <=> c >= 2 /\ IsSet(u[1])
  <2>1. CASE c >= 2
    <3>1. q[1] = u[1] /\ Len(q) >= 2
      BY <1>8, <2>1
    <3> QED BY <1>9, <2>1, <3>1 DEF IsH265KeyFrame, IsSet
  <2>2. CASE ~(c >= 2)
    BY <1>8, <2>2 DEF IsH265KeyFrame
  <2> QED BY <2>1, <2>2
<1>11. H265Sps(q) = IF c >= 2 /\ H265Type(u[1]) = 33 THEN q ELSE <<>>
  <2>1. CASE c >= 2
    <3>1. q[1] = u[1] /\ ~(Len(q) < 2) /\ q # <<>>
      BY <1>8, <2>1
    <3> QED BY <1>9, <2>1, <3>1 DEF H265Sps, IsH265Sps
  <2>2. CASE ~(c >= 2)
    BY <1>8, <2>2 DEF H265Sps
  <2> QED BY <2>1, <2>2
<1>12. q = u => c >= 2
  BY <1>3, <1>8
<1>13. H265Type(u[1]) = 33 => IsSet(u[1])
  BY DEF IsSet
<1> QED BY <1>5, <1>6, <1>7, <1>10, <1>11, <1>12, <1>13 DEF FoundInH265, u

\* Whatever H.265 units a sender puts into a packet, alone or together.
LEMMA FoundInH265Packets ==
  ASSUME NEW s, Sent(s), s.codec = "h265"
  PROVE  KeyFramesFound(s)
<1> DEFINE p == Packet(s)
           cuts == { SubSeq(p, 1, n) : n \in 0 .. Len(p) }
<1>1. IsBytes(p)
  <2>1. CASE s.form = 48
    BY <2>1, H265Laid
  <2>2. CASE s.form # 48
    <3>1. ~(s.codec = "h264" /\ s.form \in 24 .. 27) /\ ~(s.codec = "h264" /\ s.form = 28)
          /\ ~(s.codec = "h265" /\ s.form = 48) /\ s.codec # "av1"
      BY <2>2
    <3>2. p = s.units[1]
      BY <3>1, Zenon DEF Packet
    <3>3. 1 \in 1 .. Len(s.units)
      BY CarriesSet
    <3> QED BY <3>2, <3>3, CarriesSet DEF IsBytes
  <2> QED BY <2>1, <2>2
<1>2. ASSUME NEW q, NEW c, IsCut(q, p, c) PROVE FoundInH265(s, p, q)
  BY <1>2, FoundInAggregation, FoundInSingle
<1>3. FoundInH265(s, p, p)
  BY <1>1, <1>2, WholeIsCut
<1>4. ASSUME NEW q \in cuts PROVE FoundInH265(s, p, q)
  <2>1. PICK c \in 0 .. Len(p) : q = SubSeq(p, 1, c)
    OBVIOUS
  <2>2. IsCut(q, p, c)
    <3> HIDE DEF p
    <3> QED BY <1>1, <2>1, CutsAreCuts
  <2> QED BY <1>2, <2>2
<1>5. \A q : IsKeyFrame(s.codec, q) <=> IsH265KeyFrame(q)
  <2>1. s.codec # "h264"
    OBVIOUS
  <2> QED BY <2>1, Zenon DEF IsKeyFrame
<1>6. s.codec # "h264"
  OBVIOUS
<1> HIDE DEF p, cuts
<1>7. /\ IsKeyFrame(s.codec, p) <=> Carries(s)
      /\ \A q \in cuts : IsKeyFrame(s.codec, q) => IsKeyFrame(s.codec, p)
  BY <1>3, <1>4, <1>5, Zenon DEF FoundInH265
<1>8. H265Sps(p) = FirstSps(s) /\ \A q \in cuts : H265Sps(q) # <<>> => IsH265KeyFrame(q)
  BY <1>3, <1>4, Zenon DEF FoundInH265
<1>9. ~HasTimes(s)
  BY <1>6 DEF HasTimes
<1> QED BY <1>6, <1>7, <1>8, <1>9, Zenon DEF KeyFramesFound, p, cuts

-----------------------------------------------------------------------------
(* AV1.                                                                    *)

\* The first h bytes of data are the length l, seven bits to the byte.
Announces(data, h, l) ==
  /\ h \in {1, 2} /\ h <= Len(data)
  /\ data[h] < 128 /\ \A j \in 1 .. h - 1 : data[j] >= 128
  /\ h = 1 => data[1] = l
  /\ h = 2 => (data[1] % 128) + 128 * (data[2] % 128) = l

LEMMA TwoSevens ==
  ASSUME NEW l \in Nat, l < 16384, ~(l < 128)
  PROVE  /\ 128 + (l % 128) \in Byte /\ l \div 128 \in Byte
         /\ l \div 128 < 128 /\ 128 + (l % 128) >= 128
         /\ ((128 + (l % 128)) % 128) + 128 * ((l \div 128) % 128) = l
BY DEF Byte

LEMMA LengthAnnounced ==
  ASSUME NEW u \in Seq(Byte), Short7Bits(u)
  PROVE  /\ Leb128(Len(u)) \in Seq(Byte)
         /\ Announces(Leb128(Len(u)), Len(Leb128(Len(u))), Len(u))
<1> DEFINE l == Len(u)
           b == Leb128(l)
<1>0. l \in Nat /\ l < 16384
  BY DEF Short7Bits
<1> HIDE DEF l
<1>1. CASE l < 128
  <2>1. b = <<l>> /\ l \in Byte
    BY <1>0, <1>1 DEF Leb128, Byte
  <2>2. b \in Seq(Byte) /\ Len(b) = 1 /\ b[1] = l
    BY <2>1
  <2> HIDE DEF b
  <2> QED BY <1>1, <2>2 DEF Announces, b, l
<1>2. CASE ~(l < 128)
  <2> DEFINE x == 128 + (l % 128)
             y == l \div 128
  <2>1. x \in Byte /\ y \in Byte /\ y < 128 /\ x >= 128 /\ (x % 128) + 128 * (y % 128) = l
    BY <1>0, <1>2, TwoSevens
  <2>2. b = <<x, y>>
    BY <1>2 DEF Leb128
  <2> HIDE DEF x, y
  <2>3. b \in Seq(Byte) /\ Len(b) = 2 /\ b[1] = x /\ b[2] = y
    BY <2>1, <2>2
  <2> HIDE DEF b
  <2>4. \A j \in 1 .. 2 - 1 : j = 1
    OBVIOUS
  <2>5. Announces(b, 2, l)
    BY <2>1, <2>3, <2>4 DEF Announces
  <2> QED BY <2>3, <2>5 DEF b, l
<1> QED BY <1>1, <1>2

\* Where the length in front of data may end.
Ends(data) == { k \in 1 .. 4 : k <= Len(data) /\ data[k] < 128 /\ \A j \in 1 .. k - 1 : data[j] >= 128 }
SevenBits(data, k, j) == IF j <= k THEN data[j] % 128 ELSE 0
Length(data, k) ==
  LET bits(j) == SevenBits(data, k, j) IN bits(1) + 128 * (bits(2) + 128 * (bits(3) + 128 * bits(4)))
CutShort(data, k, l) == Len(data) < k + l

\* The last unit is all of the data, any other is behind its length.
LastObu(data) == GetObu(data, TRUE)
SizedObu(data) == GetObu(data, FALSE)

LEMMA ObuIs ==
  ASSUME NEW data
  PROVE  /\ LastObu(data) = [obu |-> data, used |-> Len(data), truncated |-> FALSE]
         /\ Ends(data) = {} => SizedObu(data) = [obu |-> <<>>, used |-> 0, truncated |-> TRUE]
         /\ \A k : Ends(data) = {k} =>
              SizedObu(data) =
                IF CutShort(data, k, Length(data, k))
                THEN [obu |-> From(data, k + 1), used |-> Len(data), truncated |-> TRUE]
                ELSE [obu |-> SubSeq(data, k + 1, k + Length(data, k)), used |-> k + Length(data, k), truncated |-> FALSE]
<1>1. LastObu(data) = [obu |-> data, used |-> Len(data), truncated |-> FALSE]
  BY DEF GetObu, LastObu
<1>2. ASSUME Ends(data) = {}
      PROVE  SizedObu(data) = [obu |-> <<>>, used |-> 0, truncated |-> TRUE]
  BY <1>2 DEF GetObu, SizedObu, Ends
<1>3. ASSUME NEW k, Ends(data) = {k}
      PROVE  SizedObu(data) =
               IF CutShort(data, k, Length(data, k))
               THEN [obu |-> From(data, k + 1), used |-> Len(data), truncated |-> TRUE]
               ELSE [obu |-> SubSeq(data, k + 1, k + Length(data, k)), used |-> k + Length(data, k), truncated |-> FALSE]
  <2>1. (CHOOSE e \in Ends(data) : TRUE) = k
    BY <1>3
  <2>2. Ends(data) # {}
    BY <1>3
  <2> DEFINE m == CHOOSE e \in Ends(data) : TRUE
  <2>3. SizedObu(data) =
               IF CutShort(data, m, Length(data, m))
               THEN [obu |-> From(data, m + 1), used |-> Len(data), truncated |-> TRUE]
               ELSE [obu |-> SubSeq(data, m + 1, m + Length(data, m)), used |-> m + Length(data, m), truncated |-> FALSE]
    BY <2>2, Zenon DEF GetObu, SizedObu, Ends, Length, SevenBits, CutShort
  <2> QED BY <2>1, <2>3, Zenon
<1> QED BY <1>1, <1>2, <1>3

LEMMA EndIs ==
  ASSUME NEW data \in Seq(Byte), NEW h, NEW l \in Nat, Announces(data, h, l)
  PROVE  Ends(data) = {h} /\ Length(data, h) = l
<1>1. h \in {1, 2} /\ h <= Len(data) /\ Len(data) \in Nat /\ data[h] < 128 /\ \A j \in 1 .. h - 1 : data[j] >= 128
  BY DEF Announces
<1>2. \A j \in 1 .. Len(data) : data[j] \in Nat
  BY ElementOfSeq, ByteIsNat
<1>3. h \in Ends(data)
  BY <1>1 DEF Ends
<1>4. ASSUME NEW k \in Ends(data) PROVE k = h
  <2>1. k \in 1 .. 4 /\ k <= Len(data) /\ data[k] < 128 /\ \A j \in 1 .. k - 1 : data[j] >= 128
    BY DEF Ends
  <2>2. ~(k < h)
    <3>1. k < h => k \in 1 .. h - 1 /\ k \in 1 .. Len(data)
      BY <1>1, <2>1
    <3> QED BY <1>1, <1>2, <2>1, <3>1
  <2>3. ~(h < k)
    <3>1. h < k => h \in 1 .. k - 1 /\ h \in 1 .. Len(data)
      BY <1>1, <2>1
    <3> QED BY <1>1, <1>2, <2>1, <3>1
  <2> QED BY <1>1, <2>1, <2>2, <2>3
<1>5. Length(data, h) = l
  <2>1. CASE h = 1
    <3>1. data[1] = l /\ data[1] \in Nat /\ data[1] < 128
      BY <1>1, <1>2, <2>1 DEF Announces
    <3>2. SevenBits(data, 1, 1) = l /\ SevenBits(data, 1, 2) = 0 /\ SevenBits(data, 1, 3) = 0 /\ SevenBits(data, 1, 4) = 0
      BY <3>1 DEF SevenBits
    <3> QED BY <2>1, <3>2 DEF Length
  <2>2. CASE h = 2
    <3>1. (data[1] % 128) + 128 * (data[2] % 128) = l
      BY <2>2 DEF Announces
    <3> DEFINE a == data[1] % 128
               b == data[2] % 128
    <3>2. SevenBits(data, 2, 1) = a /\ SevenBits(data, 2, 2) = b /\ SevenBits(data, 2, 3) = 0 /\ SevenBits(data, 2, 4) = 0
      BY DEF SevenBits
    <3>3. a \in Nat /\ b \in Nat
      <4>1. data[1] \in Nat /\ data[2] \in Nat
        BY <1>1, <1>2, <2>2
      <4> QED BY <4>1
    <3> HIDE DEF a, b
    <3>4. Length(data, 2) = a + 128 * (b + 128 * (0 + 128 * 0))
      BY <3>2 DEF Length
    <3>5. Length(data, 2) = a + 128 * b
      BY <3>3, <3>4
    <3> QED BY <2>2, <3>1, <3>5 DEF a, b
  <2> QED BY <1>1, <2>1, <2>2
<1> QED BY <1>3, <1>4, <1>5

LEMMA NoEnd ==
  ASSUME NEW data \in Seq(Byte), Len(data) = 0 \/ (Len(data) = 1 /\ data[1] >= 128)
  PROVE  Ends(data) = {}
<1>1. \A j \in 1 .. Len(data) : data[j] \in Nat
  BY ElementOfSeq, ByteIsNat
<1>2. ASSUME NEW k \in Ends(data) PROVE FALSE
  <2>1. k \in 1 .. 4 /\ k <= Len(data) /\ data[k] < 128
    BY DEF Ends
  <2>2. k = 1 /\ data[1] >= 128 /\ data[1] \in Nat
    BY <1>1, <2>1
  <2> QED BY <2>1, <2>2
<1> QED BY <1>2

\* The bytes taken are a number, whatever the data.
LEMMA UsedIsNat ==
  ASSUME NEW data \in Seq(Byte)
  PROVE  LastObu(data).used \in Nat /\ SizedObu(data).used \in Nat
<1>1. Len(data) \in Nat /\ \A j \in 1 .. Len(data) : data[j] \in Nat
  BY ElementOfSeq, ByteIsNat
<1>2. LastObu(data).used \in Nat
  BY <1>1, ObuIs
<1>3. CASE Ends(data) = {}
  BY <1>2, <1>3, ObuIs
<1>4. ASSUME NEW k \in Ends(data) PROVE SizedObu(data).used \in Nat
  <2>1. k \in 1 .. 4 /\ k <= Len(data) /\ data[k] < 128 /\ \A j \in 1 .. k - 1 : data[j] >= 128
    BY DEF Ends
  <2>2. Ends(data) = {k}
    <3>1. ASSUME NEW m \in Ends(data) PROVE m = k
      <4>1. m \in 1 .. 4 /\ m <= Len(data) /\ data[m] < 128 /\ \A j \in 1 .. m - 1 : data[j] >= 128
        BY DEF Ends
      <4>2. m < k => m \in 1 .. k - 1 /\ m \in 1 .. Len(data)
        BY <1>1, <2>1, <4>1
      <4>3. k < m => k \in 1 .. m - 1 /\ k \in 1 .. Len(data)
        BY <1>1, <2>1, <4>1
      <4> QED BY <1>1, <2>1, <4>1, <4>2, <4>3
    <3> QED BY <1>4, <3>1
  <2>3. \A j \in 1 .. 4 : SevenBits(data, k, j) \in Nat
    <3> TAKE j \in 1 .. 4
    <3>1. j <= k => j \in 1 .. Len(data)
      BY <1>1, <2>1
    <3> QED BY <1>1, <3>1 DEF SevenBits
  <2>4. Length(data, k) \in Nat
    <3>1. SevenBits(data, k, 1) \in Nat /\ SevenBits(data, k, 2) \in Nat /\ SevenBits(data, k, 3) \in Nat /\ SevenBits(data, k, 4) \in Nat
      BY <2>3
    <3> QED BY <3>1 DEF Length
  <2>5. k \in Nat
    BY <2>1
  <2>6. SizedObu(data).used = Len(data) \/ SizedObu(data).used = k + Length(data, k)
    BY <2>2, ObuIs
  <2> QED BY <1>1, <2>4, <2>5, <2>6
<1> QED BY <1>2, <1>3, <1>4

\* The unit behind byte x when n are counted and k are behind x's.
Obu(q, x, n, k) == GetObu(From(q, x), n = k)

LEMMA WhichObu ==
  ASSUME NEW q, NEW x, NEW n, NEW k
  PROVE  Obu(q, x, n, k) = IF n = k THEN LastObu(From(q, x)) ELSE SizedObu(From(q, x))
<1>1. CASE n = k
  <2>1. (n = k) = TRUE
    BY <1>1
  <2>2. Obu(q, x, n, k) = LastObu(From(q, x))
    BY <2>1, Zenon DEF Obu, LastObu
  <2> QED BY <1>1, <2>2
<1>2. CASE n # k
  <2>1. (n = k) = FALSE
    BY <1>2
  <2>2. Obu(q, x, n, k) = SizedObu(From(q, x))
    BY <2>1, Zenon DEF Obu, SizedObu
  <2> QED BY <1>2, <2>2
<1> QED BY <1>1, <1>2

LEMMA FromBytes ==
  ASSUME NEW q \in Seq(Byte), NEW x \in Nat \ {0}
  PROVE  /\ From(q, x) \in Seq(Byte)
         /\ Len(From(q, x)) = IF x <= Len(q) THEN Len(q) - x + 1 ELSE 0
         /\ \A i \in 1 .. Len(q) - x + 1 : From(q, x)[i] = q[x + i - 1]
<1>1. Len(q) \in Nat /\ \A i \in x .. Len(q) : q[i] \in Byte
  <2>1. \A i \in x .. Len(q) : i \in 1 .. Len(q)
    OBVIOUS
  <2> QED BY <2>1, ElementOfSeq
<1>2. x \in Int /\ Len(q) \in Int
  BY <1>1
<1> QED BY <1>1, <1>2, SubSeqProperties DEF From

LEMMA ObuStarts ==
  ASSUME NEW q \in Seq(Byte), NEW n \in Nat, ObuCount(q) = n
  PROVE  /\ ObuStart(q)[0] = 2
         /\ \A i \in 1 .. n :
              ObuStart(q)[i] = ObuStart(q)[i - 1] + Obu(q, ObuStart(q)[i - 1], n, i).used
<1> DEFINE V == Nat \ {0}
           G == [i \in 1 .. n |-> [x \in V |-> x + Obu(q, x, n, i).used]]
           Body(f) == [i \in 0 .. n |-> IF i = 0 THEN 2 ELSE f[i - 1] + Obu(q, f[i - 1], n, i).used]
           r == CHOOSE f : f = Body(f)
<1>1. ASSUME NEW x \in V, NEW i \in 1 .. n
      PROVE  x + Obu(q, x, n, i).used \in V
  <2>1. From(q, x) \in Seq(Byte)
    BY FromBytes
  <2>2. LastObu(From(q, x)).used \in Nat /\ SizedObu(From(q, x)).used \in Nat
    BY <2>1, UsedIsNat
  <2>3. Obu(q, x, n, i).used \in Nat
    BY <2>2, WhichObu
  <2> QED BY <2>3
<1>2. G \in [1 .. n -> [V -> V]] /\ 2 \in V
  <2> HIDE DEF V
  <2>1. G \in [1 .. n -> [V -> V]]
    BY <1>1
  <2> QED BY <2>1 DEF V
<1>3. PICK f : CountsUp(f, n, V, 2, G)
  <2> HIDE DEF V, G
  <2> QED BY <1>2, UpwardRecursion
<1>4. ASSUME NEW i \in 1 .. n
      PROVE  f[i] = f[i - 1] + Obu(q, f[i - 1], n, i).used
  <2>1. f[i - 1] \in V /\ f[i] = G[i][f[i - 1]]
    <3> HIDE DEF V, G
    <3> QED BY <1>3 DEF CountsUp
  <2> HIDE DEF V
  <2> QED BY <2>1
<1>5. f = Body(f)
  <2>1. f \in [0 .. n -> V] /\ f[0] = 2
    BY <1>3 DEF CountsUp
  <2> HIDE DEF V
  <2> QED BY <1>4, <2>1
<1>6. ObuStart(q) = r
  BY Zenon DEF ObuStart, Obu
<1> HIDE DEF Body
<1>7. r = Body(r)
  BY <1>5
<1> HIDE DEF r
<1> QED BY <1>6, <1>7 DEF Body

\* The first bytes of a unit u.
Begins(obu, u) ==
  /\ obu \in Seq(Byte) /\ Len(obu) <= Len(u)
  /\ \A x \in 1 .. Len(obu) : obu[x] = u[x]

\* What is in a packet of a unit that is not the last.
Block(u) == Leb128(Len(u)) \o u

LEMMA BlockBytes ==
  ASSUME NEW u \in Seq(Byte), Short7Bits(u)
  PROVE  \E h \in {1, 2} :
           /\ Block(u) \in Seq(Byte) /\ Len(Block(u)) = h + Len(u)
           /\ Len(Leb128(Len(u))) = h /\ Announces(Block(u), h, Len(u))
           /\ \A x \in 1 .. Len(u) : Block(u)[h + x] = u[x]
<1> DEFINE b == Leb128(Len(u))
           h == Len(b)
           l == Len(u)
           t == b \o u
<1>1. b \in Seq(Byte) /\ Announces(b, h, l) /\ l \in Nat
  BY LengthAnnounced
<1>2. h \in {1, 2} /\ b[h] < 128 /\ \A j \in 1 .. h - 1 : b[j] >= 128
  BY <1>1 DEF Announces
<1>3. (h = 1 => b[1] = l) /\ (h = 2 => (b[1] % 128) + 128 * (b[2] % 128) = l)
  BY <1>1 DEF Announces
<1> HIDE DEF b
<1>4. /\ t \in Seq(Byte) /\ Len(t) = h + l
      /\ \A i \in 1 .. h + l : t[i] = IF i <= h THEN b[i] ELSE u[i - h]
  BY <1>1, ConcatProperties
<1>5. Block(u) = t
  BY DEF Block, b
<1> HIDE DEF t, h, l
<1>6. \A i \in 1 .. h : t[i] = b[i]
  <2>1. \A i \in 1 .. h : i \in 1 .. h + l /\ i <= h
    BY <1>1, <1>2
  <2> QED BY <1>4, <2>1
<1>7. \A x \in 1 .. l : t[h + x] = u[x]
  <2>1. \A x \in 1 .. l : h + x \in 1 .. h + l /\ ~(h + x <= h) /\ (h + x) - h = x
    BY <1>1, <1>2
  <2> QED BY <1>4, <2>1
<1>8. Announces(t, h, l)
  <2>1. h \in 1 .. h /\ h <= h + l /\ 1 \in 1 .. h /\ \A j \in 1 .. h - 1 : j \in 1 .. h
    BY <1>1, <1>2
  <2>2. h = 2 => 2 \in 1 .. h
    BY <1>2
  <2>3. (h = 1 => t[1] = l) /\ (h = 2 => (t[1] % 128) + 128 * (t[2] % 128) = l)
    BY <1>3, <1>6, <2>1, <2>2
  <2>4. t[h] < 128 /\ \A j \in 1 .. h - 1 : t[j] >= 128
    BY <1>2, <1>6, <2>1
  <2>5. h <= Len(t)
    BY <1>4, <2>1
  <2> QED BY <1>2, <2>3, <2>4, <2>5 DEF Announces
<1> QED BY <1>2, <1>4, <1>5, <1>7, <1>8 DEF h, l, b

\* The data agree with the block as far as both go.
Agrees(data, b) == \A x \in 1 .. Len(b) : x <= Len(data) => data[x] = b[x]

\* What is taken of a unit u in a block of b bytes when there are d bytes of data.
Taken(g, u, b, d) ==
  /\ Begins(g.obu, u)
  /\ d >= b => g.obu = u /\ g.used = b /\ g.truncated = FALSE
  /\ d < b => g.truncated = TRUE

LEMMA PartOf ==
  ASSUME NEW data \in Seq(Byte), NEW u \in Seq(Byte), NEW h \in Nat, NEW e \in Nat,
         e <= Len(data), e <= h + Len(u), h <= e,
         \A x \in 1 .. Len(u) : h + x <= Len(data) => data[h + x] = u[x]
  PROVE  /\ Begins(SubSeq(data, h + 1, e), u)
         /\ e = h + Len(u) => SubSeq(data, h + 1, e) = u
<1> DEFINE s == SubSeq(data, h + 1, e)
           l == Len(u)
           d == Len(data)
<1>1. l \in Nat /\ d \in Nat
  OBVIOUS
<1>2. \A i \in h + 1 .. e : data[i] \in Byte
  <2>1. \A i \in h + 1 .. e : i \in 1 .. Len(data)
    OBVIOUS
  <2> QED BY <2>1, ElementOfSeq
<1>3. /\ s \in Seq(Byte)
      /\ Len(s) = IF h + 1 <= e THEN e - (h + 1) + 1 ELSE 0
      /\ \A i \in 1 .. e - (h + 1) + 1 : s[i] = data[(h + 1) + i - 1]
  <2>1. h + 1 \in Int /\ e \in Int
    OBVIOUS
  <2> QED BY <1>2, <2>1, SubSeqProperties
<1> HIDE DEF s
<1>4. e <= d /\ e <= h + l
  OBVIOUS
<1> HIDE DEF l, d
<1>5. Len(s) = e - h /\ e - (h + 1) + 1 = e - h
  BY <1>1, <1>3, <1>4
<1>6. \A x \in 1 .. e - h : x \in 1 .. l /\ h + x <= d /\ (h + 1) + x - 1 = h + x
  BY <1>1, <1>4
<1>7. \A x \in 1 .. e - h : s[x] = u[x]
  BY <1>3, <1>5, <1>6 DEF l, d
<1>8. Len(s) <= l
  BY <1>1, <1>4, <1>5
<1>9. Begins(s, u)
  BY <1>3, <1>5, <1>7, <1>8 DEF Begins, l
<1>10. ASSUME e = h + l PROVE s = u
  <2>1. Len(s) = l
    BY <1>1, <1>5, <1>10
  <2>2. Len(s) = Len(u) /\ \A x \in 1 .. Len(s) : s[x] = u[x]
    BY <1>5, <1>7, <2>1 DEF l
  <2> QED BY <1>3, <2>2, SeqEqual
<1> QED BY <1>9, <1>10 DEF s, l

LEMMA SizedTaken ==
  ASSUME NEW u \in Seq(Byte), Short7Bits(u), NEW data \in Seq(Byte), Agrees(data, Block(u))
  PROVE  Taken(SizedObu(data), u, Len(Block(u)), Len(data))
<1> DEFINE b == Block(u)
           l == Len(u)
           d == Len(data)
           g == SizedObu(data)
<1>1. PICK h \in {1, 2} : /\ b \in Seq(Byte) /\ Len(b) = h + l
                          /\ Announces(b, h, l)
                          /\ \A x \in 1 .. l : b[h + x] = u[x]
  BY BlockBytes
<1>2. l \in Nat /\ d \in Nat /\ h \in Nat \ {0} /\ h + l \in Nat
  BY <1>1
<1>3. \A x \in 1 .. h + l : x <= d => data[x] = b[x]
  BY <1>1 DEF Agrees
<1>4. b[h] < 128 /\ (\A j \in 1 .. h - 1 : b[j] >= 128)
      /\ (h = 1 => b[1] = l) /\ (h = 2 => (b[1] % 128) + 128 * (b[2] % 128) = l)
  BY <1>1 DEF Announces
<1>5. u \in Seq(Byte) /\ data \in Seq(Byte)
  OBVIOUS
<1> HIDE DEF b, l, d, g
<1>6. CASE h <= d
  <2>1. \A x \in 1 .. h : x \in 1 .. h + l /\ x <= d
    BY <1>2, <1>6
  <2>2. \A x \in 1 .. h : data[x] = b[x]
    BY <1>3, <2>1
  <2>3. Announces(data, h, l)
    <3>1. h \in 1 .. h /\ 1 \in 1 .. h /\ (\A j \in 1 .. h - 1 : j \in 1 .. h) /\ (h = 2 => 2 \in 1 .. h)
      BY <1>2
    <3>2. (h = 1 => data[1] = l) /\ (h = 2 => (data[1] % 128) + 128 * (data[2] % 128) = l)
      BY <1>4, <2>2, <3>1
    <3>3. data[h] < 128 /\ \A j \in 1 .. h - 1 : data[j] >= 128
      BY <1>4, <2>2, <3>1
    <3> QED BY <1>1, <1>6, <3>2, <3>3 DEF Announces, d
  <2>4. Ends(data) = {h} /\ Length(data, h) = l
    BY <1>2, <1>5, <2>3, EndIs
  <2>5. g = IF CutShort(data, h, l)
            THEN [obu |-> From(data, h + 1), used |-> d, truncated |-> TRUE]
            ELSE [obu |-> SubSeq(data, h + 1, h + l), used |-> h + l, truncated |-> FALSE]
    BY <2>4, ObuIs DEF g, d
  <2>6. CutShort(data, h, l) <=> d < h + l
    BY DEF CutShort, d
  <2>7. \A x \in 1 .. l : h + x <= d => data[h + x] = u[x]
    <3>1. \A x \in 1 .. l : h + x \in 1 .. h + l
      BY <1>2
    <3> QED BY <1>1, <1>3, <3>1
  <2>8. CASE d < h + l
    <3>1. g.obu = SubSeq(data, h + 1, d) /\ g.truncated = TRUE
      BY <2>5, <2>6, <2>8 DEF From, d
    <3>2. d <= Len(data) /\ d <= h + Len(u)
      BY <1>2, <2>8 DEF l, d
    <3>3. Begins(SubSeq(data, h + 1, d), u)
      BY <1>2, <1>5, <1>6, <2>7, <3>2, PartOf DEF l, d
    <3> QED BY <1>1, <1>2, <2>8, <3>1, <3>3 DEF Taken, g, d, b
  <2>9. CASE ~(d < h + l)
    <3>1. g.obu = SubSeq(data, h + 1, h + l) /\ g.used = h + l /\ g.truncated = FALSE
      BY <2>5, <2>6, <2>9
    <3> DEFINE e == h + l
    <3>2. e \in Nat /\ e <= Len(data) /\ e <= h + Len(u) /\ h <= e /\ e = h + Len(u)
      BY <1>2, <2>9 DEF l, d
    <3>3. Begins(SubSeq(data, h + 1, e), u) /\ SubSeq(data, h + 1, e) = u
      <4> HIDE DEF e
      <4>1. \A x \in 1 .. Len(u) : h + x <= Len(data) => data[h + x] = u[x]
        BY <2>7 DEF l, d
      <4>2. h \in Nat /\ e \in Nat /\ e <= Len(data) /\ e <= h + Len(u) /\ h <= e /\ e = h + Len(u)
        BY <1>2, <3>2
      <4> QED BY <1>5, <4>1, <4>2, PartOf
    <3> QED BY <1>1, <1>2, <2>9, <3>1, <3>3 DEF Taken, g, d, b
  <2> QED BY <2>8, <2>9
<1>7. CASE ~(h <= d)
  <2>1. d = 0 \/ (d = 1 /\ h = 2)
    BY <1>1, <1>2, <1>7
  <2>2. d = 1 /\ h = 2 => data[1] >= 128
    <3>1. d = 1 /\ h = 2 => 1 \in 1 .. h + l /\ 1 <= d /\ 1 \in 1 .. h - 1
      BY <1>2
    <3> QED BY <1>3, <1>4, <3>1
  <2>3. Ends(data) = {}
    BY <1>5, <2>1, <2>2, NoEnd DEF d
  <2>4. g.obu = <<>> /\ g.truncated = TRUE
    BY <2>3, ObuIs DEF g
  <2>5. Begins(<<>>, u)
    BY <1>2 DEF Begins, l
  <2>6. d < h + l
    BY <1>2, <1>7
  <2> QED BY <1>1, <1>2, <2>4, <2>5, <2>6 DEF Taken, g, d, b
<1> QED BY <1>6, <1>7

\* The last unit is all that is left.
LEMMA LastTaken ==
  ASSUME NEW u \in Seq(Byte), NEW data \in Seq(Byte), Agrees(data, u), Len(data) <= Len(u)
  PROVE  /\ Begins(LastObu(data).obu, u) /\ LastObu(data).used = Len(data)
         /\ LastObu(data).obu = data /\ LastObu(data).truncated = FALSE
         /\ Len(data) = Len(u) => LastObu(data).obu = u
<1>1. LastObu(data).obu = data /\ LastObu(data).used = Len(data) /\ LastObu(data).truncated = FALSE
  BY ObuIs
<1>2. Len(data) \in Nat /\ Len(u) \in Nat
  OBVIOUS
<1>3. \A x \in 1 .. Len(data) : data[x] = u[x]
  BY <1>2 DEF Agrees
<1>4. Begins(data, u)
  BY <1>3 DEF Begins
<1>5. Len(data) = Len(u) => data = u
  BY <1>3, SeqEqual
<1> QED BY <1>1, <1>4, <1>5

\* What a sender puts into an AV1 packet.
AreObus(units) ==
  /\ Whole(units) /\ Len(units) <= 3
  /\ \A k \in 1 .. Len(units) - 1 : Short7Bits(units[k])

\* What unit k takes, and where each begins: all of it is in the packet's bytes.
Piece(units, k) == IF k = Len(units) THEN units[k] ELSE Block(units[k])

ObusLaid(p, units, o) ==
  /\ o \in [0 .. Len(units) -> Nat \ {0}] /\ o[0] = 2 /\ o[Len(units)] = Len(p) + 1
  /\ \A k \in 1 .. Len(units) :
       /\ o[k] = o[k - 1] + Len(Piece(units, k))
       /\ \A x \in 1 .. Len(Piece(units, k)) : p[o[k - 1] - 1 + x] = Piece(units, k)[x]

LEMMA PieceBytes ==
  ASSUME NEW units, AreObus(units), NEW k \in 1 .. Len(units)
  PROVE  /\ Piece(units, k) \in Seq(Byte) /\ Len(Piece(units, k)) \in Nat \ {0}
         /\ units[k] \in Seq(Byte) /\ units[k] # <<>> /\ Len(units[k]) \in Nat \ {0}
<1> DEFINE n == Len(units)
<1>1. n \in Nat /\ units[k] \in Seq(Byte) /\ units[k] # <<>>
  BY DEF AreObus, Whole
<1>2. Len(units[k]) \in Nat \ {0}
  BY <1>1, FirstBytes
<1>3. CASE k = n
  BY <1>1, <1>2, <1>3 DEF Piece
<1>4. CASE k # n
  <2>1. k \in 1 .. n - 1
    BY <1>1, <1>4
  <2>2. Short7Bits(units[k])
    BY <2>1 DEF AreObus
  <2>3. PICK h \in {1, 2} : Block(units[k]) \in Seq(Byte) /\ Len(Block(units[k])) = h + Len(units[k])
    BY <1>1, <2>2, BlockBytes
  <2>4. Piece(units, k) = Block(units[k])
    BY <1>4 DEF Piece
  <2>5. h + Len(units[k]) \in Nat \ {0}
    BY <1>2, <2>3
  <2> QED BY <1>1, <1>2, <2>3, <2>4, <2>5
<1> QED BY <1>3, <1>4

LEMMA Av1Laid ==
  ASSUME NEW units, AreObus(units), NEW first \in Byte
  PROVE  LET p == <<first>> \o FlattenSeq([k \in 1 .. Len(units) - 1 |-> Leb128(Len(units[k])) \o units[k]]) \o Last(units)
         IN p \in Seq(Byte) /\ Len(p) >= 2 /\ p[1] = first /\ \E o : ObusLaid(p, units, o)
<1> DEFINE n == Len(units)
           pieces == [k \in 1 .. n - 1 |-> Leb128(Len(units[k])) \o units[k]]
           all == [k \in 1 .. n |-> Piece(units, k)]
           t == FlattenSeq(pieces)
           last == Last(units)
           u == t \o last
           p == <<first>> \o t \o last
<1>0. n \in Nat \ {0}
  <2>1. n \in Nat /\ n >= 1
    BY DEF AreObus, Whole
  <2> QED BY <2>1
<1>1. \A k \in 1 .. n : Piece(units, k) \in Seq(Byte) /\ Len(Piece(units, k)) \in Nat \ {0}
  BY PieceBytes
<1>2. last \in Seq(Byte) /\ last = Piece(units, n)
  <2>1. n \in 1 .. n
    BY <1>0
  <2>2. last = Piece(units, n)
    BY DEF Last, Piece
  <2> QED BY <1>1, <2>1, <2>2
<1> HIDE DEF last
<1>3. \A k \in 1 .. n - 1 : Leb128(Len(units[k])) \o units[k] = Piece(units, k)
  <2> TAKE k \in 1 .. n - 1
  <2>1. k # Len(units)
    BY <1>0
  <2> QED BY <2>1 DEF Piece, Block
<1>4. pieces \in Seq(Seq(Byte)) /\ Len(pieces) = n - 1 /\ \A k \in 1 .. n - 1 : pieces[k] = Piece(units, k)
  <2>1. \A k \in 1 .. n - 1 : k \in 1 .. n
    BY <1>0
  <2>2. \A k \in 1 .. n - 1 : Leb128(Len(units[k])) \o units[k] \in Seq(Byte)
    BY <1>1, <1>3, <2>1
  <2>3. n - 1 \in Nat
    BY <1>0
  <2>4. \A k \in 1 .. n - 1 : pieces[k] = Piece(units, k)
    BY <1>3
  <2> DEFINE m == n - 1
             in(k) == Leb128(Len(units[k])) \o units[k]
  <2>5. m \in Nat /\ (\A k \in 1 .. m : in(k) \in Seq(Byte)) /\ pieces = [k \in 1 .. m |-> in(k)]
    BY <2>2, <2>3
  <2> HIDE DEF m, in, pieces
  <2>6. pieces \in Seq(Seq(Byte)) /\ Len(pieces) = m
    BY <2>5
  <2> QED BY <2>4, <2>6 DEF m
<1> HIDE DEF pieces
<1>5. t \in Seq(Byte) /\ \E ends : Pieced(t, n - 1, pieces, ends)
  <2>1. t \in Seq(Byte) /\ \E ends : Pieced(t, Len(pieces), pieces, ends)
    BY <1>4, PiecesAreFlattened
  <2> QED BY <1>4, <2>1
<1> HIDE DEF t
<1>6. \A k \in 1 .. n : all[k] = Piece(units, k) /\ all[k] \in Seq(Byte) /\ Len(all[k]) \in Nat \ {0}
  BY <1>1
<1> HIDE DEF all
<1>7. PICK ends : Pieced(t, n - 1, all, ends)
  <2>1. PICK e : Pieced(t, n - 1, pieces, e)
    BY <1>5
  <2>2. \A k \in 1 .. n - 1 : all[k] = pieces[k]
    <3>1. \A k \in 1 .. n - 1 : k \in 1 .. n
      BY <1>0
    <3> QED BY <1>4, <1>6, <3>1
  <2> HIDE DEF n
  <2>3. Pieced(t, n - 1, all, e)
    BY <2>1, <2>2 DEF Pieced
  <2> QED BY <2>3
<1>8. PICK more : Pieced(u, n, all, more)
  <2> DEFINE m == n - 1
  <2>1. m \in Nat /\ m + 1 = n /\ \A k \in 1 .. m + 1 : all[k] \in Seq(Byte)
    BY <1>0, <1>6
  <2>2. all[m + 1] = last
    <3>1. n \in 1 .. n
      BY <1>0
    <3> QED BY <1>2, <1>6, <2>1, <3>1
  <2> HIDE DEF m
  <2>3. Pieced(t, m, all, ends)
    BY <1>7 DEF m
  <2>4. \E more : Pieced(t \o all[m + 1], m + 1, all, more)
    BY <1>5, <2>1, <2>3, OneMorePiece
  <2> QED BY <2>1, <2>2, <2>4
<1>9. u \in Seq(Byte) /\ <<first>> \in Seq(Byte) /\ Len(<<first>>) = 1 /\ <<first>>[1] = first
  BY <1>2, <1>5, ConcatProperties
<1>10. p = <<first>> \o u
  BY <1>2, <1>5, <1>9, ConcatAssociative
<1> HIDE DEF u
<1> DEFINE head == <<first>>
<1>11. head \in Seq(Byte) /\ Len(head) = 1 /\ head[1] = first /\ p = head \o u
  BY <1>9, <1>10
<1> HIDE DEF head, p
<1>12. /\ p \in Seq(Byte) /\ Len(p) = 1 + Len(u)
       /\ \A i \in 1 .. 1 + Len(u) : p[i] = IF i <= 1 THEN head[i] ELSE u[i - 1]
  <2>1. /\ head \o u \in Seq(Byte) /\ Len(head \o u) = Len(head) + Len(u)
        /\ \A i \in 1 .. Len(head) + Len(u) : (head \o u)[i] = IF i <= Len(head) THEN head[i] ELSE u[i - Len(head)]
    BY <1>9, <1>11, ConcatProperties
  <2> QED BY <1>11, <2>1
<1>13. Len(u) \in Nat
  BY <1>9
<1>14. p[1] = first
  <2>1. 1 \in 1 .. 1 + Len(u)
    BY <1>13
  <2> QED BY <1>11, <1>12, <2>1
<1>15. \A x \in 1 .. Len(u) : p[1 + x] = u[x]
  <2>1. \A x \in 1 .. Len(u) : 1 + x \in 1 .. 1 + Len(u) /\ ~(1 + x <= 1) /\ (1 + x) - 1 = x
    BY <1>13
  <2> QED BY <1>12, <2>1
<1>16. /\ more \in [0 .. n -> Nat] /\ more[0] = 0 /\ more[n] = Len(u)
       /\ \A k \in 1 .. n : more[k] = more[k - 1] + Len(all[k])
  BY <1>8 DEF Pieced
<1>17. \A k \in 1 .. n : \A x \in 1 .. Len(all[k]) : u[more[k - 1] + x] = all[k][x]
  BY <1>8 DEF Pieced
<1> DEFINE o == [k \in 0 .. n |-> 2 + more[k]]
<1> HIDE DEF n
<1>18. o \in [0 .. n -> Nat \ {0}] /\ o[0] = 2 /\ o[n] = Len(p) + 1
  <2>1. 0 \in 0 .. n /\ n \in 0 .. n /\ \A k \in 0 .. n : 2 + more[k] \in Nat \ {0}
    BY <1>0, <1>16
  <2> QED BY <1>12, <1>13, <1>16, <2>1
<1>19. ASSUME NEW k \in 1 .. n
       PROVE  /\ o[k] = o[k - 1] + Len(Piece(units, k))
              /\ \A x \in 1 .. Len(Piece(units, k)) : p[o[k - 1] - 1 + x] = Piece(units, k)[x]
  <2>1. k \in 0 .. n /\ k - 1 \in 0 .. n /\ n \in k .. n
    BY <1>0
  <2>2. o[k] = 2 + more[k] /\ o[k - 1] = 2 + more[k - 1] /\ more[k] \in Nat /\ more[k - 1] \in Nat
    BY <1>16, <2>1
  <2> HIDE DEF o
  <2>3. more[k] = more[k - 1] + Len(all[k]) /\ Len(all[k]) \in Nat /\ all[k] = Piece(units, k)
    BY <1>6, <1>16
  <2>4. more[k] <= Len(u)
    <3>1. \A j \in 1 .. n : more[j - 1] <= more[j]
      <4> TAKE j \in 1 .. n
      <4>1. j \in 0 .. n /\ j - 1 \in 0 .. n
        BY <1>0
      <4>2. more[j] = more[j - 1] + Len(all[j]) /\ Len(all[j]) \in Nat
        BY <1>6, <1>16
      <4> QED BY <1>16, <4>1, <4>2
    <3>2. n \in Nat
      BY <1>0
    <3>3. more[k] <= more[n]
      BY <1>16, <2>1, <3>1, <3>2, NeverFalls
    <3> QED BY <1>16, <3>3
  <2>5. ASSUME NEW x \in 1 .. Len(all[k]) PROVE p[o[k - 1] - 1 + x] = all[k][x]
    <3> DEFINE e == more[k - 1]
               l == Len(all[k])
               m == Len(u)
    <3>1. e \in Nat /\ l \in Nat /\ m \in Nat /\ e + l <= m /\ x \in 1 .. l /\ o[k - 1] = 2 + e
      BY <1>13, <2>2, <2>3, <2>4
    <3>2. p[1 + (e + x)] = u[e + x]
      <4>1. e + x \in 1 .. m
        <5> HIDE DEF e, l, m
        <5> QED BY <3>1
      <4> HIDE DEF e
      <4> QED BY <1>15, <4>1
    <3>3. o[k - 1] - 1 + x = 1 + (e + x)
      <4> HIDE DEF e, l, m
      <4> QED BY <3>1
    <3> QED BY <1>17, <3>2, <3>3
  <2> QED BY <2>2, <2>3, <2>5
<1>20. ObusLaid(p, units, o)
  <2> HIDE DEF o
  <2> QED BY <1>18, <1>19, Zenon DEF ObusLaid, n
<1>21. Len(u) >= 1
  <2>1. n \in 1 .. n /\ n - 1 \in 0 .. n
    BY <1>0
  <2>2. more[n] = more[n - 1] + Len(all[n]) /\ Len(all[n]) \in Nat \ {0} /\ more[n - 1] \in Nat
    BY <1>6, <1>16, <2>1
  <2> QED BY <1>13, <1>16, <2>2
<1>22. Len(p) >= 2
  BY <1>12, <1>13, <1>21
<1> QED BY <1>12, <1>14, <1>20, <1>22 DEF p, t, last, pieces, n

LEMMA ObuPlace ==
  ASSUME NEW p, IsBytes(p), NEW units, AreObus(units), NEW o, ObusLaid(p, units, o),
         NEW k \in 1 .. Len(units)
  PROVE  /\ o[k - 1] \in Nat \ {0} /\ o[k] \in Nat \ {0} /\ Len(Piece(units, k)) \in Nat \ {0}
         /\ o[k] = o[k - 1] + Len(Piece(units, k))
         /\ o[k] <= Len(p) + 1
<1> DEFINE n == Len(units)
           l(j) == Len(Piece(units, j))
<1>0. n \in Nat /\ \A j \in 1 .. n : l(j) \in Nat \ {0}
  <2>1. n \in Nat
    BY DEF AreObus, Whole
  <2> QED BY <2>1, PieceBytes
<1>1. o \in [0 .. n -> Nat \ {0}] /\ o[n] = Len(p) + 1 /\ \A j \in 1 .. n : o[j] = o[j - 1] + l(j)
  BY DEF ObusLaid
<1>2. k \in 1 .. n
  OBVIOUS
<1> HIDE DEF n, l
<1>3. \A j \in 1 .. n : j \in 0 .. n /\ j - 1 \in 0 .. n
  BY <1>0
<1>4. n \in k .. n /\ k \in 0 .. n /\ k - 1 \in 0 .. n
  BY <1>0, <1>2
<1>5. \A j \in 1 .. n : o[j - 1] <= o[j]
  <2> TAKE j \in 1 .. n
  <2>1. o[j] \in Nat /\ o[j - 1] \in Nat /\ l(j) \in Nat /\ o[j] = o[j - 1] + l(j)
    BY <1>0, <1>1, <1>3
  <2> QED BY <2>1
<1>6. o \in [0 .. n -> Nat]
  BY <1>1
<1>7. o[k] <= o[n]
  BY <1>0, <1>4, <1>5, <1>6, NeverFalls
<1>8. o[k - 1] \in Nat \ {0} /\ o[k] \in Nat \ {0} /\ o[k] = o[k - 1] + l(k) /\ l(k) \in Nat \ {0}
  BY <1>0, <1>1, <1>2, <1>4
<1> QED BY <1>1, <1>7, <1>8 DEF l

\* What is left behind byte o[k - 1] of a packet that was cut short.
LEMMA RestOfCut ==
  ASSUME NEW p, IsBytes(p), NEW units, AreObus(units), NEW o, ObusLaid(p, units, o),
         NEW k \in 1 .. Len(units), NEW q, NEW c, IsCut(q, p, c), o[k - 1] <= c + 1
  PROVE  /\ From(q, o[k - 1]) \in Seq(Byte) /\ Len(From(q, o[k - 1])) = (c + 1) - o[k - 1]
         /\ Agrees(From(q, o[k - 1]), Piece(units, k))
<1> DEFINE a == o[k - 1]
           data == From(q, a)
           b == Piece(units, k)
<1>1. a \in Nat \ {0} /\ Len(b) \in Nat
  BY ObuPlace
<1>2. q \in Seq(Byte) /\ Len(q) = c /\ c \in Nat /\ \A i \in 1 .. c : q[i] = p[i]
  BY DEF IsCut, IsBytes
<1>3. \A x \in 1 .. Len(b) : p[a - 1 + x] = b[x]
  BY DEF ObusLaid
<1>4. a <= c + 1
  OBVIOUS
<1> HIDE DEF a, b
<1>5. /\ data \in Seq(Byte)
      /\ Len(data) = IF a <= c THEN c - a + 1 ELSE 0
      /\ \A i \in 1 .. c - a + 1 : data[i] = q[a + i - 1]
  BY <1>1, <1>2, FromBytes
<1> HIDE DEF data
<1>6. Len(data) = (c + 1) - a
  BY <1>1, <1>2, <1>4, <1>5
<1>7. ASSUME NEW x \in 1 .. Len(b), x <= Len(data) PROVE data[x] = b[x]
  <2>1. x \in 1 .. c - a + 1 /\ a + x - 1 \in 1 .. c /\ a + x - 1 = a - 1 + x
    BY <1>1, <1>2, <1>4, <1>6, <1>7
  <2> QED BY <1>2, <1>3, <1>5, <2>1
<1>8. Agrees(data, b)
  BY <1>7 DEF Agrees
<1> QED BY <1>5, <1>6, <1>8 DEF data, a, b

\* What is found of unit k in a packet that was cut short.
FoundOf(g, u, from, to, c, last) ==
  /\ Begins(g.obu, u)
  /\ last = 0 /\ g.truncated # TRUE => g.obu = u /\ from + g.used = to /\ to <= c + 1
  /\ last = 1 => from + g.used = c + 1
  /\ to <= c + 1 => g.obu = u /\ g.truncated = FALSE

LEMMA ObuOfCut ==
  ASSUME NEW p, IsBytes(p), NEW units, AreObus(units), NEW o, ObusLaid(p, units, o),
         NEW k \in 1 .. Len(units), NEW q, NEW c, IsCut(q, p, c), o[k - 1] <= c + 1
  PROVE  FoundOf(Obu(q, o[k - 1], Len(units), k), units[k], o[k - 1], o[k], c, IF k = Len(units) THEN 1 ELSE 0)
<1> DEFINE a == o[k - 1]
           b == o[k]
           n == Len(units)
           data == From(q, a)
           u == units[k]
           l == Len(Piece(units, k))
           g == Obu(q, a, n, k)
<1>1. a \in Nat \ {0} /\ b \in Nat \ {0} /\ l \in Nat \ {0} /\ b = a + l /\ b <= Len(p) + 1
  BY ObuPlace
<1>2. u \in Seq(Byte)
  BY PieceBytes
<1>3. data \in Seq(Byte) /\ Len(data) = (c + 1) - a /\ Agrees(data, Piece(units, k))
  BY RestOfCut
<1>4. c \in Nat /\ c <= Len(p) /\ Len(p) \in Nat /\ a <= c + 1
  BY DEF IsCut, IsBytes
<1>5. g = IF n = k THEN LastObu(data) ELSE SizedObu(data)
  BY WhichObu
<1>6. k \in 1 .. n /\ n \in Nat /\ o[n] = Len(p) + 1
  BY DEF AreObus, Whole, ObusLaid
<1>7. k = n => b = Len(p) + 1
  BY <1>6
<1> HIDE DEF a, b, g
<1>8. CASE k = n
  <2>1. Piece(units, k) = u /\ l = Len(u)
    BY <1>8 DEF Piece
  <2>2. g = LastObu(data)
    BY <1>5, <1>8
  <2> HIDE DEF data, u, l
  <2>3. Agrees(data, u) /\ Len(data) <= Len(u)
    <3>1. Len(data) <= l
      BY <1>1, <1>3, <1>4, <1>8, <1>7
    <3> QED BY <1>3, <2>1, <3>1
  <2>4. /\ Begins(g.obu, u) /\ g.used = Len(data) /\ g.truncated = FALSE
        /\ Len(data) = Len(u) => g.obu = u
    BY <1>2, <1>3, <2>2, <2>3, LastTaken
  <2>5. a + g.used = c + 1
    BY <1>1, <1>3, <1>4, <2>4
  <2>6. b <= c + 1 => Len(data) = Len(u)
    BY <1>1, <1>3, <1>4, <2>1, <2>3
  <2>7. FoundOf(g, u, a, b, c, 1)
    BY <2>4, <2>5, <2>6 DEF FoundOf
  <2> QED BY <1>8, <2>7 DEF a, b, u, g
<1>9. CASE k # n
  <2>1. Piece(units, k) = Block(u) /\ l = Len(Block(u))
    BY <1>9 DEF Piece
  <2>2. Short7Bits(u)
    <3>1. k \in 1 .. n - 1
      BY <1>6, <1>9
    <3> QED BY <3>1 DEF AreObus
  <2>3. g = SizedObu(data)
    BY <1>5, <1>9
  <2> HIDE DEF data, u, l
  <2>4. Taken(g, u, l, Len(data))
    BY <1>2, <1>3, <2>1, <2>2, <2>3, SizedTaken
  <2>5. Len(data) >= l <=> b <= c + 1
    BY <1>1, <1>3, <1>4
  <2>6. Len(data) >= l \/ Len(data) < l
    BY <1>1, <1>3
  <2>7. /\ Begins(g.obu, u)
        /\ b <= c + 1 => g.obu = u /\ g.used = l /\ g.truncated = FALSE
        /\ ~(b <= c + 1) => g.truncated = TRUE
    BY <2>4, <2>5, <2>6, Zenon DEF Taken
  <2>8. b <= c + 1 => a + g.used = b
    BY <1>1, <2>7
  <2>9. FoundOf(g, u, a, b, c, 0)
    <3>1. 0 # 1
      OBVIOUS
    <3> QED BY <2>7, <2>8, <3>1, Zenon DEF FoundOf
  <2> QED BY <1>9, <2>9 DEF a, b, u, g
<1> QED BY <1>8, <1>9

\* Nothing is behind the last byte.
LEMMA NothingLeft ==
  ASSUME NEW q \in Seq(Byte), NEW n \in Nat
  PROVE  Obu(q, Len(q) + 1, n, n + 1).obu = <<>>
<1> DEFINE data == From(q, Len(q) + 1)
<1>1. Len(q) + 1 \in Nat \ {0} /\ ~(Len(q) + 1 <= Len(q))
  OBVIOUS
<1>2. data \in Seq(Byte) /\ Len(data) = 0
  BY <1>1, FromBytes
<1>3. Obu(q, Len(q) + 1, n, n + 1) = SizedObu(data)
  <2>1. n # n + 1
    OBVIOUS
  <2> QED BY <2>1, WhichObu
<1> HIDE DEF data
<1>4. Ends(data) = {}
  BY <1>2, NoEnd
<1> QED BY <1>3, <1>4, ObuIs

\* No unit before the i-th was cut short.
Passed(q, i) == \A j \in 0 .. i - 1 : ObuAt(q, j).truncated # TRUE

\* What is seen of the units in q, all of them if q is the whole packet.
ObusSeen(q, units) ==
  /\ \A i \in 0 .. Len(units) - 1 :
       Passed(q, i) => Begins(ObuAt(q, i).obu, units[i + 1])
  /\ \A i \in 0 .. Len(units) - 1 : Passed(q, i) => \A j \in 0 .. i - 1 : ObuAt(q, j).obu = units[j + 1]
  /\ Passed(q, Len(units)) => ObuAt(q, Len(units)).obu = <<>>

AllObusSeen(q, units) ==
  \A i \in 0 .. Len(units) - 1 : ObuAt(q, i).obu = units[i + 1] /\ ObuAt(q, i).truncated = FALSE

LEMMA WhatIsSeen ==
  ASSUME NEW p, IsBytes(p), NEW units, AreObus(units), NEW o, ObusLaid(p, units, o),
         NEW q, NEW c, IsCut(q, p, c), c >= 1, ObuCount(q) = Len(units)
  PROVE  ObusSeen(q, units) /\ (c = Len(p) => AllObusSeen(q, units))
<1> DEFINE n == Len(units)
           at == ObuStart(q)
           obu(i) == ObuAt(q, i)
           P == { i \in 0 .. n : Passed(q, i) => /\ i < n => at[i] = o[i] /\ o[i] <= c + 1
                                                 /\ i = n => at[i] = c + 1 }
<1>0. n \in Nat \ {0} /\ q \in Seq(Byte) /\ Len(q) = c /\ c \in Nat /\ o[0] = 2
  <2>1. n \in Nat /\ n >= 1
    BY DEF AreObus, Whole
  <2>2. q \in Seq(Byte) /\ Len(q) = c /\ c \in Nat
    BY DEF IsCut, IsBytes
  <2> QED BY <2>1, <2>2 DEF ObusLaid
<1>1. /\ at[0] = 2
      /\ \A i \in 1 .. n : at[i] = at[i - 1] + Obu(q, at[i - 1], n, i).used
  BY <1>0, ObuStarts
<1>2. \A i : obu(i) = Obu(q, at[i], n, i + 1)
  <2>1. \A i : ObuAt(q, i) = Obu(q, ObuStart(q)[i], ObuCount(q), i + 1)
    BY Zenon DEF ObuAt, Obu
  <2> QED BY <2>1
<1>3. ASSUME NEW k \in 1 .. n, o[k - 1] <= c + 1
      PROVE  FoundOf(Obu(q, o[k - 1], n, k), units[k], o[k - 1], o[k], c, IF k = n THEN 1 ELSE 0)
  BY <1>3, ObuOfCut
<1>4. \A k \in 1 .. n : o[k] <= Len(p) + 1 /\ o[k] \in Nat /\ o[k - 1] \in Nat
  BY ObuPlace
<1> HIDE DEF n, at, obu
<1>5. ASSUME NEW i \in 0 .. n - 1, i \in P, Passed(q, i)
      PROVE  /\ at[i] = o[i] /\ o[i] <= c + 1
             /\ FoundOf(obu(i), units[i + 1], o[i], o[i + 1], c, IF i + 1 = n THEN 1 ELSE 0)
             /\ at[i + 1] = o[i] + obu(i).used
  <2>1. i + 1 \in 1 .. n /\ (i + 1) - 1 = i /\ i < n
    BY <1>0
  <2>2. at[i] = o[i] /\ o[i] <= c + 1
    BY <1>5, <2>1
  <2>3. obu(i) = Obu(q, o[i], n, i + 1)
    BY <1>2, <2>2
  <2>4. FoundOf(Obu(q, o[i], n, i + 1), units[i + 1], o[i], o[i + 1], c, IF i + 1 = n THEN 1 ELSE 0)
    <3> DEFINE k == i + 1
    <3>1. k \in 1 .. n /\ k - 1 = i /\ o[k - 1] <= c + 1
      BY <2>1, <2>2
    <3> HIDE DEF k
    <3>2. FoundOf(Obu(q, o[k - 1], n, k), units[k], o[k - 1], o[k], c, IF k = n THEN 1 ELSE 0)
      BY <1>3, <3>1
    <3>3. FoundOf(Obu(q, o[i], n, k), units[k], o[i], o[k], c, IF k = n THEN 1 ELSE 0)
      BY <3>1, <3>2
    <3> QED BY <3>3 DEF k
  <2>5. at[i + 1] = at[i] + Obu(q, at[i], n, i + 1).used
    BY <1>1, <2>1
  <2> QED BY <2>2, <2>3, <2>4, <2>5
<1>6. \A i \in 0 .. n : i \in P
  <2>1. 0 \in P
    <3>1. o[0] <= c + 1 /\ 0 < n /\ 0 \in 0 .. n
      BY <1>0
    <3> QED BY <1>0, <1>1, <3>1
  <2>2. ASSUME NEW i \in 0 .. n - 1, i \in P PROVE i + 1 \in P
    <3>1. i \in 0 .. (i + 1) - 1 /\ (\A j \in 0 .. i - 1 : j \in 0 .. (i + 1) - 1) /\ i + 1 \in 0 .. n
      BY <1>0
    <3>2. ASSUME Passed(q, i + 1)
          PROVE  /\ i + 1 < n => at[i + 1] = o[i + 1] /\ o[i + 1] <= c + 1
                 /\ i + 1 = n => at[i + 1] = c + 1
      <4>1. Passed(q, i) /\ obu(i).truncated # TRUE
        BY <3>1, <3>2 DEF Passed, obu
      <4>2. /\ FoundOf(obu(i), units[i + 1], o[i], o[i + 1], c, IF i + 1 = n THEN 1 ELSE 0)
            /\ at[i + 1] = o[i] + obu(i).used
        BY <1>5, <2>2, <4>1
      <4>3. CASE i + 1 = n
        <5>1. FoundOf(obu(i), units[i + 1], o[i], o[i + 1], c, 1)
          BY <4>2, <4>3
        <5>2. o[i] + obu(i).used = c + 1
          BY <5>1, Zenon DEF FoundOf
        <5> QED BY <4>2, <4>3, <5>2
      <4>4. CASE i + 1 # n
        <5>1. FoundOf(obu(i), units[i + 1], o[i], o[i + 1], c, 0)
          BY <4>2, <4>4
        <5>2. o[i] + obu(i).used = o[i + 1] /\ o[i + 1] <= c + 1
          BY <4>1, <5>1, Zenon DEF FoundOf
        <5> QED BY <4>2, <4>4, <5>2
      <4> QED BY <4>3, <4>4
    <3> QED BY <3>1, <3>2
  <2>3. P \in SUBSET (0 .. n)
    OBVIOUS
  <2>4. n \in Nat
    BY <1>0
  <2> HIDE DEF P
  <2> QED BY <2>1, <2>2, <2>3, <2>4, UpwardInduction
<1>7. ASSUME NEW i \in 0 .. n - 1, Passed(q, i)
      PROVE  /\ o[i] <= c + 1
             /\ FoundOf(obu(i), units[i + 1], o[i], o[i + 1], c, IF i + 1 = n THEN 1 ELSE 0)
  <2>1. i \in 0 .. n
    BY <1>0
  <2>2. i \in P
    BY <1>6, <2>1
  <2> HIDE DEF P
  <2> QED BY <1>5, <1>7, <2>2
<1>8. ASSUME NEW i \in 0 .. n - 1, Passed(q, i) PROVE Begins(obu(i).obu, units[i + 1])
  <2>1. FoundOf(obu(i), units[i + 1], o[i], o[i + 1], c, IF i + 1 = n THEN 1 ELSE 0)
    BY <1>7, <1>8
  <2> QED BY <2>1, Zenon DEF FoundOf
<1>9. ASSUME NEW i \in 0 .. n - 1, Passed(q, i), NEW j \in 0 .. i - 1
      PROVE  obu(j).obu = units[j + 1]
  <2>1. j \in 0 .. n - 1 /\ j + 1 # n /\ \A x \in 0 .. j - 1 : x \in 0 .. i - 1
    BY <1>0
  <2>2. Passed(q, j) /\ obu(j).truncated # TRUE
    BY <1>9, <2>1 DEF Passed, obu
  <2>3. FoundOf(obu(j), units[j + 1], o[j], o[j + 1], c, IF j + 1 = n THEN 1 ELSE 0)
    BY <1>7, <2>1, <2>2
  <2>4. FoundOf(obu(j), units[j + 1], o[j], o[j + 1], c, 0)
    BY <2>1, <2>3
  <2> QED BY <2>2, <2>4, Zenon DEF FoundOf
<1>10. ASSUME Passed(q, n) PROVE obu(n).obu = <<>>
  <2>1. n \in 0 .. n /\ n \in Nat
    BY <1>0
  <2>2. at[n] = Len(q) + 1
    BY <1>0, <1>6, <1>10, <2>1
  <2>3. obu(n) = Obu(q, Len(q) + 1, n, n + 1)
    BY <1>2, <2>2
  <2> QED BY <1>0, <2>1, <2>3, NothingLeft
<1>11. ObusSeen(q, units)
  BY <1>8, <1>9, <1>10, Zenon DEF ObusSeen, n, obu
<1>12. ASSUME c = Len(p) PROVE AllObusSeen(q, units)
  <2>1. ASSUME NEW i \in 0 .. n - 1, Passed(q, i) PROVE obu(i).obu = units[i + 1] /\ obu(i).truncated = FALSE
    <3>1. FoundOf(obu(i), units[i + 1], o[i], o[i + 1], c, IF i + 1 = n THEN 1 ELSE 0)
      BY <1>7, <2>1
    <3>2. o[i + 1] <= c + 1
      <4>1. i + 1 \in 1 .. n
        BY <1>0
      <4> QED BY <1>4, <1>12, <4>1
    <3> QED BY <3>1, <3>2, Zenon DEF FoundOf
  <2> DEFINE Q == { i \in 0 .. n : Passed(q, i) }
  <2>2. 0 \in Q
    <3>1. 0 \in 0 .. n /\ \A j \in 0 .. 0 - 1 : FALSE
      BY <1>0
    <3>2. Passed(q, 0)
      BY <3>1 DEF Passed
    <3> QED BY <3>1, <3>2
  <2>3. ASSUME NEW i \in 0 .. n - 1, i \in Q PROVE i + 1 \in Q
    <3>1. i + 1 \in 0 .. n /\ \A j \in 0 .. (i + 1) - 1 : j = i \/ j \in 0 .. i - 1
      BY <1>0
    <3>2. obu(i).truncated = FALSE
      BY <2>1, <2>3
    <3>3. \A j \in 0 .. (i + 1) - 1 : ObuAt(q, j).truncated # TRUE
      BY <2>3, <3>1, <3>2 DEF Passed, obu
    <3> QED BY <3>1, <3>3 DEF Passed
  <2>4. \A i \in 0 .. n : i \in Q
    <3>1. Q \in SUBSET (0 .. n) /\ n \in Nat
      BY <1>0
    <3> HIDE DEF Q
    <3> QED BY <2>2, <2>3, <3>1, UpwardInduction
  <2>5. \A i \in 0 .. n - 1 : Passed(q, i)
    <3>1. \A i \in 0 .. n - 1 : i \in 0 .. n
      BY <1>0
    <3> QED BY <2>4, <3>1
  <2>6. \A i \in 0 .. n - 1 : obu(i).obu = units[i + 1] /\ obu(i).truncated = FALSE
    BY <2>1, <2>5
  <2> QED BY <2>6, Zenon DEF AllObusSeen, n, obu
<1> QED BY <1>11, <1>12

\* The frame that a decoder can begin with is the first one behind a sequence header.
Frames(units) == { k \in 2 .. Len(units) : ObuType(units[k]) \in {3, 6} }
Begun(units) ==
  /\ ObuType(units[1]) = 1
  /\ \E k \in Frames(units) : (\A j \in Frames(units) : k <= j) /\ Len(units[k]) >= 2 /\ units[k][2] < 32

LEMMA FirstByte ==
  ASSUME NEW n \in 1 .. 3
  PROVE  LET b == (n * 16) + 8 IN b \in Byte /\ ~Bit(b, 128) /\ Bit(b, 8) /\ (b \div 16) % 4 = n
<1>1. n = 1 \/ n = 2 \/ n = 3
  OBVIOUS
<1> QED BY <1>1 DEF Byte, Bit

\* What makes an AV1 packet one of a key frame.
Decides(q, k) ==
  /\ \A i \in 0 .. k - 1 : ObuAt(q, i).obu # <<>> /\ ~ObuAt(q, i).truncated
  /\ ObuType(ObuAt(q, 0).obu) = 1
  /\ \A i \in 1 .. k - 1 : ~IsFrame(ObuAt(q, i).obu)
  /\ IsFrame(ObuAt(q, k).obu) /\ Len(ObuAt(q, k).obu) >= 2 /\ ObuAt(q, k).obu[2] < 32

LEMMA FrameIsSent ==
  ASSUME NEW units, AreObus(units), NEW q, ObusSeen(q, units), NEW k \in 1 .. Len(units), Decides(q, k)
  PROVE  Begun(units)
<1> DEFINE n == Len(units)
           m == k + 1
           obu == ObuAt(q, k).obu
<1>0. n \in Nat /\ k \in 1 .. n
  BY DEF AreObus, Whole
<1>1. \A j \in 1 .. n : units[j] # <<>> /\ Len(units[j]) \in Nat \ {0}
  BY PieceBytes
<1>2. Passed(q, k)
  BY DEF Decides, Passed
<1>3. obu # <<>> /\ ObuType(obu) \in {3, 6} /\ Len(obu) >= 2 /\ obu[2] < 32
  BY DEF Decides, IsFrame
<1>4. k # n
  BY <1>2, <1>3 DEF ObusSeen
<1>5. k \in 0 .. n - 1 /\ m \in 2 .. n /\ 0 \in 0 .. k - 1
  BY <1>0, <1>4
<1>6. Begins(obu, units[m]) /\ \A j \in 0 .. k - 1 : ObuAt(q, j).obu = units[j + 1]
  BY <1>2, <1>5 DEF ObusSeen
<1>7. ObuType(units[1]) = 1
  <2>1. ObuAt(q, 0).obu = units[0 + 1]
    BY <1>5, <1>6
  <2> QED BY <2>1 DEF Decides
<1> HIDE DEF obu
<1>8. Len(units[m]) >= 2 /\ obu[1] = units[m][1] /\ obu[2] = units[m][2]
  <2>1. Len(obu) \in Nat /\ Len(obu) <= Len(units[m]) /\ \A x \in 1 .. Len(obu) : obu[x] = units[m][x]
    BY <1>6 DEF Begins
  <2>2. 1 \in 1 .. Len(obu) /\ 2 \in 1 .. Len(obu)
    BY <1>3, <2>1
  <2>3. m \in 1 .. n
    BY <1>0, <1>5
  <2> QED BY <1>1, <1>3, <2>1, <2>2, <2>3
<1>9. m \in Frames(units) /\ units[m][2] < 32
  BY <1>3, <1>5, <1>8 DEF Frames, ObuType
<1>10. ASSUME NEW j \in Frames(units) PROVE m <= j
  <2>1. j \in 2 .. n /\ ObuType(units[j]) \in {3, 6}
    BY DEF Frames
  <2>2. CASE j < m
    <3> DEFINE i == j - 1
    <3>1. i \in 1 .. k - 1 /\ i \in 0 .. k - 1 /\ i + 1 = j /\ j \in 1 .. n
      BY <1>0, <2>1, <2>2
    <3>2. ObuAt(q, i).obu = units[j]
      BY <1>6, <3>1
    <3>3. ~IsFrame(ObuAt(q, i).obu)
      BY <3>1 DEF Decides
    <3> QED BY <1>1, <2>1, <3>1, <3>2, <3>3 DEF IsFrame
  <2> QED BY <1>0, <2>1, <2>2
<1> HIDE DEF m
<1> QED BY <1>7, <1>8, <1>9, <1>10 DEF Begun

LEMMA SentIsFrame ==
  ASSUME NEW units, AreObus(units), NEW q, AllObusSeen(q, units), Begun(units)
  PROVE  \E k \in 1 .. Len(units) : Decides(q, k)
<1> DEFINE n == Len(units)
<1>0. n \in Nat
  BY DEF AreObus, Whole
<1>1. \A j \in 1 .. n : units[j] # <<>> /\ Len(units[j]) \in Nat \ {0}
  BY PieceBytes
<1>2. PICK m \in Frames(units) : (\A j \in Frames(units) : m <= j) /\ Len(units[m]) >= 2 /\ units[m][2] < 32
  BY DEF Begun
<1>3. m \in 2 .. n /\ ObuType(units[m]) \in {3, 6}
  BY DEF Frames
<1> DEFINE k == m - 1
<1>4. k \in 1 .. n /\ k \in 0 .. n - 1 /\ k + 1 = m /\ m \in 1 .. n /\ 0 \in 0 .. n - 1 /\ 0 + 1 = 1
  BY <1>0, <1>3
<1>5. \A i \in 0 .. n - 1 : ObuAt(q, i).obu = units[i + 1] /\ ObuAt(q, i).truncated = FALSE
  BY Zenon DEF AllObusSeen, n
<1>6. \A i \in 0 .. k - 1 : i \in 0 .. n - 1 /\ i + 1 \in 1 .. n
  BY <1>0, <1>3
<1>7. \A i \in 1 .. k - 1 : i \in 0 .. n - 1 /\ i + 1 \in 2 .. n /\ i + 1 \in 1 .. n /\ ~(m <= i + 1)
  BY <1>0, <1>3
<1> HIDE DEF n, k
<1>8. \A i \in 0 .. k - 1 : ObuAt(q, i).obu # <<>> /\ ~ObuAt(q, i).truncated
  BY <1>1, <1>5, <1>6
<1>9. ObuType(ObuAt(q, 0).obu) = 1
  <2>1. ObuAt(q, 0).obu = units[1]
    BY <1>4, <1>5
  <2> QED BY <2>1 DEF Begun
<1>10. \A i \in 1 .. k - 1 : ~IsFrame(ObuAt(q, i).obu)
  <2> TAKE i \in 1 .. k - 1
  <2>1. ObuAt(q, i).obu = units[i + 1] /\ i + 1 \in 2 .. n /\ ~(m <= i + 1)
    BY <1>5, <1>7
  <2>2. i + 1 \notin Frames(units)
    BY <1>2, <2>1
  <2>3. ObuType(units[i + 1]) \notin {3, 6}
    BY <2>1, <2>2 DEF Frames, n
  <2> QED BY <2>1, <2>3 DEF IsFrame
<1>11. ObuAt(q, k).obu = units[m]
  BY <1>4, <1>5
<1>12. IsFrame(units[m])
  BY <1>1, <1>3, <1>4 DEF IsFrame
<1>13. Decides(q, k)
  BY <1>2, <1>8, <1>9, <1>10, <1>11, <1>12, Zenon DEF Decides
<1> QED BY <1>4, <1>13 DEF n

\* Whatever AV1 units a sender puts into a packet and counts.
LEMMA FoundInAv1Packets ==
  ASSUME NEW s, Sent(s), s.codec = "av1"
  PROVE  KeyFramesFound(s)
<1> DEFINE units == s.units
           n == Len(units)
           first == (n * 16) + 8
           p == Packet(s)
           cuts == { SubSeq(p, 1, c) : c \in 0 .. Len(p) }
<1>1. AreObus(units) /\ s.form = n /\ n \in 1 .. 3
  <2>1. Whole(units) /\ s.form = n /\ n <= 3 /\ \A k \in 1 .. n - 1 : Short7Bits(units[k])
    BY DEF Sent
  <2>2. n \in Nat /\ n >= 1
    BY <2>1 DEF Whole
  <2>3. AreObus(units)
    BY <2>1 DEF AreObus
  <2>4. n \in 1 .. 3
    <3>1. n \in Nat /\ n >= 1 /\ n <= 3
      BY <2>1, <2>2
    <3> HIDE DEF n
    <3> QED BY <3>1
  <2> QED BY <2>1, <2>3, <2>4
<1>2. first \in Byte /\ ~Bit(first, 128) /\ Bit(first, 8) /\ (first \div 16) % 4 = n
  <2> HIDE DEF n
  <2> QED BY <1>1, FirstByte
<1>3. p = <<first>> \o FlattenSeq([k \in 1 .. n - 1 |-> Leb128(Len(units[k])) \o units[k]]) \o Last(units)
  <2>1. ~(s.codec = "h264" /\ s.form \in 24 .. 27) /\ ~(s.codec = "h264" /\ s.form = 28)
        /\ ~(s.codec = "h265" /\ s.form = 48)
    OBVIOUS
  <2>2. p = <<(s.form * 16) + 8>> \o FlattenSeq([k \in 1 .. n - 1 |-> Leb128(Len(units[k])) \o units[k]]) \o Last(units)
    BY <2>1, Zenon DEF Packet
  <2> QED BY <1>1, <2>2
<1>4. Carries(s) <=> Begun(units)
  <2>1. s.codec # "h264" /\ s.codec # "h265"
    OBVIOUS
  <2> QED BY <2>1, Zenon DEF Carries, Begun, Frames
<1>5. \A q : IsKeyFrame(s.codec, q) <=> IsAV1KeyFrame(q)
  <2>1. s.codec # "h264" /\ s.codec # "h265" /\ s.codec # "vp8"
    OBVIOUS
  <2> QED BY <2>1, Zenon DEF IsKeyFrame
<1>6. s.codec # "h264" /\ s.codec # "h265"
  OBVIOUS
<1> HIDE DEF p, units, first
<1>7. p \in Seq(Byte) /\ Len(p) >= 2 /\ p[1] = first
  BY <1>1, <1>2, <1>3, Av1Laid
<1>8. PICK o : ObusLaid(p, units, o)
  BY <1>1, <1>2, <1>3, Av1Laid
<1>9. IsBytes(p)
  BY <1>7 DEF IsBytes
<1> HIDE DEF n
<1>10. ASSUME NEW q, NEW c, IsCut(q, p, c)
       PROVE  /\ IsAV1KeyFrame(q) => Begun(units)
              /\ q = p => (Begun(units) => IsAV1KeyFrame(q))
  <2>1. /\ q \in Seq(Byte) /\ Len(q) = c /\ c \in Nat /\ Len(p) \in Nat
        /\ c >= 1 => q[1] = p[1]
    BY <1>9, <1>10, BytesOfCut
  <2>2. CASE c < 2
    <3>1. ~IsAV1KeyFrame(q)
      BY <2>1, <2>2 DEF IsAV1KeyFrame
    <3>2. q # p
      BY <1>7, <2>1, <2>2
    <3> QED BY <3>1, <3>2
  <2>3. CASE c >= 2
    <3>1. q[1] = first /\ ObuCount(q) = n /\ Len(q) >= 2
      BY <1>2, <1>7, <2>1, <2>3 DEF ObuCount
    <3>2. ObusSeen(q, units) /\ (c = Len(p) => AllObusSeen(q, units))
      <4>1. c >= 1
        BY <2>1, <2>3
      <4>2. ObuCount(q) = Len(units)
        BY <3>1 DEF n
      <4> QED BY <1>1, <1>8, <1>9, <1>10, <4>1, <4>2, WhatIsSeen
    <3>3. IsAV1KeyFrame(q) <=> \E k \in 1 .. n : Decides(q, k)
      <4>1. ~Bit(q[1], 128) /\ Bit(q[1], 8)
        BY <1>2, <3>1
      <4> QED BY <3>1, <4>1, Zenon DEF IsAV1KeyFrame, Decides
    <3>4. (\E k \in 1 .. n : Decides(q, k)) => Begun(units)
      BY <1>1, <3>2, FrameIsSent DEF n
    <3>5. q = p /\ Begun(units) => \E k \in 1 .. n : Decides(q, k)
      BY <1>1, <2>1, <3>2, SentIsFrame DEF n
    <3> QED BY <3>3, <3>4, <3>5
  <2> QED BY <2>1, <2>2, <2>3
<1>11. IsAV1KeyFrame(p) <=> Begun(units)
  BY <1>9, <1>10, WholeIsCut
<1>12. ASSUME NEW q \in cuts PROVE IsAV1KeyFrame(q) => IsAV1KeyFrame(p)
  <2>1. PICK c \in 0 .. Len(p) : q = SubSeq(p, 1, c)
    OBVIOUS
  <2>2. IsCut(q, p, c)
    BY <1>9, <2>1, CutsAreCuts
  <2> QED BY <1>10, <1>11, <2>2
<1>13. /\ IsKeyFrame(s.codec, p) <=> Carries(s)
       /\ \A q \in cuts : IsKeyFrame(s.codec, q) => IsKeyFrame(s.codec, p)
  <2> HIDE DEF cuts
  <2> QED BY <1>4, <1>5, <1>11, <1>12, Zenon
<1>14. ~HasTimes(s)
  BY <1>6 DEF HasTimes
<1> QED BY <1>6, <1>13, <1>14, Zenon DEF KeyFramesFound, p, cuts

-----------------------------------------------------------------------------
(* All of it: every packet that a sender fills, and those of the runs.     *)

\* Of whatever units a sender fills a packet with, in any form but an MTAP, the key frame
\* and the sequence parameter set are found in the packet, and none that is not there.  Of
\* an MTAP an SPS in front is found that is longer than its time.  No part of a packet,
\* in any form, is a key frame that the packet is not (keyframe.go, h26xhelper.go).
THEOREM KeyFramesAreFound ==
  ASSUME NEW s, Sent(s), s.codec \in {"h264", "h265", "av1"}
  PROVE  KeyFramesFound(s)
BY FoundInH264Packets, FoundInH265Packets, FoundInAv1Packets

\* Units of the runs, and what they are made of.
LEMMA UnitsOfRuns ==
  ASSUME NEW S \in SUBSET Seq(Byte), <<>> \notin S, NEW units \in UpTo(3, S)
  PROVE  Whole(units) /\ Len(units) <= 3 /\ \A k \in 1 .. Len(units) : units[k] \in S
<1>1. PICK m \in 1 .. 3 : units \in [1 .. m -> S]
  BY DEF UpTo
<1>2. m \in Nat /\ m >= 1 /\ m <= 3
  OBVIOUS
<1>3. units \in Seq(S) /\ Len(units) = m /\ DOMAIN units = 1 .. m
  BY <1>1, <1>2
<1>4. units \in Seq(Seq(Byte))
  BY <1>1, <1>2
<1>5. \A k \in 1 .. m : units[k] \in S
  BY <1>1
<1> QED BY <1>2, <1>3, <1>4, <1>5 DEF Whole

LEMMA OneUnit ==
  ASSUME NEW u \in Seq(Byte), u # <<>>
  PROVE  Whole(<<u>>) /\ Len(<<u>>) = 1 /\ \A k \in 1 .. 1 : <<u>>[k] = u
<1>1. <<u>> \in Seq(Seq(Byte)) /\ Len(<<u>>) = 1 /\ DOMAIN <<u>> = 1 .. 1 /\ <<u>>[1] = u
  OBVIOUS
<1>2. \A k \in 1 .. 1 : k = 1
  OBVIOUS
<1> QED BY <1>1, <1>2 DEF Whole

\* A unit of l bytes that are all the same but the first.
LEMMA LongUnit ==
  ASSUME NEW b \in Byte, NEW c \in Byte, NEW l \in Nat
  PROVE  LET u == <<b>> \o [k \in 1 .. l |-> c]
         IN u \in Seq(Byte) /\ Len(u) = l + 1 /\ u[1] = b
<1> DEFINE head == <<b>>
           rest == [k \in 1 .. l |-> c]
<1>1. head \in Seq(Byte) /\ Len(head) = 1 /\ head[1] = b
  OBVIOUS
<1>2. rest \in Seq(Byte) /\ Len(rest) = l
  OBVIOUS
<1> HIDE DEF head, rest
<1>3. /\ head \o rest \in Seq(Byte) /\ Len(head \o rest) = Len(head) + Len(rest)
      /\ \A i \in 1 .. Len(head) + Len(rest) :
           (head \o rest)[i] = IF i <= Len(head) THEN head[i] ELSE rest[i - Len(head)]
  BY <1>1, <1>2, ConcatProperties
<1>4. 1 \in 1 .. 1 + l /\ 1 <= 1 /\ 1 + l = l + 1
  OBVIOUS
<1>5. (head \o rest)[1] = b
  BY <1>1, <1>2, <1>3, <1>4
<1> QED BY <1>1, <1>2, <1>3, <1>4, <1>5 DEF head, rest

LEMMA ShortUnits ==
  ASSUME NEW a \in Byte, NEW b \in Byte, NEW c \in Byte
  PROVE  /\ <<a>> \in Seq(Byte) /\ Len(<<a>>) = 1 /\ <<a>>[1] = a
         /\ <<a, b>> \in Seq(Byte) /\ Len(<<a, b>>) = 2 /\ <<a, b>>[1] = a
         /\ <<a, b, c>> \in Seq(Byte) /\ Len(<<a, b, c>>) = 3 /\ <<a, b, c>>[1] = a
OBVIOUS

LEMMA FewBytes ==
  ASSUME NEW u, Len(u) \in Nat, Len(u) <= 300
  PROVE  SizeFits(u) /\ Short7Bits(u)
<1> DEFINE l == Len(u)
<1>1. l \in Nat /\ l <= 300
  OBVIOUS
<1> HIDE DEF l
<1>2. l < 65536 /\ l < 16384
  BY <1>1
<1> QED BY <1>2 DEF l, SizeFits, Short7Bits

\* A unit of a few bytes whose first one is b.
Starts(u, b) == u \in Seq(Byte) /\ Len(u) \in Nat /\ Len(u) >= 1 /\ Len(u) <= 300 /\ u[1] = b

LEMMA UnitsOfH264 ==
  ASSUME NEW u \in H264Units
  PROVE  u \in Seq(Byte) /\ u # <<>> /\ SizeFits(u) /\ H264Type(u) < 24
<1> DEFINE long == <<65>> \o [k \in 1 .. 260 |-> 7]
           sps == <<103, 66, 0, 31, 172>>
<1>1. 65 \in Byte /\ 7 \in Byte /\ 101 \in Byte /\ 103 \in Byte /\ 104 \in Byte
  BY DEF Byte
<1>2. Starts(long, 65)
  <2>1. 260 \in Nat
    OBVIOUS
  <2>2. long \in Seq(Byte) /\ Len(long) = 260 + 1 /\ long[1] = 65
    BY <1>1, <2>1, LongUnit
  <2> HIDE DEF long
  <2> QED BY <2>2 DEF Starts
<1>3. Starts(<<65>>, 65) /\ Starts(<<101, 7>>, 101) /\ Starts(sps, 103) /\ Starts(<<104>>, 104)
  <2>1. sps \in Seq(Byte) /\ Len(sps) = 5 /\ sps[1] = 103
    BY DEF Byte
  <2> QED BY <1>1, <2>1, ShortUnits DEF Starts
<1> HIDE DEF long, sps
<1>4. u = <<65>> \/ u = <<101, 7>> \/ u = sps \/ u = <<104>> \/ u = long
  BY DEF H264Units, long, sps
<1>5. \E b \in {65, 101, 103, 104} : Starts(u, b)
  <2>1. Starts(u, 65) \/ Starts(u, 101) \/ Starts(u, 103) \/ Starts(u, 104)
    <3>1. u = <<65>> => Starts(u, 65)
      BY <1>3
    <3>2. u = <<101, 7>> => Starts(u, 101)
      BY <1>3
    <3>3. u = sps => Starts(u, 103)
      BY <1>3
    <3>4. u = <<104>> => Starts(u, 104)
      BY <1>3
    <3>5. u = long => Starts(u, 65)
      BY <1>2
    <3> QED BY <1>4, <3>1, <3>2, <3>3, <3>4, <3>5
  <2> QED BY <2>1
<1>6. PICK b \in {65, 101, 103, 104} : Starts(u, b)
  BY <1>5
<1>7. b % 32 < 24
  BY <1>6
<1>8. H264Type(u) < 24
  BY <1>6, <1>7 DEF Starts, H264Type
<1> QED BY <1>6, <1>8, FewBytes DEF Starts

LEMMA UnitsOfH265 ==
  ASSUME NEW u \in H265Units
  PROVE  u \in Seq(Byte) /\ u # <<>> /\ SizeFits(u) /\ Len(u) >= 2 /\ H265Type(u[1]) < 48
<1>1. 2 \in Byte /\ 1 \in Byte /\ 66 \in Byte /\ 64 \in Byte /\ 5 \in Byte /\ 68 \in Byte /\ 38 \in Byte
  BY DEF Byte
<1>2. /\ Starts(<<2, 1, 66>>, 2) /\ Starts(<<64, 1>>, 64) /\ Starts(<<66, 1, 5>>, 66)
      /\ Starts(<<68, 1>>, 68) /\ Starts(<<38, 1, 68>>, 38)
  BY <1>1, ShortUnits DEF Starts
<1>3. u = <<2, 1, 66>> \/ u = <<64, 1>> \/ u = <<66, 1, 5>> \/ u = <<68, 1>> \/ u = <<38, 1, 68>>
  BY DEF H265Units
<1>4. PICK b \in {2, 64, 66, 68, 38} : Starts(u, b)
  <2>1. \E b \in {2, 64, 66, 68, 38} : Starts(u, b)
    BY <1>2, <1>3, Zenon
  <2> QED BY <2>1
<1>5. Len(u) >= 2
  <2>1. /\ Len(<<2, 1, 66>>) = 3 /\ Len(<<64, 1>>) = 2 /\ Len(<<66, 1, 5>>) = 3
        /\ Len(<<68, 1>>) = 2 /\ Len(<<38, 1, 68>>) = 3
    BY <1>1, ShortUnits
  <2>2. Len(u) = 2 \/ Len(u) = 3
    BY <1>3, <2>1, Zenon
  <2> QED BY <2>2
<1>6. (b \div 2) % 64 < 48
  BY <1>4
<1>7. H265Type(u[1]) < 48
  BY <1>4, <1>6 DEF Starts, H265Type
<1> QED BY <1>4, <1>5, <1>7, FewBytes DEF Starts

LEMMA UnitsOfAv1 ==
  ASSUME NEW u \in Obus
  PROVE  u \in Seq(Byte) /\ u # <<>> /\ Short7Bits(u)
<1> DEFINE long == <<40>> \o [k \in 1 .. 129 |-> 24]
<1>1. /\ 16 \in Byte /\ 8 \in Byte /\ 1 \in Byte /\ 40 \in Byte /\ 24 \in Byte /\ 48 \in Byte
      /\ 0 \in Byte /\ 9 \in Byte /\ 128 \in Byte /\ 32 \in Byte
  BY DEF Byte
<1>2. Starts(long, 40)
  <2>1. 129 \in Nat
    OBVIOUS
  <2>2. long \in Seq(Byte) /\ Len(long) = 129 + 1 /\ long[1] = 40
    BY <1>1, <2>1, LongUnit
  <2> HIDE DEF long
  <2> QED BY <2>2 DEF Starts
<1>3. /\ Starts(<<16>>, 16) /\ Starts(<<8, 1>>, 8) /\ Starts(<<24, 16>>, 24) /\ Starts(<<24>>, 24)
      /\ Starts(<<48, 0, 9>>, 48) /\ Starts(<<48, 128>>, 48) /\ Starts(<<48, 32>>, 48)
  BY <1>1, ShortUnits DEF Starts
<1> HIDE DEF long
<1>4. \/ u = <<16>> \/ u = <<8, 1>> \/ u = long \/ u = <<24, 16>> \/ u = <<24>>
      \/ u = <<48, 0, 9>> \/ u = <<48, 128>> \/ u = <<48, 32>>
  BY DEF Obus, long
<1>5. \E b : Starts(u, b)
  BY <1>2, <1>3, <1>4, Zenon
<1> QED BY <1>5, FewBytes DEF Starts

\* The packets of the runs are ones that a sender fills.
LEMMA RunsAreSent ==
  ASSUME NEW s \in H264Inputs \cup H265Inputs \cup Av1Inputs
  PROVE  Sent(s) /\ s.codec \in {"h264", "h265", "av1"}
<1>1. CASE s \in H264Inputs
  <2>1. H264Units \in SUBSET Seq(Byte) /\ <<>> \notin H264Units
    BY UnitsOfH264
  <2>2. /\ s.codec = "h264"
        /\ \/ \E u \in H264Units : s.units = <<u>>
           \/ s.form \in 24 .. 27 /\ s.units \in UpTo(3, H264Units \ { <<65>> })
    BY <1>1 DEF H264Inputs, Of
  <2>3. CASE \E u \in H264Units : s.units = <<u>>
    <3>1. PICK u \in H264Units : s.units = <<u>>
      BY <2>3
    <3>2. u \in Seq(Byte) /\ u # <<>> /\ SizeFits(u) /\ H264Type(u) < 24
      BY UnitsOfH264
    <3>3. Whole(s.units) /\ Len(s.units) = 1 /\ \A k \in 1 .. 1 : s.units[k] = u
      BY <3>1, <3>2, OneUnit
    <3> QED BY <2>2, <3>2, <3>3 DEF Sent
  <2>4. CASE s.form \in 24 .. 27 /\ s.units \in UpTo(3, H264Units \ { <<65>> })
    <3> DEFINE S == H264Units \ { <<65>> }
    <3>1. S \in SUBSET Seq(Byte) /\ <<>> \notin S /\ S \subseteq H264Units
      BY <2>1
    <3>2. s.units \in UpTo(3, S)
      BY <2>4
    <3> HIDE DEF S
    <3>3. Whole(s.units) /\ \A k \in 1 .. Len(s.units) : s.units[k] \in S
      BY <3>1, <3>2, UnitsOfRuns
    <3>4. \A k \in 1 .. Len(s.units) : SizeFits(s.units[k]) /\ H264Type(s.units[k]) < 24
      BY <3>1, <3>3, UnitsOfH264
    <3> QED BY <2>2, <2>4, <3>3, <3>4 DEF Sent
  <2> QED BY <2>2, <2>3, <2>4
<1>2. CASE s \in H265Inputs
  <2>1. H265Units \in SUBSET Seq(Byte) /\ <<>> \notin H265Units
    BY UnitsOfH265
  <2>2. /\ s.codec = "h265"
        /\ \/ \E u \in H265Units : s.units = <<u>>
           \/ s.form = 48 /\ s.units \in UpTo(3, H265Units)
    BY <1>2 DEF H265Inputs, Of
  <2>3. CASE \E u \in H265Units : s.units = <<u>>
    <3>1. PICK u \in H265Units : s.units = <<u>>
      BY <2>3
    <3>2. u \in Seq(Byte) /\ u # <<>> /\ SizeFits(u) /\ Len(u) >= 2 /\ H265Type(u[1]) < 48
      BY UnitsOfH265
    <3>3. Whole(s.units) /\ Len(s.units) = 1 /\ \A k \in 1 .. 1 : s.units[k] = u
      BY <3>1, <3>2, OneUnit
    <3> QED BY <2>2, <3>2, <3>3 DEF Sent
  <2>4. CASE s.form = 48 /\ s.units \in UpTo(3, H265Units)
    <3>1. Whole(s.units) /\ \A k \in 1 .. Len(s.units) : s.units[k] \in H265Units
      BY <2>1, <2>4, UnitsOfRuns
    <3>2. \A k \in 1 .. Len(s.units) : SizeFits(s.units[k]) /\ Len(s.units[k]) >= 2 /\ H265Type(s.units[k][1]) < 48
      BY <3>1, UnitsOfH265
    <3> QED BY <2>2, <2>4, <3>1, <3>2 DEF Sent
  <2> QED BY <2>2, <2>3, <2>4
<1>3. CASE s \in Av1Inputs
  <2>1. Obus \in SUBSET Seq(Byte) /\ <<>> \notin Obus
    BY UnitsOfAv1
  <2>2. s.codec = "av1" /\ s.form = Len(s.units) /\ s.units \in UpTo(3, Obus)
    BY <1>3 DEF Av1Inputs, Of
  <2>3. Whole(s.units) /\ Len(s.units) <= 3 /\ \A k \in 1 .. Len(s.units) : s.units[k] \in Obus
    BY <2>1, <2>2, UnitsOfRuns
  <2>4. \A k \in 1 .. Len(s.units) - 1 : k \in 1 .. Len(s.units)
    BY <2>3 DEF Whole
  <2>5. \A k \in 1 .. Len(s.units) - 1 : Short7Bits(s.units[k])
    BY <2>3, <2>4, UnitsOfAv1
  <2> QED BY <2>2, <2>3, <2>5 DEF Sent
<1> QED BY <1>1, <1>2, <1>3

\* So it is for every packet handed to the parsers (keyframe.go, h26xhelper.go).
THEOREM WhatIsSentHolds == MCSpec => []WhatIsSentIsFound
<1>1. MCInit => WhatIsSentIsFound
  BY DEF MCInit, NoPayload, WhatIsSentIsFound
<1>2. ASSUME WhatIsSentIsFound, [MCNext]_<<vars, payload>> PROVE WhatIsSentIsFound'
  <2>1. CASE payload' = payload
    BY <1>2, <2>1 DEF WhatIsSentIsFound
  <2>2. CASE Parse
    <3>1. CASE payload' \in H264Inputs \cup H265Inputs \cup Av1Inputs
      <4>1. Sent(payload') /\ payload'.codec \in {"h264", "h265", "av1"}
        BY <3>1, RunsAreSent
      <4>2. KeyFramesFound(payload')
        BY <4>1, KeyFramesAreFound
      <4> QED BY <4>2 DEF WhatIsSentIsFound
    <3>2. CASE payload' \in { [codec |-> "vp8", bytes |-> p] : p \in Vp8Payloads }
      <4>1. payload'.codec = "vp8"
        BY <3>2
      <4> QED BY <4>1 DEF WhatIsSentIsFound
    <3> QED BY <2>2, <3>1, <3>2 DEF Parse
  <2>3. CASE Return
    <3>1. payload'.codec = "none"
      BY <2>3 DEF Return, NoPayload
    <3> QED BY <3>1 DEF WhatIsSentIsFound
  <2> QED BY <1>2, <2>1, <2>2, <2>3 DEF MCNext, Arrive
<1> QED BY <1>1, <1>2, PTL DEF MCSpec
=============================================================================
