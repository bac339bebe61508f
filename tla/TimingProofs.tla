---------------------------- MODULE TimingProofs ----------------------------
(***************************************************************************)
(* Two estimates of a delay, and a rate.                                   *)
(* One way: for every choice of factors and thresholds and every sequence  *)
(* of reports, the estimate stays within the delays reported.  The spike   *)
(* has to be kept in them too, because it becomes the estimate when a path *)
(* change is believed; and everything rests on a truncated fraction of a   *)
(* way never leading off the way.                                          *)
(* And back: whoever asks for round-trip times and answers, and that what  *)
(* is told is the time that passed.                                        *)
(* The leaky bucket: it keeps to its rate for any sizes and bitrates, and  *)
(* its steps are those of PacedStream.                                     *)
(***************************************************************************)
EXTENDS OwdEstimator, RttExchange, LeakyBucket, FiniteSetTheorems, WellFoundedInduction, TLAPS

\* The spike that is being averaged has been reported, or lies between what was.
SpikeWithin == initialized /\ spike # 0 => spike \in low .. high

IInv == EstimateWithin /\ SpikeWithin

-----------------------------------------------------------------------------
(* Truncated fractions.                                                    *)

LEMMA Division ==
  ASSUME NEW n \in Int, NEW d \in Nat \ {0}
  PROVE  /\ n \div d \in Int /\ n % d \in 0 .. d - 1
         /\ n = d * (n \div d) + (n % d)
BY SMT

LEMMA ProductGrows ==
  ASSUME NEW d \in Nat, NEW a \in Int, NEW b \in Int, a <= b
  PROVE  d * a <= d * b
<1>1. d * (b - a) >= 0
  BY SMT
<1>2. d * (b - a) = d * b - d * a
  BY SMT
<1>3. d * a \in Int /\ d * b \in Int
  BY SMT
<1> QED BY <1>1, <1>2, <1>3

\* A d-th of something no more than d times x is no more than x.
LEMMA PartBetween ==
  ASSUME NEW n \in Nat, NEW d \in Nat \ {0}, NEW x \in Nat, n <= d * x
  PROVE  n \div d \in 0 .. x
<1> DEFINE q == n \div d
           r == n % d
<1>1. q \in Int /\ r \in 0 .. d - 1 /\ n = d * q + r
  BY Division
<1>2. d * q \in Int /\ d * x \in Int
  BY <1>1
<1> HIDE DEF q, r
<1>3. q <= x
  <2> SUFFICES ASSUME x + 1 <= q PROVE FALSE
    BY <1>1
  <2>1. d * (x + 1) <= d * q
    BY <1>1, ProductGrows
  <2>2. d * (x + 1) = d * x + d
    BY SMT
  <2> QED BY <2>1, <2>2, <1>1, <1>2
<1>4. 0 <= q
  <2> SUFFICES ASSUME q <= -1 PROVE FALSE
    BY <1>1
  <2>1. d * q <= d * (-1)
    BY <1>1, ProductGrows
  <2>2. d * (-1) = -d
    BY SMT
  <2> QED BY <2>1, <2>2, <1>1, <1>2
<1> QED BY <1>1, <1>3, <1>4 DEF q

LEMMA MovedInt ==
  ASSUME NEW from \in Int, NEW to \in Int, NEW num \in Int, NEW den \in Nat \ {0}
  PROVE  Moved(from, to, num, den) \in Int
<1>1. num * (to - from) \in Int /\ -(num * (to - from)) \in Int
  OBVIOUS
<1>2. Quotient(num * (to - from), den) \in Int
  BY <1>1, Division DEF Quotient
<1> QED BY <1>2 DEF Moved

\* Part of the way between two delays stays between them.
LEMMA MovedBetween ==
  ASSUME NEW lo \in Int, NEW hi \in Int, NEW from \in lo .. hi, NEW to \in lo .. hi,
         NEW num \in Nat, NEW den \in Nat \ {0}, num <= den
  PROVE  Moved(from, to, num, den) \in lo .. hi
<1> DEFINE n == num * (to - from)
<1>1. n \in Int /\ Moved(from, to, num, den) = from + Quotient(n, den)
  BY DEF Moved
<1>2. CASE from <= to
  <2> DEFINE x == to - from
  <2>1. x \in Nat /\ n = num * x
    BY <1>2
  <2>2. n \in Nat
    BY <2>1
  <2>3. x * num <= x * den
    BY <2>1, ProductGrows
  <2>4. n <= den * x
    BY <2>1, <2>3
  <2> HIDE DEF n, x
  <2>5. n \div den \in 0 .. x
    BY <2>1, <2>2, <2>4, PartBetween
  <2>6. Quotient(n, den) = n \div den
    BY <2>2 DEF Quotient
  <2> QED BY <1>1, <2>5, <2>6 DEF x
<1>3. CASE to < from
  <2> DEFINE x == from - to
             m == num * x
  <2>1. x \in Nat /\ m \in Nat /\ n = -m
    BY <1>3
  <2>2. x * num <= x * den
    BY <2>1, ProductGrows
  <2>3. m <= den * x
    BY <2>1, <2>2
  <2> HIDE DEF n, m, x
  <2>4. m \div den \in 0 .. x
    BY <2>1, <2>3, PartBetween
  <2>5. CASE n >= 0
    <3>1. n = 0
      BY <2>1, <2>5
    <3>2. den * 0 = 0
      BY SMT
    <3>3. n \div den \in 0 .. 0
      BY <3>1, <3>2, PartBetween
    <3>4. Quotient(n, den) = 0
      BY <2>5, <3>3 DEF Quotient
    <3> QED BY <1>1, <3>4
  <2>6. CASE ~(n >= 0)
    <3>1. Quotient(n, den) = -(m \div den)
      BY <2>1, <2>6 DEF Quotient
    <3> QED BY <1>1, <2>4, <3>1 DEF x
  <2> QED BY <2>5, <2>6
<1> QED BY <1>2, <1>3

-----------------------------------------------------------------------------
(* The invariant.                                                          *)

LEMMA ConstantsTyped ==
  /\ RiseFactor \in Nat /\ RiseFactor <= 100 /\ FallFactor \in Nat /\ FallFactor <= 100
  /\ SpikeFactor \in Nat /\ SpikeFactor <= 100 /\ 100 \in Nat \ {0}
  /\ ThresholdMin \in Nat /\ MaxFactor \in Nat /\ AdaptationThreshold \in Nat
  /\ ResetReports \in Nat /\ ResetWait \in Nat \ {0}
BY FactorsAssumption

LEMMA LongTermTyped ==
  ASSUME NEW lt \in Nat, NEW delta \in Int, NEW s \in Int
  PROVE  LongTerm(lt, delta, s) \in Nat
<1>1. Least(s, ResetWait) \in Int
  BY ConstantsTyped DEF Least
<1>2. Moved(lt, delta, Least(s, ResetWait), ResetWait) \in Int
  BY <1>1, ConstantsTyped, MovedInt
<1>3. \A z \in Int : Clamped(z) \in Nat
  BY DEF Clamped
<1> QED BY <1>2, <1>3 DEF LongTerm

LEMMA StreakTyped ==
  ASSUME NEW s \in [count : 0 .. ResetReports, age : 0 .. ResetWait], NEW is, NEW e \in Nat
  PROVE  Streak(s, is, e) \in [count : 0 .. ResetReports, age : 0 .. ResetWait]
BY ConstantsTyped DEF Streak, Least

\* What another high report makes of the count, the age and the spike.
LEMMA HighTyped ==
  ASSUME EstimateWithin, SpikeWithin, initialized, NEW d \in Int, NEW e \in Nat,
         NEW lo \in Int, NEW hi \in Int, lo <= low, high <= hi, d \in lo .. hi
  PROVE  /\ High(d, e).count \in 0 .. ResetReports
         /\ High(d, e).age \in Unset .. ResetWait
         /\ High(d, e).spike \in lo .. hi
<1>1. High(d, e).count \in 0 .. ResetReports /\ High(d, e).age \in Unset .. ResetWait
  BY ConstantsTyped DEF EstimateWithin, TypeOK, High, Least, Unset
<1>2. High(d, e).spike = IF spike = 0 THEN d ELSE Moved(spike, d, SpikeFactor, 100)
  BY DEF High
<1>3. spike # 0 => Moved(spike, d, SpikeFactor, 100) \in lo .. hi
  <2> SUFFICES ASSUME spike # 0 PROVE Moved(spike, d, SpikeFactor, 100) \in lo .. hi
    OBVIOUS
  <2>1. spike \in lo .. hi
    BY DEF SpikeWithin, EstimateWithin, TypeOK
  <2> QED BY <2>1, ConstantsTyped, MovedBetween
<1> QED BY <1>1, <1>2, <1>3

LEMMA UpdateKeeps ==
  ASSUME IInv, NEW d \in Int, NEW s \in Int, NEW e \in Nat, Update(d, s, e)
  PROVE  IInv'
<1> USE DEF IInv
<1> DEFINE delta == d - estimated
           h == High(d, e)
<1>1. /\ initialized /\ initialized' = initialized
      /\ initialAdjustmentDone' = initialAdjustmentDone
      /\ low' = Least(low, d) /\ high' = Greatest(high, d)
      /\ streak' = Streak(streak, Rises(delta), e)
  BY DEF Update
<1>2. /\ {estimated, spike, low, high} \subseteq Int /\ longTerm \in Nat
      /\ estimated \in low .. high
      /\ streak \in [count : 0 .. ResetReports, age : 0 .. ResetWait]
      /\ initialized \in BOOLEAN /\ initialAdjustmentDone \in BOOLEAN
  BY <1>1 DEF EstimateWithin, TypeOK
<1>3. /\ low' \in Int /\ high' \in Int /\ low' <= low /\ high <= high'
      /\ d \in low' .. high' /\ estimated \in low' .. high'
  BY <1>1, <1>2 DEF Least, Greatest
<1>4. /\ h.count \in 0 .. ResetReports /\ h.age \in Unset .. ResetWait
      /\ h.spike \in low' .. high'
  BY <1>1, <1>3, HighTyped
<1>5. streak' \in [count : 0 .. ResetReports, age : 0 .. ResetWait]
  BY <1>1, <1>2, StreakTyped
<1>6. delta \in Int
  BY <1>2
<1>7. LongTerm(0, delta, s) \in Nat /\ LongTerm(longTerm, delta, s) \in Nat
  BY <1>2, <1>6, LongTermTyped
<1>8. /\ NoHigh.count \in 0 .. ResetReports /\ NoHigh.age \in Unset .. ResetWait /\ NoHigh.spike = 0
  BY ConstantsTyped DEF NoHigh, Unset
<1>9. Moved(estimated, d, RiseFactor, 100) \in low' .. high'
      /\ Moved(estimated, d, FallFactor, 100) \in low' .. high'
  BY <1>3, ConstantsTyped, MovedBetween
<1> HIDE DEF h, delta
<1>10. /\ estimated' \in low' .. high' /\ longTerm' \in Nat /\ step' \in BOOLEAN
       /\ highCount' \in 0 .. ResetReports /\ highAge' \in Unset .. ResetWait
       /\ spike' = 0 \/ spike' \in low' .. high'
  <2>1. CASE /\ step' = TRUE /\ estimated' = h.spike
             /\ Set(NoHigh) /\ longTerm' = LongTerm(0, delta, s)
    BY <2>1, <1>4, <1>7, <1>8 DEF Set
  <2>2. CASE /\ step' = FALSE /\ Set(h)
             /\ longTerm' = LongTerm(longTerm, delta, s) /\ estimated' = estimated
    BY <2>2, <1>3, <1>4, <1>7 DEF Set
  <2>3. CASE /\ step' = FALSE /\ Set(NotHigh)
             /\ longTerm' = LongTerm(longTerm, delta, s) /\ estimated' = estimated
    BY <2>3, <1>3, <1>7, <1>8 DEF Set, NotHigh
  <2>4. CASE /\ step' = FALSE /\ Set(NotHigh)
             /\ \/ estimated' = Moved(estimated, d, RiseFactor, 100)
                \/ estimated' = Moved(estimated, d, FallFactor, 100)
             /\ longTerm' = LongTerm(longTerm, delta, s)
    BY <2>4, <1>7, <1>8, <1>9 DEF Set, NotHigh
  <2> QED BY <2>1, <2>2, <2>3, <2>4 DEF Update, h, delta
<1>11. spike' \in Int /\ estimated' \in Int
  BY <1>3, <1>10
<1>12. EstimateWithin'
  BY <1>1, <1>2, <1>3, <1>5, <1>10, <1>11 DEF EstimateWithin, TypeOK
<1>13. SpikeWithin'
  BY <1>1, <1>10 DEF SpikeWithin
<1> QED BY <1>12, <1>13

LEMMA IInvHolds == Spec => []IInv
<1> USE DEF IInv
<1>1. Init => IInv
  <2> SUFFICES ASSUME Init PROVE IInv
    OBVIOUS
  <2>1. streak \in [count : 0 .. ResetReports, age : 0 .. ResetWait]
    BY ConstantsTyped DEF Init
  <2>2. ~initialized /\ initialAdjustmentDone \in BOOLEAN /\ initialized \in BOOLEAN /\ step \in BOOLEAN
    BY DEF Init
  <2>3. /\ {estimated, spike, low, high} \subseteq Int /\ longTerm \in Nat
        /\ highCount \in 0 .. ResetReports /\ highAge \in Unset .. ResetWait
    BY ConstantsTyped DEF Init, Unset
  <2> QED BY <2>1, <2>2, <2>3 DEF EstimateWithin, SpikeWithin, TypeOK
<1>2. IInv /\ [Next]_vars => IInv'
  <2> SUFFICES ASSUME IInv, [Next]_vars PROVE IInv'
    OBVIOUS
  <2>1. ASSUME NEW d \in Delays, First(d) PROVE IInv'
    <3>1. d \in Int
      BY InputsAssumption
    <3> QED BY <2>1, <3>1, ConstantsTyped
            DEF First, EstimateWithin, SpikeWithin, TypeOK, Unset
  <2>2. ASSUME NEW d \in Delays, NEW s \in SenderSteps, NEW e \in Elapses, Update(d, s, e)
        PROVE  IInv'
    BY <2>2, InputsAssumption, UpdateKeeps
  <2>3. ASSUME NEW a \in Adjustments, InitialAdjustment(a) PROVE IInv'
    <3>1. a \in Int
      BY InputsAssumption
    <3>2. /\ {estimated, low, high} \subseteq Int /\ spike \in Int
      BY DEF EstimateWithin, TypeOK
    <3>3. estimated' \in Int /\ estimated' <= estimated
      BY <2>3, <3>1, <3>2 DEF InitialAdjustment
    <3>4. low' \in Int /\ low' <= low /\ low' <= estimated' /\ initialAdjustmentDone' = TRUE
      BY <2>3, <3>2, <3>3 DEF InitialAdjustment, Least
    <3>5. UNCHANGED <<initialized, longTerm, highCount, highAge, spike, high, streak, step>>
      BY <2>3 DEF InitialAdjustment
    <3> QED BY <3>2, <3>3, <3>4, <3>5 DEF EstimateWithin, SpikeWithin, TypeOK
  <2>4. CASE UNCHANGED vars
    BY <2>4 DEF vars, EstimateWithin, SpikeWithin, TypeOK
  <2> QED BY <2>1, <2>2, <2>3, <2>4 DEF Next
<1> QED BY <1>1, <1>2, PTL DEF Spec

\* The estimate is never out of the range of the delays that were reported, for
\* every choice of the parameters and any reports (lines 126-166); one adjustment
\* by the caller aside.
THEOREM EstimateIsSound == Spec => []EstimateWithin
<1>1. IInv => EstimateWithin
  BY DEF IInv
<1> QED BY <1>1, IInvHolds, PTL
-----------------------------------------------------------------------------
(* Why the estimate jumped.                                                *)

\* What the code counts and times never exceeds the streak of reports above the
\* threshold: it starts with one, and a sharp report is also above the threshold.
HighOfStreak ==
  /\ ~initialized => streak.count = 0
  /\ ResetReports > 0 =>
       /\ highCount <= streak.count
       /\ highAge # Unset => streak.count > 0 /\ highAge <= streak.age

JumpInv == HighOfStreak /\ ResetOnlyIfPersistent

\* One more high report adds to the count and the time what it adds to the streak.
LEMMA HighFollowsStreak ==
  ASSUME EstimateWithin, HighOfStreak, ResetReports > 0, NEW d \in Int, NEW e \in Nat
  PROVE  /\ High(d, e).count \in Nat /\ High(d, e).age \in Nat
         /\ High(d, e).count <= Streak(streak, TRUE, e).count
         /\ Streak(streak, TRUE, e).count > 0
         /\ High(d, e).age <= Streak(streak, TRUE, e).age
<1> DEFINE c == streak.count
           a == streak.age
<1>1. /\ highCount \in Nat /\ c \in Nat /\ a \in Nat /\ highAge \in Int /\ highCount <= c
      /\ highAge # Unset => highAge \in Nat /\ c > 0 /\ highAge <= a
  BY ConstantsTyped DEF EstimateWithin, TypeOK, HighOfStreak, Unset
<1> DEFINE hc == High(d, e).count
           ha == High(d, e).age
           sc == Streak(streak, TRUE, e).count
           sa == Streak(streak, TRUE, e).age
<1>2. sc = Least(c + 1, ResetReports) /\ sa = IF c = 0 THEN 0 ELSE Least(a + e, ResetWait)
  BY DEF Streak
<1>3. /\ hc = Least(highCount + 1, ResetReports)
      /\ ha = IF highAge = Unset THEN 0 ELSE Least(highAge + e, ResetWait)
  BY DEF High
<1> HIDE DEF c, a, hc, ha, sc, sa
<1>4. hc \in Nat /\ hc <= sc /\ sc > 0
  BY <1>1, <1>2, <1>3, ConstantsTyped DEF Least
<1>5. sa \in Nat
  BY <1>1, <1>2, ConstantsTyped DEF Least
<1>6. ha \in Nat /\ ha <= sa
  <2>1. CASE highAge = Unset
    BY <1>3, <1>5, <2>1
  <2>2. CASE highAge # Unset
    <3>1. ha = Least(highAge + e, ResetWait) /\ sa = Least(a + e, ResetWait)
      BY <1>1, <1>2, <1>3, <2>2
    <3> QED BY <1>1, <2>2, <3>1, ConstantsTyped DEF Least
  <2> QED BY <2>1, <2>2
<1> QED BY <1>4, <1>6 DEF hc, ha, sc, sa

LEMMA UpdateJumps ==
  ASSUME IInv, JumpInv, NEW d \in Int, NEW s \in Int, NEW e \in Nat, Update(d, s, e),
         EstimateWithin'
  PROVE  JumpInv'
<1> DEFINE delta == d - estimated
           h == High(d, e)
<1>1. initialized' = initialized /\ initialized /\ streak' = Streak(streak, Rises(delta), e)
  BY DEF Update
<1>2. streak'.count \in 0 .. ResetReports /\ streak'.age \in 0 .. ResetWait
  BY DEF EstimateWithin, TypeOK
<1>3. ASSUME ResetReports > 0, Rises(delta)
      PROVE  /\ h.count \in Nat /\ h.age \in Nat
             /\ h.count <= streak'.count /\ streak'.count > 0 /\ h.age <= streak'.age
  <2>1. Streak(streak, Rises(delta), e) = Streak(streak, TRUE, e)
    BY <1>3 DEF Streak
  <2>2. ResetReports > 0
    BY <1>3
  <2> QED BY <1>1, <2>1, <2>2, HighFollowsStreak DEF IInv, JumpInv
<1>4. NoHigh.count = 0 /\ NoHigh.age = Unset
  BY DEF NoHigh
<1> HIDE DEF h, delta
<1>5. CASE Rises(delta) /\ Persists(h) /\ Set(NoHigh)
  <2>1. highCount' = 0 /\ highAge' = Unset
    BY <1>4, <1>5 DEF Set
  <2>2. ASSUME streak'.count > 0 PROVE streak'.count = ResetReports /\ streak'.age = ResetWait
    <3>1. ResetReports > 0
      BY <1>2, <2>2, ConstantsTyped
    <3>2. h.count \in Nat /\ h.age \in Nat /\ h.count <= streak'.count /\ h.age <= streak'.age
      BY <1>3, <1>5, <3>1
    <3>3. h.count >= ResetReports /\ h.age >= ResetWait
      BY <1>5 DEF Persists
    <3> QED BY <1>2, <3>2, <3>3, ConstantsTyped
  <2>3. HighOfStreak'
    BY <1>1, <1>2, <2>1, ConstantsTyped DEF HighOfStreak
  <2> QED BY <2>2, <2>3 DEF JumpInv, ResetOnlyIfPersistent
<1>6. CASE Rises(delta) /\ step' = FALSE /\ Set(h)
  <2>1. highCount' = h.count /\ highAge' = h.age
    BY <1>6 DEF Set
  <2>2. HighOfStreak'
    BY <1>1, <1>3, <1>6, <2>1 DEF HighOfStreak
  <2> QED BY <1>6, <2>2 DEF JumpInv, ResetOnlyIfPersistent
<1>7. CASE step' = FALSE /\ Set(NoHigh)
  <2>1. highCount' = 0 /\ highAge' = Unset
    BY <1>4, <1>7 DEF Set
  <2>2. HighOfStreak'
    BY <1>1, <1>2, <2>1, ConstantsTyped DEF HighOfStreak
  <2> QED BY <1>7, <2>2 DEF JumpInv, ResetOnlyIfPersistent
<1> QED BY <1>5, <1>6, <1>7 DEF Update, NotHigh, h, delta

\* The estimate jumps only after a whole run of reports above the threshold: at
\* least ResetReports of them in a row, over at least ResetWait (lines 56-59,
\* 130-150), whatever the reports in between did to the count and its start time.
THEOREM JumpsArePersistent == Spec => []ResetOnlyIfPersistent
<1>1. Init => JumpInv
  BY DEF Init, JumpInv, HighOfStreak, ResetOnlyIfPersistent
<1>2. IInv /\ IInv' /\ JumpInv /\ [Next]_vars => JumpInv'
  <2> SUFFICES ASSUME IInv, IInv', JumpInv, [Next]_vars PROVE JumpInv'
    OBVIOUS
  <2>1. ASSUME NEW d \in Delays, First(d) PROVE JumpInv'
    BY <2>1, ConstantsTyped DEF First, JumpInv, HighOfStreak, ResetOnlyIfPersistent
  <2>2. ASSUME NEW d \in Delays, NEW s \in SenderSteps, NEW e \in Elapses, Update(d, s, e)
        PROVE  JumpInv'
    BY <2>2, InputsAssumption, UpdateJumps DEF IInv
  <2>3. ASSUME NEW a \in Adjustments, InitialAdjustment(a) PROVE JumpInv'
    BY <2>3 DEF InitialAdjustment, JumpInv, HighOfStreak, ResetOnlyIfPersistent
  <2>4. CASE UNCHANGED vars
    BY <2>4 DEF vars, JumpInv, HighOfStreak, ResetOnlyIfPersistent
  <2> QED BY <2>1, <2>2, <2>3, <2>4 DEF Next
<1>3. JumpInv => ResetOnlyIfPersistent
  BY DEF JumpInv
<1> QED BY <1>1, <1>2, <1>3, IInvHolds, PTL DEF Spec

-----------------------------------------------------------------------------
(* The round trip.  The wall clock's steps are not the estimator's.        *)

Typed ==
  /\ remoteTrackSsrcs \in Seq(Ssrcs) /\ localTrackSsrcs \in Seq(Ssrcs)
  /\ writer \in BOOLEAN /\ started \in BOOLEAN
  /\ closed \in [channel : BOOLEAN, called : BOOLEAN]
  /\ loop \in [at : {"none", "select", "write", "ended"}, ssrc : Ssrcs]
  /\ now \in 0 .. MaxTime /\ clockStep \in Steps \cup {0}
  /\ stamp \in [kind : {"none", "xr", "sr"}, at : 0 .. now, step : Steps \cup {0}]
  /\ bound \in [{"remote", "local"} -> [Ssrcs -> Nat]]

\* Each list has a stream as often as it is bound.
Counted ==
  /\ \A s \in Ssrcs : bound["local"][s] = Times(localTrackSsrcs, s)
  /\ \A s \in Ssrcs : bound["remote"][s] = Times(remoteTrackSsrcs, s)

RttInv == Typed /\ Counted

\* A nonempty set of naturals has a least element.
LEMMA LeastElement ==
  ASSUME NEW T \in SUBSET Nat, T # {}
  PROVE  \E x \in T : \A y \in T : x <= y
<1> DEFINE Less == { ss \in Nat \X Nat : ss[1] < ss[2] }
<1>1. IsWellFoundedOn(Less, Nat)
  BY NatLessThanWellFounded DEF OpToRel
<1>2. PICK x \in T : \A y \in T : ~(<<y, x>> \in Less)
  <2> HIDE DEF Less
  <2> QED BY <1>1, WFMin
<1>3. \A y \in T : ~(y < x)
  BY <1>2
<1> QED BY <1>3

Positions(q, s) == { i \in 1 .. Len(q) : q[i] = s }

LEMMA TimesOf ==
  ASSUME NEW S, NEW q \in Seq(S), NEW s
  PROVE  /\ Times(q, s) = Cardinality(Positions(q, s)) /\ IsFiniteSet(Positions(q, s))
         /\ Times(q, s) \in Nat
<1>1. DOMAIN q = 1 .. Len(q) /\ Len(q) \in Nat
  OBVIOUS
<1>2. Times(q, s) = Cardinality(Positions(q, s))
  BY <1>1 DEF Times, Positions
<1>3. IsFiniteSet(1 .. Len(q))
  BY <1>1, FS_Interval
<1>4. IsFiniteSet(Positions(q, s))
  BY <1>3, FS_Subset DEF Positions
<1> QED BY <1>2, <1>4, FS_CardinalityType

LEMMA TimesAppend ==
  ASSUME NEW S, NEW q \in Seq(S), NEW x \in S, NEW s
  PROVE  Times(Append(q, x), s) = Times(q, s) + IF s = x THEN 1 ELSE 0
<1> DEFINE r == Append(q, x)
           n == Len(q)
<1>1. /\ r \in Seq(S) /\ Len(r) = n + 1 /\ n \in Nat /\ r[n + 1] = x
      /\ \A i \in 1 .. n : r[i] = q[i]
  OBVIOUS
<1>2. 1 .. n + 1 = (1 .. n) \cup {n + 1} /\ n + 1 \notin 1 .. n
  BY <1>1
<1> HIDE DEF r
<1>3. Positions(r, s) = IF s = x THEN Positions(q, s) \cup {n + 1} ELSE Positions(q, s)
  BY <1>1, <1>2 DEF Positions
<1>4. n + 1 \notin Positions(q, s)
  BY <1>2 DEF Positions
<1>5. /\ Times(q, s) = Cardinality(Positions(q, s)) /\ IsFiniteSet(Positions(q, s))
      /\ Times(q, s) \in Nat
  BY TimesOf
<1>6. Times(r, s) = Cardinality(Positions(r, s))
  BY <1>1, TimesOf
<1>7. Cardinality(Positions(q, s) \cup {n + 1}) = Cardinality(Positions(q, s)) + 1
  BY <1>4, <1>5, FS_AddElement
<1> QED BY <1>3, <1>5, <1>6, <1>7 DEF r

\* One of that SSRC goes, if there is one, and all others stay.
LEMMA TimesWithout ==
  ASSUME NEW S, NEW q \in Seq(S), NEW x \in S, NEW s \in S
  PROVE  /\ Without(q, x) \in Seq(S)
         /\ Times(Without(q, x), s) =
              IF s = x /\ Times(q, s) # 0 THEN Times(q, s) - 1 ELSE Times(q, s)
<1> DEFINE n == Len(q)
           r == Without(q, x)
<1>0. n \in Nat /\ DOMAIN q = 1 .. n /\ \A j \in 1 .. n : q[j] \in S
  OBVIOUS
<1>1. /\ Times(q, s) = Cardinality(Positions(q, s)) /\ IsFiniteSet(Positions(q, s))
      /\ Times(q, s) \in Nat
  BY TimesOf
<1>2. CASE x \notin ToSet(q)
  <2>1. r = q
    BY <1>2 DEF Without
  <2>2. s = x => Positions(q, s) = {}
    BY <1>0, <1>2 DEF Positions, ToSet
  <2>3. s = x => Times(q, s) = 0
    BY <1>1, <2>2, FS_EmptySet
  <2> HIDE DEF r
  <2>4. r \in Seq(S) /\ Times(r, s) = IF s = x /\ Times(q, s) # 0 THEN Times(q, s) - 1 ELSE Times(q, s)
    BY <2>1, <2>3
  <2> QED BY <2>4 DEF r
<1>3. CASE x \in ToSet(q)
  <2>1. PICK i \in 1 .. n : q[i] = x /\ r = Front([q EXCEPT ![i] = Last(q)])
    <3> DEFINE I == { j \in 1 .. n : q[j] = x }
               m == SelectInSeq(q, LAMBDA j : j = x)
    <3>1. I # {} /\ I \subseteq Nat
      BY <1>0, <1>3 DEF ToSet
    <3>2. m = Min(I)
      BY <3>1 DEF SelectInSeq
    <3>3. r = Front([q EXCEPT ![m] = Last(q)])
      BY <1>3 DEF Without
    <3> HIDE DEF r, m
    <3>4. \E j \in I : \A k \in I : j <= k
      <4> HIDE DEF I
      <4> QED BY <3>1, LeastElement
    <3>5. Min(I) \in I
      <4> HIDE DEF I
      <4> QED BY <3>4 DEF Min
    <3> QED BY <3>2, <3>3, <3>5
  <2>2. /\ n \in Nat \ {0} /\ r \in Seq(S) /\ Len(r) = n - 1
        /\ \A j \in 1 .. n - 1 : r[j] = IF j = i THEN q[n] ELSE q[j]
    <3>1. PICK e : e = [q EXCEPT ![i] = q[n]]
      OBVIOUS
    <3>2. n \in Nat \ {0} /\ i \in 1 .. n /\ q[n] \in S
      BY <1>0
    <3>3. e \in Seq(S) /\ Len(e) = n /\ \A j \in 1 .. n : e[j] = IF j = i THEN q[n] ELSE q[j]
      BY <3>1, <3>2
    <3>4. r = SubSeq(e, 1, Len(e) - 1)
      BY <2>1, <3>1 DEF Front, Last
    <3> HIDE DEF r, n
    <3>5. SubSeq(e, 1, n - 1) \in Seq(S) /\ Len(SubSeq(e, 1, n - 1)) = n - 1
          /\ \A j \in 1 .. n - 1 : SubSeq(e, 1, n - 1)[j] = e[j]
      BY <3>2, <3>3
    <3> QED BY <3>2, <3>3, <3>4, <3>5
  <2> HIDE DEF r, n
  <2>3. Times(r, s) = Cardinality(Positions(r, s))
    BY <2>2, TimesOf
  <2>4. Positions(q, s) \subseteq 1 .. n /\ \A j \in 1 .. n : j \in Positions(q, s) <=> q[j] = s
    BY DEF Positions, n
  <2>5. Positions(r, s) \subseteq 1 .. n - 1 /\ \A j \in 1 .. n - 1 : j \in Positions(r, s) <=> r[j] = s
    BY <2>2 DEF Positions
  <2>6. n \in 1 .. n /\ 1 .. n = (1 .. n - 1) \cup {n} /\ n \notin 1 .. n - 1
    BY <2>2
  <2>7. s = x => Positions(q, s) # {}
    BY <2>1, <2>4
  <2>8. CASE s = x
    <3>1. \E k \in Positions(q, s) : Positions(r, s) = Positions(q, s) \ {k}
      <4>1. CASE q[n] = s
        <5>1. Positions(r, s) = Positions(q, s) \ {n}
          BY <2>1, <2>2, <2>4, <2>5, <2>6, <2>8, <4>1
        <5> QED BY <2>4, <2>6, <4>1, <5>1
      <4>2. CASE q[n] # s
        <5>1. i # n /\ n \notin Positions(q, s)
          BY <2>1, <2>4, <2>8, <4>2
        <5>2. \A j \in 1 .. n - 1 : r[j] = s <=> j # i /\ q[j] = s
          BY <2>2, <4>2
        <5>3. Positions(r, s) = Positions(q, s) \ {i}
          BY <2>4, <2>5, <2>6, <5>1, <5>2
        <5> QED BY <2>1, <2>4, <2>8, <5>3
      <4> QED BY <4>1, <4>2
    <3>2. Cardinality(Positions(r, s)) = Cardinality(Positions(q, s)) - 1
      BY <1>1, <3>1, FS_RemoveElement
    <3>3. Cardinality(Positions(q, s)) # 0
      BY <1>1, <2>7, <2>8, FS_EmptySet
    <3> QED BY <1>1, <2>2, <2>3, <2>8, <3>2, <3>3 DEF r
  <2>9. CASE s # x
    <3>1. CASE q[n] = s
      <4>1. i # n
        BY <2>1, <2>9, <3>1
      <4>2. Positions(r, s) = (Positions(q, s) \ {n}) \cup {i}
        BY <2>1, <2>2, <2>4, <2>5, <2>6, <3>1, <4>1
      <4>3. n \in Positions(q, s) /\ i \notin Positions(q, s)
        BY <2>1, <2>4, <2>6, <2>9, <3>1
      <4>4. Cardinality(Positions(q, s) \ {n}) = Cardinality(Positions(q, s)) - 1 /\ IsFiniteSet(Positions(q, s) \ {n})
        BY <1>1, <4>3, FS_RemoveElement
      <4>5. Cardinality(Positions(r, s)) = (Cardinality(Positions(q, s)) - 1) + 1
        BY <4>2, <4>3, <4>4, FS_AddElement
      <4> QED BY <1>1, <2>2, <2>3, <2>9, <4>5 DEF r
    <3>2. CASE q[n] # s
      <4>1. Positions(r, s) = Positions(q, s)
        BY <2>1, <2>2, <2>4, <2>5, <2>6, <2>9, <3>2
      <4> QED BY <1>1, <2>2, <2>3, <2>9, <4>1 DEF r
    <3> QED BY <3>1, <3>2
  <2> QED BY <2>8, <2>9
<1> QED BY <1>2, <1>3

LEMMA RttInit ==
  ASSUME InitRtt
  PROVE  RttInv
<1>1. <<>> \in Seq(Ssrcs)
  OBVIOUS
<1>2. Typed
  <2>1. writer \in BOOLEAN /\ started \in BOOLEAN /\ closed \in [channel : BOOLEAN, called : BOOLEAN]
    BY DEF InitRtt
  <2>2. /\ loop \in [at : {"none", "select", "write", "ended"}, ssrc : Ssrcs]
        /\ bound \in [{"remote", "local"} -> [Ssrcs -> Nat]]
    BY ExchangeAssumption DEF InitRtt
  <2>3. now = 0 /\ 0 \in 0 .. 0 /\ 0 \in 0 .. MaxTime
    BY ExchangeAssumption DEF InitRtt
  <2>4. /\ now \in 0 .. MaxTime /\ clockStep \in Steps \cup {0}
        /\ stamp \in [kind : {"none", "xr", "sr"}, at : 0 .. now, step : Steps \cup {0}]
    BY <2>3 DEF InitRtt
  <2> QED BY <1>1, <2>1, <2>2, <2>4 DEF InitRtt, Typed
<1>3. ASSUME NEW s \in Ssrcs PROVE Times(<<>>, s) = 0
  <2>1. Positions(<<>>, s) = {}
    BY DEF Positions
  <2> QED BY <1>1, <2>1, TimesOf, FS_EmptySet
<1> QED BY <1>2, <1>3 DEF RttInv, Counted, InitRtt

\* One more of a stream on a side.
LEMMA BoundMore ==
  ASSUME Typed, NEW x \in Ssrcs, NEW side \in {"remote", "local"}, Binds(side, x)
  PROVE  /\ bound' \in [{"remote", "local"} -> [Ssrcs -> Nat]]
         /\ \A s \in Ssrcs : bound'[side][s] = bound[side][s] + IF s = x THEN 1 ELSE 0
         /\ \A other \in {"remote", "local"} \ {side} : bound'[other] = bound[other]
<1>1. bound \in [{"remote", "local"} -> [Ssrcs -> Nat]]
  BY DEF Typed
<1>2. bound' = [bound EXCEPT ![side] = [bound[side] EXCEPT ![x] = bound[side][x] + 1]]
  BY <1>1 DEF Binds
<1> QED BY <1>1, <1>2

LEMMA BoundLess ==
  ASSUME Typed, NEW x \in Ssrcs, NEW side \in {"remote", "local"}, Unbinds(side, x)
  PROVE  /\ bound' \in [{"remote", "local"} -> [Ssrcs -> Nat]]
         /\ \A s \in Ssrcs : bound'[side][s] =
              IF s = x /\ bound[side][s] # 0 THEN bound[side][s] - 1 ELSE bound[side][s]
         /\ \A other \in {"remote", "local"} \ {side} : bound'[other] = bound[other]
<1>1. bound \in [{"remote", "local"} -> [Ssrcs -> Nat]]
  BY DEF Typed
<1>2. bound' = [bound EXCEPT ![side] =
                  [bound[side] EXCEPT ![x] = IF bound[side][x] = 0 THEN 0 ELSE bound[side][x] - 1]]
  BY <1>1 DEF Unbinds
<1> QED BY <1>1, <1>2

LEMMA CountedAfter ==
  ASSUME NEW q, NEW l, remoteTrackSsrcs' = q, localTrackSsrcs' = l,
         \A s \in Ssrcs : bound'["local"][s] = Times(l, s),
         \A s \in Ssrcs : bound'["remote"][s] = Times(q, s)
  PROVE  Counted'
  BY DEF Counted, Times

LEMMA CountedMore ==
  ASSUME Typed, NEW q \in Seq(Ssrcs), NEW x \in Ssrcs, NEW side \in {"remote", "local"},
         Binds(side, x), \A s \in Ssrcs : bound[side][s] = Times(q, s)
  PROVE  \A s \in Ssrcs : bound'[side][s] = Times(Append(q, x), s)
<1> SUFFICES ASSUME NEW s \in Ssrcs PROVE bound'[side][s] = Times(Append(q, x), s)
  OBVIOUS
<1>1. bound'[side][s] = bound[side][s] + IF s = x THEN 1 ELSE 0
  BY BoundMore
<1>2. Times(Append(q, x), s) = Times(q, s) + IF s = x THEN 1 ELSE 0
  BY TimesAppend
<1> QED BY <1>1, <1>2

LEMMA CountedLess ==
  ASSUME Typed, NEW q \in Seq(Ssrcs), NEW x \in Ssrcs, NEW side \in {"remote", "local"},
         Unbinds(side, x), \A s \in Ssrcs : bound[side][s] = Times(q, s)
  PROVE  /\ Without(q, x) \in Seq(Ssrcs)
         /\ \A s \in Ssrcs : bound'[side][s] = Times(Without(q, x), s)
<1>1. Without(q, x) \in Seq(Ssrcs)
  BY TimesWithout
<1>2. ASSUME NEW s \in Ssrcs PROVE bound'[side][s] = Times(Without(q, x), s)
  <2>1. bound'[side][s] = IF s = x /\ bound[side][s] # 0 THEN bound[side][s] - 1 ELSE bound[side][s]
    BY BoundLess
  <2>2. Times(Without(q, x), s) =
          IF s = x /\ Times(q, s) # 0 THEN Times(q, s) - 1 ELSE Times(q, s)
    BY TimesWithout
  <2> QED BY <2>1, <2>2
<1> QED BY <1>1, <1>2

LEMMA RttStep ==
  ASSUME RttInv, [NextRtt]_varsRtt
  PROVE  RttInv'
<1> USE DEF lists, clocks
<1>0. Typed /\ Counted
  BY DEF RttInv
<1>1. ASSUME NEW x \in Ssrcs, BindRemoteStream(x) PROVE RttInv'
  <2>1. /\ remoteTrackSsrcs' = Append(remoteTrackSsrcs, x) /\ Binds("remote", x)
        /\ UNCHANGED <<localTrackSsrcs, writer, closed, now, clockStep, stamp>>
        /\ started' \in BOOLEAN /\ loop' \in [at : {"none", "select", "write", "ended"}, ssrc : Ssrcs]
    BY <1>0, <1>1 DEF BindRemoteStream, Typed
  <2>2. Typed'
    <3>1. remoteTrackSsrcs' \in Seq(Ssrcs)
      BY <1>0, <2>1 DEF Typed
    <3>2. bound' \in [{"remote", "local"} -> [Ssrcs -> Nat]]
      BY <1>0, <2>1, BoundMore
    <3> QED BY <1>0, <2>1, <3>1, <3>2 DEF Typed
  <2>3. \A s \in Ssrcs : bound'["remote"][s] = Times(Append(remoteTrackSsrcs, x), s)
    <3>1. /\ remoteTrackSsrcs \in Seq(Ssrcs)
          /\ \A s \in Ssrcs : bound["remote"][s] = Times(remoteTrackSsrcs, s)
      BY <1>0 DEF Typed, Counted
    <3>2. x \in Ssrcs /\ "remote" \in {"remote", "local"} /\ Typed /\ Binds("remote", x)
      BY <1>0, <2>1
    <3> QED BY ONLY <3>1, <3>2, CountedMore
  <2>4. \A s \in Ssrcs : bound'["local"][s] = Times(localTrackSsrcs, s)
    BY <1>0, <2>1, BoundMore DEF Counted
  <2> QED BY <2>1, <2>2, <2>3, <2>4, CountedAfter DEF RttInv
<1>2. ASSUME NEW x \in Ssrcs, UnbindRemoteStream(x) PROVE RttInv'
  <2>1. /\ remoteTrackSsrcs' = Without(remoteTrackSsrcs, x) /\ Unbinds("remote", x)
        /\ UNCHANGED <<localTrackSsrcs, writer, started, closed, loop, now, clockStep, stamp>>
    BY <1>2 DEF UnbindRemoteStream
  <2>2. /\ Without(remoteTrackSsrcs, x) \in Seq(Ssrcs)
        /\ \A s \in Ssrcs : bound'["remote"][s] = Times(Without(remoteTrackSsrcs, x), s)
    BY <1>0, <2>1, CountedLess DEF Typed, Counted
  <2>3. Typed'
    BY <1>0, <2>1, <2>2, BoundLess DEF Typed
  <2>4. \A s \in Ssrcs : bound'["local"][s] = Times(localTrackSsrcs, s)
    BY <1>0, <2>1, BoundLess DEF Counted
  <2> QED BY <2>1, <2>2, <2>3, <2>4, CountedAfter DEF RttInv
<1>3. ASSUME NEW x \in Ssrcs, BindLocalStream(x) PROVE RttInv'
  <2>1. /\ localTrackSsrcs' = Append(localTrackSsrcs, x) /\ Binds("local", x)
        /\ UNCHANGED <<remoteTrackSsrcs, writer, closed, now, clockStep, stamp>>
        /\ started' \in BOOLEAN /\ loop' \in [at : {"none", "select", "write", "ended"}, ssrc : Ssrcs]
    BY <1>0, <1>3 DEF BindLocalStream, Typed
  <2>2. Typed'
    <3>1. localTrackSsrcs' \in Seq(Ssrcs)
      BY <1>0, <2>1 DEF Typed
    <3>2. bound' \in [{"remote", "local"} -> [Ssrcs -> Nat]]
      BY <1>0, <2>1, BoundMore
    <3> QED BY <1>0, <2>1, <3>1, <3>2 DEF Typed
  <2>3. \A s \in Ssrcs : bound'["local"][s] = Times(Append(localTrackSsrcs, x), s)
    <3>1. /\ localTrackSsrcs \in Seq(Ssrcs)
          /\ \A s \in Ssrcs : bound["local"][s] = Times(localTrackSsrcs, s)
      BY <1>0 DEF Typed, Counted
    <3>2. x \in Ssrcs /\ "local" \in {"remote", "local"} /\ Typed /\ Binds("local", x)
      BY <1>0, <2>1
    <3> QED BY ONLY <3>1, <3>2, CountedMore
  <2>4. \A s \in Ssrcs : bound'["remote"][s] = Times(remoteTrackSsrcs, s)
    BY <1>0, <2>1, BoundMore DEF Counted
  <2> QED BY <2>1, <2>2, <2>3, <2>4, CountedAfter DEF RttInv
<1>4. ASSUME NEW x \in Ssrcs, UnbindLocalStream(x) PROVE RttInv'
  <2>1. /\ localTrackSsrcs' = Without(localTrackSsrcs, x) /\ Unbinds("local", x)
        /\ UNCHANGED <<remoteTrackSsrcs, writer, started, closed, loop, now, clockStep, stamp>>
    BY <1>4 DEF UnbindLocalStream
  <2>2. /\ Without(localTrackSsrcs, x) \in Seq(Ssrcs)
        /\ \A s \in Ssrcs : bound'["local"][s] = Times(Without(localTrackSsrcs, x), s)
    BY <1>0, <2>1, CountedLess DEF Typed, Counted
  <2>3. Typed'
    BY <1>0, <2>1, <2>2, BoundLess DEF Typed
  <2>4. \A s \in Ssrcs : bound'["remote"][s] = Times(remoteTrackSsrcs, s)
    BY <1>0, <2>1, BoundLess DEF Counted
  <2> QED BY <2>1, <2>2, <2>3, <2>4, CountedAfter DEF RttInv
<1>5. ASSUME UNCHANGED <<remoteTrackSsrcs, localTrackSsrcs, bound>> PROVE Counted'
  BY <1>0, <1>5 DEF Counted, Times
<1>6. CASE BindRTCPWriter
  BY <1>0, <1>5, <1>6 DEF BindRTCPWriter, RttInv, Typed
<1>7. CASE Close
  <2>1. closed' \in [channel : BOOLEAN, called : BOOLEAN]
    BY <1>7 DEF Close, Closes
  <2> QED BY <1>0, <1>5, <1>7, <2>1 DEF Close, RttInv, Typed
<1>8. CASE Ticks
  <2>1. senderSsrc \in Ssrcs
    BY <1>0, ExchangeAssumption DEF Typed, senderSsrc
  <2> QED BY <1>0, <1>5, <1>8, <2>1 DEF Ticks, RttInv, Typed
<1>9. ASSUME NEW kind \in {"xr", "sr"}, Stamps(kind), UNCHANGED <<now, clockStep>>
      PROVE stamp' \in [kind : {"none", "xr", "sr"}, at : 0 .. now, step : Steps \cup {0}]
  <2>1. now \in 0 .. now
    BY <1>0, ExchangeAssumption DEF Typed
  <2> QED BY <1>0, <1>9, <2>1 DEF Typed, Stamps
<1>10. CASE WriteRequest
  BY <1>0, <1>5, <1>9, <1>10, ExchangeAssumption DEF WriteRequest, RttInv, Typed
<1>11. CASE LoopEnds
  BY <1>0, <1>5, <1>11, ExchangeAssumption DEF LoopEnds, RttInv, Typed
<1>12. CASE SenderReport
  BY <1>0, <1>5, <1>9, <1>12 DEF SenderReport, RttInv, Typed
<1>13. CASE Pass
  <2>1. now' \in 0 .. MaxTime /\ 0 .. now \subseteq 0 .. now'
    BY <1>0, <1>13, ExchangeAssumption DEF Pass, Typed
  <2>2. stamp' \in [kind : {"none", "xr", "sr"}, at : 0 .. now', step : Steps \cup {0}]
    BY <1>0, <1>13, <2>1 DEF Pass, Typed
  <2> QED BY <1>0, <1>5, <1>13, <2>1, <2>2 DEF Pass, RttInv, Typed
<1>14. CASE SetClock
  BY <1>0, <1>5, <1>14 DEF SetClock, RttInv, Typed
<1>15. CASE UNCHANGED varsRtt
  BY <1>0, <1>5, <1>15 DEF varsRtt, RttInv, Typed
<1> QED
  BY <1>1, <1>2, <1>3, <1>4, <1>6, <1>7, <1>8, <1>10, <1>11, <1>12, <1>13, <1>14, <1>15 DEF NextRtt

LEMMA RttHolds ==
  SpecRtt => []RttInv
<1>1. InitRtt => RttInv
  BY RttInit
<1>2. RttInv /\ [NextRtt]_varsRtt => RttInv'
  BY RttStep
<1> QED BY <1>1, <1>2, PTL DEF SpecRtt

\* For any streams, bound and unbound in any order and any number of times: the peer
\* is answered once for every local stream that is bound and for no other, and asked
\* about a remote one that is bound as long as there is any (rttfromxr.go 88-118, 163).
THEOREM AnswersAreForBound ==
  SpecRtt => []AnswersForBound
<1>1. RttInv => AnswersForBound
  <2> SUFFICES ASSUME RttInv PROVE AnswersForBound
    OBVIOUS
  <2>0. Typed /\ Counted
    BY DEF RttInv
  <2>1. TypeOKRtt
    BY <2>0 DEF Typed, TypeOKRtt
  <2>2. \A s \in Ssrcs : writer => Times(responses, s) = bound["local"][s]
    BY <2>0 DEF Counted, responses
  <2>3. ASSUME NEW s \in Ssrcs, bound["remote"][s] > 0 PROVE remoteTrackSsrcs # <<>>
    <3>1. SUFFICES ASSUME remoteTrackSsrcs = <<>> PROVE FALSE
      OBVIOUS
    <3>2. Positions(<<>>, s) = {} /\ <<>> \in Seq(Ssrcs)
      BY DEF Positions
    <3>3. Times(<<>>, s) = 0
      BY <3>2, TimesOf, FS_EmptySet
    <3> QED BY <2>0, <2>3, <3>1, <3>3 DEF Counted
  <2>4. ASSUME remoteTrackSsrcs # <<>> PROVE senderSsrc \in Ssrcs /\ bound["remote"][senderSsrc] > 0
    <3>1. PICK q \in Seq(Ssrcs), s \in Ssrcs : q = remoteTrackSsrcs /\ s = Head(q) /\ s = senderSsrc
      BY <2>0, <2>4 DEF Typed, senderSsrc
    <3>2. 1 \in Positions(q, s)
      BY <2>4, <3>1 DEF Positions
    <3>3. /\ Times(q, s) = Cardinality(Positions(q, s)) /\ IsFiniteSet(Positions(q, s))
          /\ Times(q, s) \in Nat
      BY TimesOf
    <3>4. Times(q, s) > 0
      BY <3>2, <3>3, FS_EmptySet
    <3> QED BY <2>0, <3>1, <3>4 DEF Counted
  <2>5. remoteTrackSsrcs = <<>> => senderSsrc = 0
    BY DEF senderSsrc
  <2> QED BY <2>1, <2>2, <2>3, <2>4, <2>5 DEF AnswersForBound
<1> QED BY <1>1, RttHolds, PTL

-----------------------------------------------------------------------------
(* What a round trip tells.  The middle of the stamp of x, were there room *)
(* for all seconds, is the largest m with                                  *)
(* m * Nanos * K <= x * Fractions + Half, K the fractions in a unit:       *)
(* both ends are shifted by the same half, and rounded down once.  The     *)
(* seconds that are shifted out of a stamp are whole words of units, so a  *)
(* word is the same with them and without.                                 *)

\* Halves are rounded up.
LEMMA RoundedBetween ==
  ASSUME NEW a \in Int, NEW b \in Nat \ {0}
  PROVE  /\ Rounded(a, b) \in Int
         /\ Rounded(a, b) * b <= a + (b - b \div 2)
         /\ a + (b - b \div 2) < Rounded(a, b) * b + b
<1> DEFINE q == a \div b
           r == a % b
           h == b \div 2
<1>1. q \in Int /\ r \in 0 .. b - 1 /\ a = b * q + r
  BY Division
<1>2. h \in Nat /\ 2 * h <= b /\ b <= 2 * h + 1
  BY SMT
<1>3. Rounded(a, b) = q + IF r >= h THEN 1 ELSE 0
  BY DEF Rounded
<1> HIDE DEF q, r, h
<1>4. PICK p \in Int : p = b * q
  BY <1>1, SMT
<1>5. q * b = p /\ (q + 1) * b = p + b
  BY <1>1, <1>4, SMT
<1>6. CASE r >= h
  <2>1. Rounded(a, b) = q + 1
    BY <1>1, <1>3, <1>6
  <2>2. p + b <= a + (b - h) /\ a + (b - h) < (p + b) + b
    BY <1>1, <1>2, <1>4, <1>6
  <2> QED BY <1>1, <1>5, <2>1, <2>2 DEF h
<1>7. CASE ~(r >= h)
  <2>1. Rounded(a, b) = q
    BY <1>1, <1>3, <1>7
  <2>2. p <= a + (b - h) /\ a + (b - h) < p + b
    BY <1>1, <1>2, <1>4, <1>7
  <2> QED BY <1>1, <1>5, <2>1, <2>2 DEF h
<1> QED BY <1>6, <1>7

LEMMA Signs ==
  ASSUME NEW a \in Int, NEW k \in Nat \ {0}
  PROVE  /\ a * k \in Int
         /\ a * k < 0 => a < 0
         /\ a * k > 0 => a > 0
         /\ a >= 0 => a * k >= 0
  BY SMT

\* Of two numbers of d, the one with the smaller product is smaller.
LEMMA Cancels ==
  ASSUME NEW a \in Int, NEW b \in Int, NEW d \in Nat \ {0}, a * d < b * d
  PROVE  a < b
<1>1. (a - b) * d = a * d - b * d
  BY SMT
<1>2. a * d \in Int /\ b * d \in Int /\ (a - b) \in Int
  BY SMT
<1>3. (a - b) * d < 0
  BY <1>1, <1>2
<1>4. a - b < 0
  BY <1>2, <1>3, Signs
<1> QED BY <1>4

\* Scaling splits the seconds off.
LEMMA ScaledBetween ==
  ASSUME NEW x \in Int, NEW n \in Nat \ {0}, NEW f \in Nat \ {0}, NEW t,
         t = (x \div n) * f + Rounded((x % n) * f, n)
  PROVE  t \in Int /\ t * n <= x * f + (n - n \div 2) /\ x * f + (n - n \div 2) < t * n + n
<1>0. x \div n \in Int /\ x % n \in 0 .. n - 1 /\ x = n * (x \div n) + (x % n)
  BY Division
<1>1. PICK q \in Int, r \in Nat : q = x \div n /\ r = x % n /\ x = n * q + r
  BY <1>0
<1>2. r * f \in Int
  BY SMT
<1>3. PICK s \in Int : s = Rounded(r * f, n)
  BY <1>2, RoundedBetween
<1>4. s * n <= r * f + (n - n \div 2) /\ r * f + (n - n \div 2) < s * n + n
  BY <1>2, <1>3, RoundedBetween
<1>5. t = q * f + s
  BY <1>1, <1>3
<1>6. t \in Int /\ t * n = (q * f) * n + s * n
  BY <1>5, SMT
<1>7. x * f = (q * f) * n + r * f
  BY <1>1, SMT
<1>8. PICK z \in Int : z = (q * f) * n
  BY SMT
<1>9. PICK sn \in Int, rf \in Int, h \in Int : sn = s * n /\ rf = r * f /\ h = n - n \div 2
  BY SMT
<1> QED BY <1>4, <1>6, <1>7, <1>8, <1>9

\* A stamp that holds all seconds.
FullStamp(x) == (x \div Nanos) * Fractions + Rounded((x % Nanos) * Fractions, Nanos)

\* A stamp with all its seconds, turned back, is the time it was made of.
LEMMA StampsTurnBack ==
  ASSUME NEW x \in Int
  PROVE  FullStamp(x) \in Int /\ Duration(FullStamp(x)) = x
<1> DEFINE t == FullStamp(x)
           d == Duration(t)
           c == Nanos - Nanos \div 2
           e == Fractions - Fractions \div 2
<1>0. Nanos \in Nat \ {0} /\ Fractions \in Nat \ {0} /\ Nanos + 2 < Fractions
  BY NtpAssumption
<1>1. t = (x \div Nanos) * Fractions + Rounded((x % Nanos) * Fractions, Nanos)
  BY DEF FullStamp
<1> HIDE DEF t
<1>2. t \in Int /\ t * Nanos <= x * Fractions + c /\ x * Fractions + c < t * Nanos + Nanos
  BY <1>0, <1>1, ScaledBetween
<1>3. d = (t \div Fractions) * Nanos + Rounded((t % Fractions) * Nanos, Fractions)
  BY DEF Duration
<1> HIDE DEF d
<1>4. d \in Int /\ d * Fractions <= t * Nanos + e /\ t * Nanos + e < d * Fractions + Fractions
  BY <1>0, <1>2, <1>3, ScaledBetween
<1>5. c \in Int /\ e \in Int /\ 2 * c >= Nanos /\ 2 * c <= Nanos + 1 /\ 2 * e >= Fractions /\ 2 * e <= Fractions + 1
  BY <1>0, SMT
<1> HIDE DEF c, e
<1>6. c + e < Fractions /\ c + e >= Nanos
  BY <1>0, <1>5
<1>7. PICK df \in Int, tn \in Int, xf \in Int : df = d * Fractions /\ tn = t * Nanos /\ xf = x * Fractions
  BY <1>0, <1>2, <1>4, SMT
<1>8. df < xf + Fractions /\ xf < df + Fractions
  BY <1>0, <1>2, <1>4, <1>5, <1>6, <1>7
<1>9. (x + 1) * Fractions = xf + Fractions /\ (d + 1) * Fractions = df + Fractions
  BY <1>0, <1>4, <1>7, SMT
<1>10. d < x + 1 /\ x < d + 1
  BY <1>0, <1>4, <1>7, <1>8, <1>9, Cancels
<1>11. t \in Int /\ d = x
  BY <1>2, <1>4, <1>10
<1> QED BY <1>11 DEF t, d

\* The middle of the stamp of x before it is cut to a word.
MiddleAt(x) == FullStamp(x) \div (Fractions \div Units)

LEMMA UnitsIn ==
  Fractions \div Units \in Nat \ {0} /\ Fractions = Units * (Fractions \div Units)
<1>1. Fractions \in Nat \ {0} /\ Units \in Nat \ {0} /\ Fractions % Units = 0
  BY NtpAssumption
<1>2. PICK k : k = Fractions \div Units
  OBVIOUS
<1>3. k \in Int /\ Fractions = Units * k
  BY <1>1, <1>2, Division
<1>4. k * Units > 0
  BY <1>1, <1>3, SMT
<1>5. k > 0
  BY <1>1, <1>3, <1>4, Signs
<1> QED BY <1>2, <1>3, <1>5

\* d units later by the stamps is e units later by the clock, or less than one off.
LEMMA MiddlesApart ==
  ASSUME NEW x \in Int, NEW e \in Int
  PROVE  /\ MiddleAt(x) \in Int /\ MiddleAt(x + e) \in Int
         /\ (MiddleAt(x + e) - MiddleAt(x)) * Nanos < e * Units + Nanos
         /\ (MiddleAt(x + e) - MiddleAt(x)) * Nanos > e * Units - Nanos
         /\ \A h \in Int : h * Nanos <= e * Units => MiddleAt(x) + h <= MiddleAt(x + e)
<1> DEFINE c == Nanos - Nanos \div 2
<1>0. Nanos \in Nat \ {0} /\ Fractions \in Nat \ {0} /\ Units \in Nat \ {0} /\ c \in Int
  BY NtpAssumption, SMT
<1>1. PICK k \in Nat \ {0} : k = Fractions \div Units /\ Fractions = Units * k
  BY UnitsIn
<1> HIDE DEF c
<1>2. PICK Q \in Nat \ {0} : Q = Nanos * k
  BY <1>0, <1>1, SMT
\* One stamp.
<1>3. ASSUME NEW y \in Int
      PROVE  MiddleAt(y) \in Int /\ MiddleAt(y) * Q <= y * Fractions + c /\ y * Fractions + c < MiddleAt(y) * Q + Q
  <2>1. PICK t \in Int : t = FullStamp(y)
    BY StampsTurnBack
  <2>2. t * Nanos <= y * Fractions + c /\ y * Fractions + c < t * Nanos + Nanos
    <3>1. t = (y \div Nanos) * Fractions + Rounded((y % Nanos) * Fractions, Nanos)
      BY <2>1 DEF FullStamp
    <3> QED BY <1>0, <3>1, ScaledBetween DEF c
  <2>3. MiddleAt(y) = t \div k
    BY <1>1, <2>1 DEF MiddleAt
  <2>4. PICK m \in Int, r \in 0 .. k - 1 : m = t \div k /\ t = k * m + r
    <3>1. t \div k \in Int /\ t % k \in 0 .. k - 1 /\ t = k * (t \div k) + (t % k)
      BY Division
    <3> QED BY <3>1
  <2>5. PICK p \in Int, s \in Int : p = m * Q /\ s = r * Nanos
    BY <1>0, <2>4, SMT
  <2>6. t * Nanos = p + s
    <3>0. PICK km \in Int : km = k * m
      BY <2>4, SMT
    <3>1. t * Nanos = (k * m) * Nanos + r * Nanos
      <4>1. r \in Int /\ Nanos \in Int /\ t = km + r
        BY <1>0, <2>4, <3>0
      <4>2. (km + r) * Nanos = km * Nanos + r * Nanos
        BY ONLY <4>1, <3>0, SMT
      <4> QED BY <3>0, <4>1, <4>2
    <3>2. (k * m) * Nanos = m * (Nanos * k)
      BY <1>0, <2>4, SMT
    <3> QED BY <1>2, <2>5, <3>1, <3>2
  <2>7. s >= 0 /\ s + Nanos <= Q
    <3>1. (k - 1 - r) * Nanos = Q - Nanos - s
      BY <1>0, <1>2, <2>4, <2>5, SMT
    <3>2. (k - 1 - r) * Nanos >= 0 /\ r * Nanos >= 0
      BY <1>0, <2>4, Signs
    <3> QED BY <1>0, <2>5, <3>1, <3>2
  <2>8. PICK z \in Int : z = y * Fractions + c
    BY <1>0, SMT
  <2>9. p <= z /\ z < p + Q
    BY <1>0, <2>2, <2>5, <2>6, <2>7, <2>8
  <2> QED BY <2>3, <2>4, <2>5, <2>8, <2>9
<1>4. PICK m \in Int, n \in Int : m = MiddleAt(x) /\ n = MiddleAt(x + e)
  BY <1>3
<1>5. PICK X \in Int, E \in Int, M \in Int, N \in Int :
        /\ X = x * Fractions + c /\ E = e * Fractions /\ M = m * Q /\ N = n * Q
        /\ (x + e) * Fractions + c = X + E
  BY <1>0, <1>2, <1>4, SMT
<1>6. M <= X /\ X < M + Q /\ N <= X + E /\ X + E < N + Q
  <2>1. m * Q <= x * Fractions + c /\ x * Fractions + c < m * Q + Q
    BY <1>3, <1>4
  <2>2. x + e \in Int
    OBVIOUS
  <2>3. n * Q <= (x + e) * Fractions + c /\ (x + e) * Fractions + c < n * Q + Q
    BY <1>3, <1>4, <2>2
  <2> QED BY <1>5, <2>1, <2>3
<1>7. E = (e * Units) * k /\ Q = Nanos * k
  <2>1. E = e * (Units * k)
    BY <1>1, <1>5
  <2>2. e * (Units * k) = (e * Units) * k
    BY <1>0, SMT
  <2> QED BY <1>2, <2>1, <2>2
<1>8. ((n - m) * Nanos) * k = N - M
  BY <1>0, <1>2, <1>4, <1>5, SMT
<1>9. PICK g \in Int, eu \in Int : g = (n - m) * Nanos /\ eu = e * Units
  BY <1>0, <1>4, SMT
<1>10. g < eu + Nanos
  <2>1. (eu + Nanos) * k = E + Q /\ g * k = N - M
    BY <1>0, <1>7, <1>8, <1>9, SMT
  <2>2. g * k < (eu + Nanos) * k
    BY <1>2, <1>5, <1>6, <2>1
  <2> QED BY <1>0, <1>9, <2>2, Cancels
<1>11. g > eu - Nanos
  <2>1. (eu - Nanos) * k = E - Q /\ g * k = N - M
    BY <1>0, <1>7, <1>8, <1>9, SMT
  <2>2. (eu - Nanos) * k < g * k
    BY <1>2, <1>5, <1>6, <2>1
  <2>3. eu - Nanos < g
    BY <1>0, <1>9, <2>2, Cancels
  <2> QED BY <1>0, <1>9, <2>3
<1>12. ASSUME NEW h \in Int, h * Nanos <= e * Units PROVE m + h <= n
  <2>1. PICK w \in Int : w = h * Nanos /\ w <= eu
    BY <1>0, <1>9, <1>12, SMT
  <2>2. (eu - w) * k >= 0 /\ (eu - w) * k = eu * k - w * k
    BY <1>9, <2>1, SMT
  <2>3. w * k = h * Q
    BY <1>0, <1>2, <2>1, SMT
  <2>4. PICK H \in Int : H = h * Q
    BY <1>2, SMT
  <2>5. H <= E
    BY <1>5, <1>7, <1>9, <2>2, <2>3, <2>4
  <2>6. (m + h) * Q = M + H /\ (n + 1) * Q = N + Q
    BY <1>2, <1>4, <1>5, <2>4, SMT
  <2>7. (m + h) * Q < (n + 1) * Q
    BY <1>2, <1>5, <1>6, <2>4, <2>5, <2>6
  <2>8. m + h < n + 1
    BY <1>4, <2>7, Cancels
  <2> QED BY <1>4, <2>8
<1> QED BY <1>4, <1>9, <1>10, <1>11, <1>12

LEMMA RemainderIs ==
  ASSUME NEW n \in Int, NEW w \in Nat \ {0}, NEW k \in Int, NEW r \in 0 .. w - 1, n = w * k + r
  PROVE  n % w = r /\ n \div w = k
<1>1. n \div w \in Int /\ n % w \in 0 .. w - 1 /\ n = w * (n \div w) + (n % w)
  BY Division
<1>2. PICK q \in Int, s \in 0 .. w - 1 : q = n \div w /\ s = n % w /\ n = w * q + s
  BY <1>1
<1>3. PICK wk \in Int, wq \in Int : wk = k * w /\ wq = q * w
  BY SMT
<1>4. w * k = wk /\ w * q = wq /\ (k + 1) * w = wk + w /\ (q + 1) * w = wq + w
  BY <1>3, SMT
<1>5. wk < wq + w /\ wq < wk + w
  BY <1>2, <1>3, <1>4
<1>6. k < q + 1 /\ q < k + 1
  BY <1>3, <1>4, <1>5, Cancels
<1> QED BY <1>2, <1>3, <1>4, <1>6

LEMMA Distributes ==
  ASSUME NEW a \in Int, NEW b \in Int, NEW c \in Int, NEW d \in Int
  PROVE  /\ a * (b * c + d) = (a * b) * c + a * d
         /\ a * (d + b * c) = a * d + (a * b) * c
         /\ a * d \in Int /\ (a * b) * c \in Int
  BY SMT

LEMMA ProductOfSum ==
  ASSUME NEW a \in Int, NEW b \in Int, NEW c \in Int, NEW d \in Int, NEW s \in Int, s = b * c + d
  PROVE  a * s = (a * b) * c + a * d /\ a * s \in Int /\ a * d \in Int /\ (a * b) * c \in Int
<1>1. a * (b * c + d) = (a * b) * c + a * d /\ a * d \in Int /\ (a * b) * c \in Int
  BY Distributes
<1>2. a * s \in Int
  BY SMT
<1> QED BY <1>1, <1>2

LEMMA FirstCounterpart ==
  ASSUME NEW x \in Int, NEW y \in Int, NEW r \in Int, NEW a \in Int, NEW b \in Int, NEW c \in Int,
         x = a + r, y = c + r, a = b + c
  PROVE  y = x - b
  OBVIOUS

LEMMA LaterCounterpart ==
  ASSUME NEW u \in Int, NEW v \in Int, NEW x \in Int, NEW y \in Int, NEW r \in Int, NEW e \in Int,
         NEW b \in Int, NEW c \in Int, u = y + e, v = x + e, y = x - c, u = b + r
  PROVE  v = b + c + r
  OBVIOUS

\* Every time has a counterpart in the first era, with the same stamp.
LEMMA EraOf ==
  ASSUME NEW x \in Int
  PROVE  \E k \in Int, y \in Int :
           /\ y = x - (Nanos * Seconds) * k
           /\ ToNtpTime(x) = FullStamp(y)
           /\ FullStamp(x) = ToNtpTime(x) + (Fractions * Seconds) * k
<1>0. Nanos \in Nat \ {0} /\ Fractions \in Nat \ {0} /\ Seconds \in Nat \ {0}
  BY NtpAssumption
<1>1. PICK s \in Int, r \in 0 .. Nanos - 1 : s = x \div Nanos /\ r = x % Nanos /\ x = Nanos * s + r
  BY <1>0, Division
<1>2. PICK k \in Int, e \in 0 .. Seconds - 1 : k = s \div Seconds /\ e = s % Seconds /\ s = Seconds * k + e
  BY <1>0, Division
<1>3. PICK y \in Int : y = Nanos * e + r
  BY <1>0, SMT
<1>4. y = x - (Nanos * Seconds) * k
  <2>1. /\ Nanos * s = (Nanos * Seconds) * k + Nanos * e
        /\ Nanos * e \in Int /\ (Nanos * Seconds) * k \in Int
    <3>1. Nanos \in Int /\ Seconds \in Int /\ e \in Int /\ s \in Int /\ k \in Int
      BY <1>0
    <3>2. s = Seconds * k + e
      BY <1>2
    <3> QED BY ONLY <3>1, <3>2, ProductOfSum
  <2>2. PICK a \in Int, b \in Int, c \in Int : a = Nanos * s /\ b = (Nanos * Seconds) * k /\ c = Nanos * e
    BY <2>1
  <2>3. x = a + r /\ y = c + r /\ a = b + c /\ r \in Int
    <3>1. x = a + r /\ y = c + r
      BY <1>1, <1>3, <2>2, Zenon
    <3>2. a = b + c
      BY <2>1, <2>2, Zenon
    <3> QED BY <3>1, <3>2
  <2>4. y = x - b
    BY ONLY <2>2, <2>3, <1>3, x \in Int, FirstCounterpart
  <2> QED BY <2>2, <2>4
<1>5. y \div Nanos = e /\ y % Nanos = r
  BY <1>0, <1>3, RemainderIs
<1>6. PICK z : z = Rounded(r * Fractions, Nanos)
  OBVIOUS
<1>7. ToNtpTime(x) = e * Fractions + z /\ FullStamp(y) = e * Fractions + z
  BY <1>1, <1>2, <1>5, <1>6 DEF ToNtpTime, FullStamp
<1>8. FullStamp(x) = s * Fractions + z /\ z \in Int
  <2>1. r * Fractions \in Int
    BY <1>0, SMT
  <2> QED BY <1>0, <1>1, <1>6, <2>1, RoundedBetween DEF FullStamp
<1>9. s * Fractions + z = e * Fractions + z + (Fractions * Seconds) * k
  <2>1. s * Fractions = e * Fractions + (Fractions * Seconds) * k
    <3>1. Fractions \in Int /\ Seconds \in Int /\ e \in Int /\ s \in Int /\ k \in Int
      BY <1>0
    <3>2. Fractions * s = (Fractions * Seconds) * k + Fractions * e
      <4>1. s = Seconds * k + e
        BY <1>2
      <4> QED BY ONLY <3>1, <4>1, ProductOfSum
    <3>3. Fractions * s = s * Fractions /\ Fractions * e = e * Fractions
      BY <1>1, <3>1, SMT
    <3>4. PICK a \in Int, b \in Int : a = e * Fractions /\ b = (Fractions * Seconds) * k
      BY <1>0, SMT
    <3> QED BY <3>2, <3>3, <3>4
  <2>2. PICK a \in Int, b \in Int, c \in Int :
          a = s * Fractions /\ b = e * Fractions /\ c = (Fractions * Seconds) * k
    BY <1>0, SMT
  <2> QED BY <1>8, <2>1, <2>2
<1> QED BY <1>3, <1>4, <1>7, <1>8, <1>9

\* The seconds shifted out leave the word of the middle as it is.
LEMMA WordOfMiddle ==
  ASSUME NEW x \in Int
  PROVE  Middle(ToNtpTime(x)) = MiddleAt(x) % Words
<1>0. /\ Fractions \in Nat \ {0} /\ Seconds \in Nat \ {0} /\ Units \in Nat \ {0} /\ Words \in Nat \ {0}
      /\ (Seconds * Units) % Words = 0
  BY NtpAssumption
<1>1. PICK u \in Nat \ {0} : u = Fractions \div Units /\ Fractions = Units * u
  BY UnitsIn
<1>2. PICK k \in Int, t \in Int : t = ToNtpTime(x) /\ FullStamp(x) = t + (Fractions * Seconds) * k
  <2>1. PICK k \in Int, y \in Int : /\ ToNtpTime(x) = FullStamp(y)
                                    /\ FullStamp(x) = ToNtpTime(x) + (Fractions * Seconds) * k
    BY EraOf
  <2>2. FullStamp(y) \in Int
    BY StampsTurnBack
  <2> QED BY <2>1, <2>2
<1>3. PICK w \in Int : Seconds * Units = Words * w
  <2>1. PICK su \in Int : su = Seconds * Units
    BY <1>0, SMT
  <2>2. su \div Words \in Int /\ su = Words * (su \div Words) + (su % Words)
    BY <1>0, <2>1, Division
  <2>3. PICK w \in Int, p \in Int : w = su \div Words /\ p = Words * w
    BY <1>0, <2>2, SMT
  <2> QED BY <1>0, <2>1, <2>2, <2>3
<1>4. PICK m \in Int, r \in 0 .. u - 1 : m = t \div u /\ t = u * m + r
  <2>1. t \div u \in Int /\ t % u \in 0 .. u - 1 /\ t = u * (t \div u) + (t % u)
    BY Division
  <2> QED BY <2>1
<1>5. PICK n \in Int : n = m + Words * (w * k)
  BY <1>0, SMT
<1>6. FullStamp(x) = u * n + r
  <2>1. PICK d \in Int : d = Words * (w * k) /\ d = (Words * w) * k
    BY <1>0, SMT
  <2>2. (Fractions * Seconds) * k = u * d
    <3>1. (Fractions * Seconds) * k = u * ((Seconds * Units) * k)
      BY <1>0, <1>1, SMT
    <3> QED BY <1>3, <2>1, <3>1
  <2>3. u * n = u * m + u * d /\ u * m \in Int /\ u * d \in Int
    <3>1. n = m + d
      BY <1>5, <2>1
    <3> QED BY <3>1, SMT
  <2>4. PICK a \in Int, b \in Int : a = u * m /\ b = u * d
    BY <2>3
  <2>5. FullStamp(x) = t + b /\ t = a + r /\ u * n = a + b
    BY <1>2, <1>4, <2>2, <2>3, <2>4
  <2>6. t \in Int /\ r \in Int /\ a \in Int /\ b \in Int
    OBVIOUS
  <2> QED BY ONLY <2>5, <2>6
<1>7. MiddleAt(x) = n
  <2>1. PICK f \in Int : f = FullStamp(x)
    BY StampsTurnBack
  <2>2. f \div u = n
    BY <1>6, <2>1, RemainderIs
  <2>3. MiddleAt(x) = f \div u
    BY <1>1, <2>1, Zenon DEF MiddleAt
  <2> QED BY <2>2, <2>3
<1>8. n % Words = m % Words
  <2>1. PICK p \in Int, r2 \in 0 .. Words - 1 : r2 = m % Words /\ m = Words * p + r2
    <3>1. m \div Words \in Int /\ m % Words \in 0 .. Words - 1 /\ m = Words * (m \div Words) + (m % Words)
      BY <1>0, Division
    <3> QED BY <3>1
  <2>2. PICK j \in Int, l \in Int : l = w * k /\ j = p + l
    BY SMT
  <2>3. n = Words * j + r2
    <3>1. Words * j = Words * p + Words * l
      BY <1>0, <2>2, SMT
    <3>2. PICK a \in Int, b \in Int, c \in Int : a = Words * p /\ b = Words * l /\ c = Words * j
      BY <1>0, SMT
    <3> QED BY <1>5, <2>1, <2>2, <3>1, <3>2
  <2> QED BY <1>0, <2>1, <2>3, RemainderIs
<1> QED BY <1>1, <1>2, <1>4, <1>7, <1>8 DEF Middle

\* A time that is counted on from a stamp has lost the eras before, and its own stamp
\* does not show it, though an era may have ended in between.
LEMMA EraIsForgotten ==
  ASSUME NEW x \in Int, NEW e \in Int
  PROVE  Middle(ToNtpTime(Duration(ToNtpTime(x)) + e)) = Middle(ToNtpTime(x + e))
<1>0. /\ Nanos \in Nat \ {0} /\ Fractions \in Nat \ {0} /\ Seconds \in Nat \ {0} /\ Units \in Nat \ {0}
  BY NtpAssumption
<1>1. PICK k \in Int, y \in Int : y = x - (Nanos * Seconds) * k /\ ToNtpTime(x) = FullStamp(y)
  BY EraOf
<1>2. Duration(ToNtpTime(x)) = y
  BY <1>1, StampsTurnBack
<1>3. ToNtpTime(y + e) = ToNtpTime(x + e)
  <2>1. PICK u \in Int, v \in Int : u = y + e /\ v = x + e
    OBVIOUS
  <2>2. PICK s \in Int, r \in 0 .. Nanos - 1 : s = u \div Nanos /\ r = u % Nanos /\ u = Nanos * s + r
    BY <1>0, Division
  <2>3. PICK g \in Int : g = s + Seconds * k
    BY <1>0, SMT
  <2>4. v = Nanos * g + r
    <3>1. Nanos \in Int /\ Seconds \in Int
      BY <1>0
    <3>2. Nanos * g = Nanos * s + (Nanos * Seconds) * k
      BY ONLY <3>1, <2>3, Distributes
    <3>3. PICK b \in Int, c \in Int : b = Nanos * s /\ c = (Nanos * Seconds) * k
      BY ONLY <3>1, Distributes
    <3>4. y = x - c /\ u = b + r /\ Nanos * g = b + c
      BY <1>1, <2>2, <3>2, <3>3
    <3>5. v = b + c + r
      <4>1. /\ u \in Int /\ v \in Int /\ x \in Int /\ y \in Int /\ r \in Int /\ e \in Int
            /\ b \in Int /\ c \in Int
        OBVIOUS
      <4> QED BY ONLY <4>1, <2>1, <3>4, LaterCounterpart
    <3> QED BY <3>4, <3>5
  <2>5. v % Nanos = r /\ v \div Nanos = g
    BY <1>0, <2>4, RemainderIs
  <2>7. g % Seconds = s % Seconds
    <3>1. PICK p \in Int, z \in 0 .. Seconds - 1 : z = s % Seconds /\ s = Seconds * p + z
      <4>1. s \div Seconds \in Int /\ s % Seconds \in 0 .. Seconds - 1
            /\ s = Seconds * (s \div Seconds) + (s % Seconds)
        BY <1>0, Division
      <4> QED BY <4>1
    <3>2. PICK j \in Int : j = p + k
      OBVIOUS
    <3>3. g = Seconds * j + z
      <4>1. Seconds * j = Seconds * p + Seconds * k
        BY <1>0, <3>2, SMT
      <4>2. PICK a \in Int, b \in Int, c \in Int : a = Seconds * j /\ b = Seconds * p /\ c = Seconds * k
        BY <1>0, SMT
      <4> QED BY <2>3, <3>1, <4>1, <4>2
    <3> QED BY <1>0, <3>1, <3>3, RemainderIs
  <2> QED BY <2>1, <2>2, <2>5, <2>7 DEF ToNtpTime
<1> QED BY <1>2, <1>3

\* The difference of two middles, up to a number of words.
LEMMA DifferenceIs ==
  ASSUME NEW w \in Nat \ {0}, w = Words, NEW m \in Int, NEW n \in Int, NEW h \in Int, NEW j \in Int,
         NEW d \in 0 .. w - 1, d = n - m - h + w * j
  PROVE  ntpDiff(n % w, m % w, h) = d
<1>1. PICK p \in Int, a \in Int : a = m % w /\ m = w * p + a
  <2>1. m \div w \in Int /\ m % w \in 0 .. w - 1 /\ m = w * (m \div w) + (m % w)
    BY Division
  <2>2. m % w \in Int
    BY <2>1
  <2> QED BY <2>1, <2>2
<1>2. PICK q \in Int, b \in Int : b = n % w /\ n = w * q + b
  <2>1. n \div w \in Int /\ n % w \in 0 .. w - 1 /\ n = w * (n \div w) + (n % w)
    BY Division
  <2>2. n % w \in Int
    BY <2>1
  <2> QED BY <2>1, <2>2
<1>3. PICK k \in Int : k = p - q - j
  OBVIOUS
<1>4. w * k = w * p - w * q - w * j
  BY <1>3, SMT
<1>5. PICK wp \in Int, wq \in Int, wj \in Int, wk \in Int : wp = w * p /\ wq = w * q /\ wj = w * j /\ wk = w * k
  BY SMT
<1>6. b - a - h = wk + d
  <2>1. m = wp + a /\ n = wq + b /\ d = n - m - h + wj /\ wk = wp - wq - wj /\ d \in Int
    BY <1>1, <1>2, <1>4, <1>5
  <2> QED BY ONLY <2>1, <1>1, <1>2, <1>5
<1>7. b - a - h = w * k + d
  BY <1>5, <1>6
<1>8. PICK z \in Int : z = b - a - h
  <2>1. b \in Int /\ a \in Int /\ h \in Int
    BY <1>1, <1>2
  <2>2. b - a - h \in Int
    BY ONLY <2>1
  <2> QED BY <2>2
<1>9. z = w * k + d
  BY <1>7, <1>8
<1>10. z % w = d
  BY <1>9, RemainderIs
<1> QED BY <1>1, <1>2, <1>8, <1>10 DEF ntpDiff

\* d units, rounded to the next millisecond, tell u nanoseconds.
LEMMA UnitsTell ==
  ASSUME NEW u \in Int, NEW d \in Int,
         d * Nanos > u * Units - Nanos, d * Nanos < u * Units + 2 * Nanos
  PROVE  Tells(Ms(d), u)
<1>0. Nanos \in Nat \ {0} /\ Millis \in Nat \ {0} /\ Units \in Nat \ {0} /\ Nanos % Millis = 0
  BY NtpAssumption
<1>1. PICK P \in Int : P = Nanos \div Millis /\ Nanos = Millis * P
  <2>1. Nanos \div Millis \in Int /\ Nanos = Millis * (Nanos \div Millis) + (Nanos % Millis)
    BY <1>0, Division
  <2>2. PICK p \in Int : p = Nanos \div Millis
    BY <2>1
  <2>3. PICK mp \in Int : mp = Millis * p
    BY <1>0, SMT
  <2> QED BY <1>0, <2>1, <2>2, <2>3
<1>2. P > 0
  <2>1. P * Millis = Nanos
    BY <1>0, <1>1, SMT
  <2>2. P * Millis > 0
    BY <1>0, <2>1
  <2> QED BY <1>0, <1>1, <2>2, Signs
<1>3. PICK U1 \in Int : U1 = Nanos \div Units + 1 /\ U1 * Units > Nanos
  <2>1. Nanos \div Units \in Int /\ Nanos % Units \in 0 .. Units - 1
        /\ Nanos = Units * (Nanos \div Units) + (Nanos % Units)
    BY <1>0, Division
  <2>2. PICK q \in Int, r \in 0 .. Units - 1 : q = Nanos \div Units /\ Nanos = Units * q + r
    BY <2>1
  <2>3. (q + 1) * Units = Units * q + Units
    BY <1>0, <2>2, SMT
  <2>4. PICK uq \in Int : uq = Units * q
    BY <1>0, <2>2, SMT
  <2> QED BY <1>0, <2>2, <2>3, <2>4
<1>4. PICK dm \in Int, dn \in Int, uu \in Int : dm = d * Millis /\ dn = d * Nanos /\ uu = u * Units
  BY <1>0, SMT
<1>5. PICK ms \in Int, s \in 0 .. Units - 1 : ms = Ms(d) /\ dm + Units - 1 = Units * ms + s
  <2>1. PICK n \in Int : n = dm + Units - 1
    BY <1>0, <1>4
  <2>2. n \div Units \in Int /\ n % Units \in 0 .. Units - 1 /\ n = Units * (n \div Units) + (n % Units)
    BY <1>0, <2>1, Division
  <2>3. Ms(d) = n \div Units
    BY <1>4, <2>1 DEF Ms
  <2> QED BY <2>1, <2>2, <2>3
<1>6. PICK mu \in Int : mu = ms * Units /\ dm <= mu /\ mu <= dm + Units - 1
  <2>1. PICK mu \in Int : mu = ms * Units /\ mu = Units * ms
    BY <1>0, <1>5, SMT
  <2> QED BY <1>0, <1>4, <1>5, <2>1
<1>7. PICK up \in Int, mup \in Int : up = Units * P /\ mup = mu * P
  BY <1>0, <1>1, <1>6, SMT
<1>8. dn <= mup /\ mup <= dn + up - P
  <2>1. dm * P = dn
    <3>1. (d * Millis) * P = d * (Millis * P)
      BY <1>0, <1>1, SMT
    <3> QED BY <1>1, <1>4, <3>1
  <2>2. (mu - dm) * P = mup - dn
    <3>1. (mu - dm) * P = mu * P - dm * P
      BY <1>1, <1>4, <1>6, SMT
    <3> QED BY <1>7, <2>1, <3>1
  <2>3. (dm + Units - 1 - mu) * P = dn + up - P - mup
    <3>1. (dm + Units - 1 - mu) * P = dm * P + Units * P - P - mu * P
      BY <1>0, <1>1, <1>4, <1>6, SMT
    <3> QED BY <1>7, <2>1, <3>1
  <2>4. (mu - dm) * P >= 0 /\ (dm + Units - 1 - mu) * P >= 0
    BY <1>0, <1>1, <1>2, <1>4, <1>6, Signs
  <2> QED BY <1>1, <1>4, <1>7, <2>2, <2>3, <2>4
<1>9. PICK y \in Int, mp \in Int : mp = ms * P /\ y = mp - u /\ y * Units = mup - uu
  <2>1. PICK mp \in Int : mp = ms * P
    BY <1>1, <1>5, SMT
  <2>2. mp * Units = mup
    <3>1. (ms * P) * Units = (ms * Units) * P
      BY <1>0, <1>1, <1>5, SMT
    <3> QED BY <1>6, <1>7, <2>1, <3>1
  <2>3. (mp - u) * Units = mp * Units - uu
    BY <1>0, <1>4, <2>1, SMT
  <2> QED BY <2>1, <2>2, <2>3
<1>10. PICK y1 \in Int, v \in Int : y1 = y * Units /\ v = U1 * Units
  BY <1>0, <1>3, <1>9, SMT
<1>11. y + U1 > 0
  <2>1. (y + U1) * Units = y1 + v
    BY <1>0, <1>3, <1>9, <1>10, SMT
  <2>2. y1 + v > 0
    BY <1>0, <1>3, <1>4, <1>7, <1>8, <1>9, <1>10
  <2>3. y + U1 \in Int /\ (y + U1) * Units > 0
    BY <1>3, <1>9, <2>1, <2>2
  <2> QED BY <1>0, <2>3, Signs
<1>12. y < 2 * U1 + P
  <2>1. (2 * U1 + P) * Units = 2 * v + up
    <3>1. (2 * U1 + P) * Units = 2 * (U1 * Units) + Units * P
      BY <1>0, <1>1, <1>3, SMT
    <3> QED BY <1>7, <1>10, <3>1
  <2>2. y1 < 2 * v + up
    BY <1>0, <1>1, <1>2, <1>3, <1>4, <1>7, <1>8, <1>9, <1>10
  <2>3. 2 * U1 + P \in Int /\ y * Units < (2 * U1 + P) * Units
    BY <1>1, <1>3, <1>10, <2>1, <2>2
  <2> QED BY <1>0, <1>9, <2>3, Cancels
<1>13. mp - u \in 1 - U1 .. 2 * U1 + P - 1
  BY <1>1, <1>3, <1>9, <1>11, <1>12
<1> QED BY <1>1, <1>3, <1>5, <1>9, <1>13 DEF Tells

\* Full units of what a packet was held.
LEMMA HeldBetween ==
  ASSUME NEW hold \in Nat
  PROVE  /\ Held(hold) \in Nat
         /\ Held(hold) * Nanos <= hold * Units
         /\ hold * Units < Held(hold) * Nanos + Nanos
<1>0. Nanos \in Nat \ {0} /\ Units \in Nat \ {0}
  BY NtpAssumption
<1>1. PICK n \in Int : n = hold * Units /\ n >= 0
  BY <1>0, SMT
<1>2. n \div Nanos \in Int /\ n % Nanos \in 0 .. Nanos - 1 /\ n = Nanos * (n \div Nanos) + (n % Nanos)
  BY <1>0, Division
<1>3. PICK q \in Int, r \in 0 .. Nanos - 1 : q = n \div Nanos /\ n = Nanos * q + r
  BY <1>2
<1>4. PICK p \in Int : p = q * Nanos /\ p = Nanos * q /\ (q + 1) * Nanos = p + Nanos
  BY <1>0, <1>3, SMT
<1>5. p <= n /\ n < p + Nanos
  BY <1>0, <1>3, <1>4
<1>6. q + 1 > 0
  <2>1. q + 1 \in Int /\ (q + 1) * Nanos > 0
    BY <1>0, <1>1, <1>3, <1>4, <1>5
  <2> QED BY <1>0, <2>1, Signs
<1>7. q \in Nat
  BY <1>3, <1>6
<1> QED BY <1>1, <1>3, <1>4, <1>5, <1>7 DEF Held

\* A packet that came at x + e and was sent at x, held for some of the time between.
LEMMA ReportTells ==
  ASSUME NEW x \in Int, NEW e \in Nat, NEW hold \in 0 .. e,
         e * Units < Nanos * (Words \div 2 - 1), NEW d,
         d = ntpDiff(Middle(ToNtpTime(x + e)), Middle(ToNtpTime(x)), Held(hold))
  PROVE  d \in Int /\ ~(d > Words \div 2) /\ Tells(Ms(d), e - hold)
<1>0. Nanos \in Nat \ {0} /\ Units \in Nat \ {0} /\ Words \in Nat \ {0} /\ hold \in Nat /\ hold <= e
  BY NtpAssumption
<1>1. PICK half \in Nat : half = Words \div 2 /\ half <= Words - 1
  BY <1>0, SMT
<1>a. /\ MiddleAt(x) \in Int /\ MiddleAt(x + e) \in Int
      /\ (MiddleAt(x + e) - MiddleAt(x)) * Nanos < e * Units + Nanos
      /\ (MiddleAt(x + e) - MiddleAt(x)) * Nanos > e * Units - Nanos
      /\ \A h \in Int : h * Nanos <= e * Units => MiddleAt(x) + h <= MiddleAt(x + e)
  <2>1. x \in Int /\ e \in Int
    OBVIOUS
  <2> QED BY ONLY <2>1, MiddlesApart
<1>2. PICK m \in Int, n \in Int : m = MiddleAt(x) /\ n = MiddleAt(x + e)
  BY <1>a
<1>3. PICK h \in Nat : h = Held(hold) /\ h * Nanos <= hold * Units /\ hold * Units < h * Nanos + Nanos
  BY <1>0, HeldBetween
<1>4. PICK eu \in Int, ku \in Int, uu \in Int :
        eu = e * Units /\ ku = hold * Units /\ uu = (e - hold) * Units /\ uu = eu - ku /\ uu >= 0
  <2>1. (e - hold) * Units = e * Units - hold * Units
    BY <1>0, SMT
  <2>2. (e - hold) * Units >= 0 /\ (e - hold) * Units \in Int
    BY <1>0, Signs
  <2>3. e * Units \in Int /\ hold * Units \in Int
    BY <1>0, SMT
  <2> QED BY <2>1, <2>2, <2>3
<1>5. (n - m) * Nanos < eu + Nanos /\ (n - m) * Nanos > eu - Nanos /\ m + h <= n
  <2>1. h \in Int /\ h * Nanos <= e * Units
    <3>1. PICK hn \in Int : hn = h * Nanos
      BY <1>0, SMT
    <3> QED BY <1>3, <1>4, <3>1
  <2> QED BY <1>2, <1>4, <1>a, <2>1
<1>6. PICK g \in Nat : g = n - m - h
  BY <1>2, <1>3, <1>5
<1>7. PICK gn \in Int, hn \in Int : gn = g * Nanos /\ hn = h * Nanos /\ gn = (n - m) * Nanos - hn
  <2>1. (n - m - h) * Nanos = (n - m) * Nanos - h * Nanos
    BY <1>0, <1>2, <1>3, SMT
  <2>2. g * Nanos \in Int /\ h * Nanos \in Int
    BY <1>0, <1>3, <1>6, SMT
  <2> QED BY <1>6, <2>1, <2>2
<1>8. PICK nm \in Int : nm = (n - m) * Nanos
  BY <1>0, <1>2, SMT
<1>9. gn > uu - Nanos /\ gn < uu + 2 * Nanos
  BY <1>0, <1>3, <1>4, <1>5, <1>7, <1>8
<1>10. g <= half
  <2>1. PICK nh \in Int : nh = Nanos * (half - 1) /\ (half + 1) * Nanos = nh + 2 * Nanos
    BY <1>0, <1>1, SMT
  <2>2. eu < nh
    BY <1>1, <1>4, <2>1
  <2>3. g * Nanos < (half + 1) * Nanos
    <3>1. hold * Units >= 0
      BY <1>0, SMT
    <3> QED BY <1>0, <1>4, <1>7, <1>9, <2>1, <2>2, <3>1
  <2>4. g < half + 1
    BY <1>0, <1>1, <2>3, Cancels
  <2> QED BY <1>1, <2>4
<1>11. d = g
  <2>1. Middle(ToNtpTime(x)) = m % Words /\ Middle(ToNtpTime(x + e)) = n % Words
    <3>1. x \in Int /\ x + e \in Int
      OBVIOUS
    <3> QED BY <1>2, <3>1, WordOfMiddle
  <2>2. g \in 0 .. Words - 1 /\ g = n - m - h + Words * 0
    <3>1. Words * 0 = 0
      BY <1>0, SMT
    <3> QED BY <1>0, <1>1, <1>2, <1>3, <1>6, <1>10, <3>1
  <2>3. ntpDiff(n % Words, m % Words, h) = g
    <3>1. Words \in Nat \ {0} /\ m \in Int /\ n \in Int /\ h \in Int /\ 0 \in Int
      BY <1>0
    <3> QED BY ONLY <2>2, <3>1, DifferenceIs
  <2> QED BY <1>3, <2>1, <2>3
<1>12. Tells(Ms(g), e - hold)
  <2>1. g * Nanos > (e - hold) * Units - Nanos /\ g * Nanos < (e - hold) * Units + 2 * Nanos
    BY <1>4, <1>7, <1>9
  <2>2. g \in Int /\ e - hold \in Int
    BY <1>0
  <2> QED BY <2>1, <2>2, UnitsTell
<1> QED BY <1>1, <1>10, <1>11, <1>12

\* A packet that by the clock came before it was sent.
LEMMA ReportRefused ==
  ASSUME NEW x \in Int, NEW e \in Nat, NEW hold \in 0 .. e, NEW back \in Int,
         back * Units > Nanos, (back + e) * Units < Nanos * (Words \div 2 - 1), NEW d,
         d = ntpDiff(Middle(ToNtpTime(x - back)), Middle(ToNtpTime(x)), Held(hold))
  PROVE  d > Words \div 2
<1>0. Nanos \in Nat \ {0} /\ Units \in Nat \ {0} /\ Words \in Nat \ {0} /\ hold \in Nat /\ hold <= e
  BY NtpAssumption
<1>1. PICK half \in Nat : half = Words \div 2 /\ half <= Words - half
  BY <1>0, SMT
<1>2. PICK m \in Int, n \in Int : m = MiddleAt(x) /\ n = MiddleAt(x - back)
  <2>1. x - back \in Int /\ x + (-back) \in Int /\ -back \in Int
    OBVIOUS
  <2>2. MiddleAt(x) \in Int
    BY <2>1, MiddlesApart
  <2>3. MiddleAt(x - back) \in Int
    BY <2>1, UnitsIn, StampsTurnBack DEF MiddleAt
  <2> QED BY <2>2, <2>3
<1>3. PICK h \in Nat : h = Held(hold) /\ h * Nanos <= hold * Units
  BY <1>0, HeldBetween
<1>4. PICK bu \in Int, eu \in Int, ku \in Int : bu = back * Units /\ eu = e * Units /\ ku = hold * Units /\ ku <= eu
  <2>1. (e - hold) * Units = e * Units - hold * Units /\ (e - hold) * Units >= 0
    BY <1>0, SMT
  <2>2. e * Units \in Int /\ hold * Units \in Int /\ back * Units \in Int
    BY <1>0, SMT
  <2> QED BY <2>1, <2>2
<1>5. (n - m) * Nanos < Nanos - bu /\ (n - m) * Nanos > -bu - Nanos
  <2>1. PICK f \in Int : f = -back
    OBVIOUS
  <2>2. x + f = x - back
    BY <2>1
  <2>3. f * Units = -bu
    BY <1>0, <1>4, <2>1, SMT
  <2>4. (MiddleAt(x + f) - MiddleAt(x)) * Nanos < f * Units + Nanos
        /\ (MiddleAt(x + f) - MiddleAt(x)) * Nanos > f * Units - Nanos
    BY <2>1, MiddlesApart
  <2>5. (n - m) * Nanos < -bu + Nanos /\ (n - m) * Nanos > -bu - Nanos
    BY <1>2, <2>2, <2>3, <2>4
  <2>6. (n - m) * Nanos \in Int
    BY <1>0, <1>2, SMT
  <2> QED BY <1>0, <1>4, <2>5, <2>6
<1>6. PICK nm \in Int, hn \in Int, g \in Int : nm = (n - m) * Nanos /\ hn = h * Nanos /\ g = n - m - h
  BY <1>0, <1>2, <1>3, SMT
<1>7. g < 0
  <2>1. (n - m) * Nanos < 0
    BY <1>0, <1>4, <1>5, <1>6
  <2>2. n - m < 0
    <3>1. n - m \in Int
      BY <1>2
    <3> QED BY <1>0, <2>1, <3>1, Signs
  <2> QED BY <1>2, <1>3, <1>6, <2>2
<1>8. g > -half
  <2>1. PICK nh \in Int : nh = Nanos * (half - 1) /\ (-half) * Nanos = -(nh + Nanos)
    BY <1>0, <1>1, SMT
  <2>2. (back + e) * Units = bu + eu
    BY <1>0, <1>4, SMT
  <2>3. g * Nanos = nm - hn
    BY <1>0, <1>2, <1>3, <1>6, SMT
  <2>4. (-half) * Nanos < g * Nanos
    <3>1. bu + eu < nh
      BY <1>1, <2>1, <2>2
    <3> QED BY <1>0, <1>3, <1>4, <1>5, <1>6, <2>1, <2>3, <3>1
  <2>5. -half < g
    <3>1. -half \in Int
      BY <1>1
    <3> QED BY <1>0, <1>6, <2>4, <3>1, Cancels
  <2> QED BY <1>1, <1>6, <2>5
<1>9. d = g + Words
  <2>1. Middle(ToNtpTime(x)) = m % Words /\ Middle(ToNtpTime(x - back)) = n % Words
    <3>1. x \in Int /\ x - back \in Int
      OBVIOUS
    <3> QED BY <1>2, <3>1, WordOfMiddle
  <2>2. PICK r \in 0 .. Words - 1 : r = g + Words
    BY <1>0, <1>1, <1>6, <1>7, <1>8
  <2>3. r = n - m - h + Words * 1
    <3>1. Words * 1 = Words
      BY <1>0, SMT
    <3> QED BY <1>6, <2>2, <3>1
  <2>4. ntpDiff(n % Words, m % Words, h) = r
    <3>1. Words \in Nat \ {0} /\ m \in Int /\ n \in Int /\ h \in Int /\ 1 \in Int /\ r \in 0 .. Words - 1
      BY <1>0
    <3> QED BY ONLY <2>3, <3>1, DifferenceIs
  <2> QED BY <1>3, <2>1, <2>2, <2>4
<1> QED BY <1>0, <1>1, <1>6, <1>8, <1>9

\* What is made of a difference d, where M is the middle of the report's stamp.
Verdict(M, d) ==
  IF M = 0 THEN NoRtt("no last sender report")
  ELSE IF d > Words \div 2 THEN NoRtt("anachronous sender report")
  ELSE [ms |-> Ms(d), err |-> "none"]

LEMMA Verdicts ==
  ASSUME NEW M, NEW d, NEW r, r = Verdict(M, d)
  PROVE  /\ M = 0 => r.err = "no last sender report"
         /\ d > Words \div 2 => r.err # "none"
         /\ M # 0 /\ ~(d > Words \div 2) => r.err = "none" /\ r.ms = Ms(d)
  BY DEF Verdict, NoRtt

LEMMA ClocksTyped ==
  ASSUME RttInv
  PROVE  /\ now \in Int /\ stamp.at \in 0 .. now /\ stamp.step \in Int
         /\ clockStep \in Int /\ StartTime \in Int
<1>1. StartTime \in Nat /\ MaxTime \in Nat /\ Steps \cup {0} \subseteq Int
  BY ExchangeAssumption
<1>2. /\ now \in 0 .. MaxTime /\ clockStep \in Steps \cup {0}
      /\ stamp \in [kind : {"none", "xr", "sr"}, at : 0 .. now, step : Steps \cup {0}]
  BY DEF RttInv, Typed
<1>3. stamp.at \in 0 .. now /\ stamp.step \in Steps \cup {0}
  BY <1>2
<1>4. stamp.step \in Int /\ clockStep \in Int
  <2>1. \A s \in Steps \cup {0} : s \in Int
    BY <1>1
  <2> QED BY <1>2, <1>3, <2>1
<1>5. now \in Int /\ StartTime \in Int
  BY <1>1, <1>2
<1> QED BY <1>3, <1>4, <1>5

LEMMA ExactNow ==
  ASSUME RttInv
  PROVE  RttExact
<1> DEFINE elapsed == now - stamp.at
           back == stamp.step - clockStep - elapsed
           x == StartTime + stamp.at + stamp.step
           Report(hold) == [last |-> Middle(ntp), delay |-> Held(hold)]
           since(hold) == GetRttMs(Report(hold), ntp, TRUE, elapsed, wall)
           only(hold) == GetRttMsFromReceiverReportOnly(Report(hold), wall)
           right(r, hold) == IF Middle(ntp) = 0 THEN r.err = "no last sender report"
                             ELSE r.err = "none" /\ Tells(r.ms, elapsed - hold)
           inTime == elapsed * Units < Nanos * (Words \div 2 - 1)
           told(hold) == ntpDiff(Middle(ToNtpTime(x + elapsed)),
                                     Middle(ToNtpTime(x)), Held(hold))
<1>1. x \in Int /\ elapsed \in Nat /\ back \in Int
  <2>1. now \in Int /\ stamp.at \in 0 .. now /\ stamp.step \in Int /\ clockStep \in Int /\ StartTime \in Int
    BY ClocksTyped
  <2> QED BY <2>1
<1>2. ntp = ToNtpTime(x) /\ wall = x - back
      /\ (clockStep = stamp.step => wall = x + elapsed)
  <2>1. now \in Int /\ stamp.at \in 0 .. now /\ stamp.step \in Int /\ clockStep \in Int /\ StartTime \in Int
    BY ClocksTyped
  <2> QED BY <2>1 DEF ntp, wall
<1>3. Middle(ToNtpTime(Duration(ntp) + elapsed)) = Middle(ToNtpTime(x + elapsed))
  <2>1. elapsed \in Int
    BY <1>1
  <2> QED BY <1>1, <1>2, <2>1, EraIsForgotten
<1> HIDE DEF elapsed, back, x
<1>4. ASSUME NEW hold \in 0 .. elapsed, inTime
      PROVE  told(hold) \in Int /\ ~(told(hold) > Words \div 2) /\ Tells(Ms(told(hold)), elapsed - hold)
  BY <1>1, <1>4, ReportTells
\* What the two functions make of the difference.
<1>5. ASSUME NEW hold \in 0 .. elapsed, inTime PROVE right(since(hold), hold)
  <2>1. since(hold) = Verdict(Middle(ntp), told(hold))
    BY <1>2, <1>3 DEF GetRttMs, getRttMs, NowAt, Verdict
  <2> HIDE DEF since, told
  <2>2. /\ Middle(ntp) = 0 => since(hold).err = "no last sender report"
        /\ Middle(ntp) # 0 /\ ~(told(hold) > Words \div 2) =>
             since(hold).err = "none" /\ since(hold).ms = Ms(told(hold))
    BY <2>1, Verdicts
  <2> QED BY <1>4, <1>5, <2>2
<1>6. ASSUME NEW hold \in 0 .. elapsed, inTime, clockStep = stamp.step PROVE right(only(hold), hold)
  <2>1. only(hold) = Verdict(Middle(ntp), told(hold))
    BY <1>2, <1>6 DEF GetRttMsFromReceiverReportOnly, getRttMs, NowAt, Verdict
  <2> HIDE DEF only, told
  <2>2. /\ Middle(ntp) = 0 => only(hold).err = "no last sender report"
        /\ Middle(ntp) # 0 /\ ~(told(hold) > Words \div 2) =>
             only(hold).err = "none" /\ only(hold).ms = Ms(told(hold))
    BY <2>1, Verdicts
  <2> QED BY <1>4, <1>6, <2>2
<1>7. ASSUME NEW hold \in 0 .. elapsed, back * Units > Nanos,
             (back + elapsed) * Units < Nanos * (Words \div 2 - 1)
      PROVE  only(hold).err # "none"
  <2> DEFINE d == ntpDiff(Middle(ToNtpTime(x - back)), Middle(ToNtpTime(x)), Held(hold))
  <2>1. d > Words \div 2
    BY <1>1, <1>7, ReportRefused
  <2>2. only(hold) = Verdict(Middle(ntp), d)
    BY <1>2 DEF GetRttMsFromReceiverReportOnly, getRttMs, NowAt, Verdict
  <2> HIDE DEF only, d
  <2> QED BY <2>1, <2>2, Verdicts
<1>8. ASSUME NEW hold \in 0 .. elapsed, inTime, clockStep = stamp.step
      PROVE  Tells(onRTT(Middle(ntp), Held(hold)), elapsed - hold)
  BY <1>2, <1>4, <1>8 DEF onRTT
<1> QED BY <1>5, <1>6, <1>7, <1>8 DEF RttExact, elapsed, back

\* For every resolution of clocks and stamps and every size of the words, and whenever
\* less than half of what a word holds has passed: what GetRttMs,
\* GetRttMsFromReceiverReportOnly and the interceptor tell is the time that has passed
\* less the time the peer held the packet, to within two units and a millisecond, over
\* the ends of eras, where stamps start over, and those of words; and a report from before its sender report is refused (helpers.go 30-133,
\* rttfromxr.go 185-192).
THEOREM RoundTripsAreExact ==
  SpecRtt => []RttExact
<1>1. RttInv => RttExact
  BY ExactNow
<1> QED BY <1>1, RttHolds, PTL

-----------------------------------------------------------------------------
(* The leaky bucket.                                                       *)

InRound == {"inner", "pop", "send"}
Hand == IF pc = "send" THEN 1 ELSE 0

\* What has been sent over the rate is what overage carries, within the widest interval.
Budget ==
  /\ overage <= Largest /\ excess <= widest + Largest /\ intervalBytes <= widest
  /\ sent <= 2 * intervalBytes + Largest
  /\ pc \in InRound => /\ toSendBytes >= 0 /\ sent + toSendBytes <= 2 * intervalBytes
                       /\ excess + toSendBytes <= widest
  /\ pc = "none" => excess <= 0
  /\ pc = "tick" \/ (pc = "check" /\ ~isStopped) => excess <= 0 \/ excess <= widest + overage

\* Packets are done with, in hand and queued, in the order of acceptance.
Order ==
  /\ Len(returned) + Hand + Len(packets) = enqueued
  /\ \A i \in 1 .. Len(returned) : returned[i] = i
  /\ pc = "send" => held = Len(returned) + 1
  /\ \A i \in 1 .. Len(packets) : packets[i] = Len(returned) + Hand + i

\* After Stop at most one more leaves.
LastOne == isStopped /\ pc \in {"pop", "send"} => last = Len(returned)

Queued == queueBytes = Total(packets)

-----------------------------------------------------------------------------
(* Loops that count up: induction and recursion over 0 .. n, with sets in  *)
(* place of predicates.                                                    *)

\* A set that holds 0, and i + 1 whenever it holds i, holds 0 .. hi.
LEMMA UpwardInduction ==
  ASSUME NEW hi \in Nat, NEW P \in SUBSET (0 .. hi), 0 \in P,
         \A i \in 0 .. hi - 1 : i \in P => i + 1 \in P
  PROVE  \A i \in 0 .. hi : i \in P
<1> DEFINE T == (0 .. hi) \ P
<1> SUFFICES ASSUME T # {} PROVE FALSE
  OBVIOUS
<1>1. PICK x \in T : \A y \in T : x <= y
  <2>1. T \in SUBSET Nat
    OBVIOUS
  <2> HIDE DEF T
  <2> QED BY <2>1, LeastElement
<1>2. x \in 0 .. hi /\ x \notin P /\ x # 0
  OBVIOUS
<1>3. x - 1 \in 0 .. hi - 1 /\ (x - 1) + 1 = x /\ ~(x <= x - 1)
  BY <1>2
<1>4. x - 1 \in P
  BY <1>1, <1>3
<1> QED BY <1>2, <1>3, <1>4

\* f[i] is the value after the body G[1], ..., G[i] ran on base.
CountsUp(f, n, V, base, G) ==
  /\ f \in [0 .. n -> V]
  /\ f[0] = base
  /\ \A i \in 1 .. n : f[i] = G[i][f[i - 1]]

LEMMA UpwardRecursion ==
  ASSUME NEW n \in Nat, NEW V, NEW base \in V, NEW G \in [1 .. n -> [V -> V]]
  PROVE  \E f : CountsUp(f, n, V, base, G)
<1> DEFINE P == { k \in 0 .. n : \E f : CountsUp(f, k, V, base, G) }
<1>1. 0 \in P
  <2>1. CountsUp([i \in 0 .. 0 |-> base], 0, V, base, G)
    BY DEF CountsUp
  <2> QED BY <2>1
<1>2. ASSUME NEW k \in 0 .. n - 1, k \in P PROVE k + 1 \in P
  <2>1. PICK f : CountsUp(f, k, V, base, G)
    BY <1>2
  <2> DEFINE v == G[k + 1][f[k]]
             g == [i \in 0 .. k + 1 |-> IF i = k + 1 THEN v ELSE f[i]]
  <2>2. v \in V
    BY <2>1 DEF CountsUp
  <2>3. g \in [0 .. k + 1 -> V] /\ g[0] = base
    BY <2>1, <2>2 DEF CountsUp
  <2>4. g[k + 1] = v /\ \A i \in 0 .. k : g[i] = f[i]
    OBVIOUS
  <2> HIDE DEF g
  <2>5. ASSUME NEW i \in 1 .. k + 1 PROVE g[i] = G[i][g[i - 1]]
    <3>1. i - 1 \in 0 .. k /\ g[i - 1] = f[i - 1]
      BY <2>4
    <3>2. CASE i = k + 1
      BY <2>4, <3>1, <3>2
    <3>3. CASE i \in 1 .. k
      BY <2>1, <2>4, <3>1, <3>3 DEF CountsUp
    <3> QED BY <3>2, <3>3
  <2>6. CountsUp(g, k + 1, V, base, G)
    BY <2>3, <2>5 DEF CountsUp
  <2> QED BY <2>6
<1>3. n \in P
  <2>1. P \in SUBSET (0 .. n)
    OBVIOUS
  <2> HIDE DEF P
  <2>2. \A i \in 0 .. n : i \in P
    BY <1>1, <1>2, <2>1, UpwardInduction
  <2> QED BY <2>2
<1> QED BY <1>3

\* k[i] is what the first i packets of q amount to.
Adds(k, q) ==
  /\ k \in [0 .. Len(q) -> Nat] /\ Total(q) = k[Len(q)] /\ k[0] = 0
  /\ \A i \in 1 .. Len(q) : k[i] = k[i - 1] + SizeOf[q[i]]

LEMMA TotalLoop ==
  ASSUME NEW q \in Seq(1 .. MaxPackets)
  PROVE  \E k : Adds(k, q)
<1> DEFINE n == Len(q)
           G == [i \in 1 .. n |-> [x \in Nat |-> x + SizeOf[q[i]]]]
           Body(f) == [i \in 0 .. n |-> IF i = 0 THEN 0 ELSE f[i - 1] + SizeOf[q[i]]]
           k == CHOOSE f : f = Body(f)
<1>0. n \in Nat /\ \A i \in 1 .. n : SizeOf[q[i]] \in Nat
  BY SizesAssumption
<1>1. G \in [1 .. n -> [Nat -> Nat]]
  BY <1>0
<1>2. PICK f : CountsUp(f, n, Nat, 0, G)
  <2> HIDE DEF n, G
  <2> QED BY <1>0, <1>1, UpwardRecursion
<1>3. ASSUME NEW i \in 1 .. n PROVE f[i] = f[i - 1] + SizeOf[q[i]]
  <2>1. f[i - 1] \in Nat /\ f[i] = G[i][f[i - 1]]
    <3> HIDE DEF n, G
    <3> QED BY <1>0, <1>2 DEF CountsUp
  <2> QED BY <2>1
<1>4. f = Body(f)
  <2>1. f = [i \in 0 .. n |-> f[i]] /\ f[0] = 0
    BY <1>2 DEF CountsUp
  <2> HIDE DEF n
  <2>2. \A i \in 0 .. n : f[i] = IF i = 0 THEN 0 ELSE f[i - 1] + SizeOf[q[i]]
    <3>1. \A i \in 0 .. n : i = 0 \/ i \in 1 .. n
      BY <1>0
    <3> QED BY <1>3, <2>1, <3>1
  <2> QED BY <2>1, <2>2
<1>5. Total(q) = k[n]
  BY DEF Total
<1> HIDE DEF Body
<1>6. k = Body(k)
  BY <1>4
<1> HIDE DEF k
<1>7. /\ k[0] = 0 /\ k = [i \in 0 .. n |-> k[i]]
      /\ \A i \in 1 .. n : k[i] = k[i - 1] + SizeOf[q[i]]
  <2> HIDE DEF n
  <2> QED BY <1>0, <1>6 DEF Body
<1> DEFINE P == { i \in 0 .. n : k[i] \in Nat }
<1>8. \A i \in 0 .. n : i \in P
  <2>1. 0 \in P
    BY <1>0, <1>7
  <2>2. ASSUME NEW i \in 0 .. n - 1, i \in P PROVE i + 1 \in P
    <3>1. i + 1 \in 1 .. n /\ (i + 1) - 1 = i /\ i + 1 \in 0 .. n
      BY <1>0
    <3>2. k[i + 1] = k[i] + SizeOf[q[i + 1]]
      BY <1>7, <3>1
    <3> QED BY <1>0, <2>2, <3>1, <3>2
  <2>3. P \in SUBSET (0 .. n)
    OBVIOUS
  <2> HIDE DEF P, n
  <2> QED BY <1>0, <2>1, <2>2, <2>3, UpwardInduction
<1>9. k \in [0 .. n -> Nat]
  BY <1>7, <1>8
<1>10. Adds(k, q)
  BY <1>5, <1>7, <1>9 DEF Adds
<1> QED BY <1>10

\* A packet at the end of the queue adds its size.
LEMMA TotalAppend ==
  ASSUME NEW q \in Seq(1 .. MaxPackets), NEW x \in 1 .. MaxPackets
  PROVE  Total(q) \in Nat /\ Total(Append(q, x)) = Total(q) + SizeOf[x]
<1> DEFINE n == Len(q)
           r == Append(q, x)
<1>0. /\ n \in Nat /\ Len(r) = n + 1 /\ r \in Seq(1 .. MaxPackets)
      /\ \A i \in 1 .. n : r[i] = q[i]
      /\ r[n + 1] = x
  OBVIOUS
<1>1. PICK k : Adds(k, q)
  BY TotalLoop
<1> HIDE DEF r
<1>2. PICK l : Adds(l, r)
  BY <1>0, TotalLoop
<1> DEFINE P == { i \in 0 .. n : l[i] = k[i] }
<1> HIDE DEF n
<1>3. \A i \in 0 .. n : i \in P
  <2>1. 0 \in P
    BY <1>0, <1>1, <1>2 DEF Adds
  <2>2. ASSUME NEW i \in 0 .. n - 1, i \in P PROVE i + 1 \in P
    <3>1. i + 1 \in 1 .. n /\ i + 1 \in 1 .. n + 1 /\ (i + 1) - 1 = i /\ i + 1 \in 0 .. n
      BY <1>0
    <3>2. k[i + 1] = k[i] + SizeOf[q[i + 1]]
      BY <1>1, <3>1 DEF Adds, n
    <3>3. l[i + 1] = l[i] + SizeOf[r[i + 1]]
      BY <1>0, <1>2, <3>1 DEF Adds
    <3> QED BY <1>0, <2>2, <3>1, <3>2, <3>3
  <2>3. P \in SUBSET (0 .. n)
    OBVIOUS
  <2> HIDE DEF P
  <2> QED BY <1>0, <2>1, <2>2, <2>3, UpwardInduction
<1>4. n \in 0 .. n /\ n + 1 \in 1 .. n + 1 /\ (n + 1) - 1 = n
  BY <1>0
<1>5. l[n + 1] = l[n] + SizeOf[x]
  BY <1>0, <1>2, <1>4 DEF Adds
<1>6. l[n] = k[n]
  BY <1>3, <1>4
<1>7. k[n] \in Nat /\ Total(q) = k[n] /\ Total(r) = l[n + 1]
  BY <1>0, <1>1, <1>2, <1>4 DEF Adds, n
<1> QED BY <1>5, <1>6, <1>7 DEF r

\* A packet taken from its front takes its size away.
LEMMA TotalTail ==
  ASSUME NEW q \in Seq(1 .. MaxPackets), q # <<>>
  PROVE  /\ Total(Tail(q)) \in Nat /\ SizeOf[Head(q)] \in Nat
         /\ Total(q) = SizeOf[Head(q)] + Total(Tail(q))
<1> DEFINE n == Len(q) - 1
           r == Tail(q)
           s == SizeOf[Head(q)]
<1>0. /\ n \in Nat /\ Len(r) = n /\ r \in Seq(1 .. MaxPackets) /\ Len(q) = n + 1
      /\ \A i \in 1 .. n : r[i] = q[i + 1] /\ r[i] \in 1 .. MaxPackets
      /\ q[1] = Head(q) /\ Head(q) \in 1 .. MaxPackets
  BY SizesAssumption
<1>1. PICK k : Adds(k, q)
  BY TotalLoop
<1> HIDE DEF r
<1>2. PICK l : Adds(l, r)
  BY <1>0, TotalLoop
<1>3. s \in Nat
  BY <1>0, SizesAssumption
<1> DEFINE P == { i \in 0 .. n : k[i + 1] = s + l[i] }
<1> HIDE DEF n
<1>4. \A i \in 0 .. n : i \in P
  <2>1. 0 \in P
    <3>1. 1 \in 1 .. n + 1 /\ 1 - 1 = 0 /\ 0 + 1 = 1 /\ 0 \in 0 .. n
      BY <1>0
    <3>2. k[1] = k[0] + s /\ k[0] = 0 /\ l[0] = 0
      BY <1>0, <1>1, <1>2, <3>1 DEF Adds
    <3> HIDE DEF s
    <3> QED BY <1>3, <3>1, <3>2
  <2>2. ASSUME NEW i \in 0 .. n - 1, i \in P PROVE i + 1 \in P
    <3>1. i + 1 \in 1 .. n /\ (i + 1) + 1 \in 1 .. n + 1 /\ ((i + 1) + 1) - 1 = i + 1 /\ (i + 1) - 1 = i
          /\ i + 1 \in 0 .. n /\ i \in 0 .. n
      BY <1>0
    <3>2. k[(i + 1) + 1] = k[i + 1] + SizeOf[q[(i + 1) + 1]]
      BY <1>0, <1>1, <3>1 DEF Adds
    <3>3. l[i + 1] = l[i] + SizeOf[r[i + 1]] /\ l[i] \in Nat
      BY <1>0, <1>2, <3>1 DEF Adds
    <3>4. r[i + 1] = q[(i + 1) + 1] /\ SizeOf[r[i + 1]] \in Nat
      <4>1. r[i + 1] \in 1 .. MaxPackets
        BY <1>0, <3>1
      <4> QED BY <1>0, <3>1, <4>1, SizesAssumption
    <3> HIDE DEF s
    <3>5. k[i + 1] = s + l[i]
      BY <2>2
    <3>6. k[(i + 1) + 1] = s + l[i + 1]
      BY <1>3, <3>2, <3>3, <3>4, <3>5
    <3> QED BY <3>1, <3>6
  <2>3. P \in SUBSET (0 .. n)
    OBVIOUS
  <2> HIDE DEF P, s
  <2> QED BY <1>0, <2>1, <2>2, <2>3, UpwardInduction
<1>5. n \in 0 .. n /\ n + 1 \in 0 .. n + 1
  BY <1>0
<1>6. k[n + 1] = s + l[n]
  BY <1>4, <1>5
<1>7. l[n] \in Nat /\ Total(q) = k[n + 1] /\ Total(r) = l[n]
  BY <1>0, <1>1, <1>2, <1>5 DEF Adds
<1> QED BY <1>3, <1>6, <1>7 DEF r

LEMMA LargerOfTwo ==
  ASSUME NEW a \in Int, NEW b \in Int
  PROVE  Max({a, b}) \in {a, b} /\ Max({a, b}) >= a /\ Max({a, b}) >= b
<1>1. \E x \in {a, b} : \A y \in {a, b} : x >= y
  <2>1. CASE a >= b
    BY <2>1
  <2>2. CASE b >= a
    BY <2>2
  <2> QED BY <2>1, <2>2
<1>2. /\ Max({a, b}) \in {a, b}
      /\ \A y \in {a, b} : Max({a, b}) >= y
  BY <1>1 DEF Max
<1> QED BY <1>2

LEMMA LargestFacts ==
  Largest \in Nat /\ \A p \in 1 .. MaxPackets : SizeOf[p] \in Nat \ {0} /\ SizeOf[p] <= Largest
<1> DEFINE N == MaxPackets
           Upto(n) == {0} \cup {SizeOf[p] : p \in 1 .. n}
           P == { n \in 0 .. N : \E m \in Upto(n) : \A y \in Upto(n) : m >= y }
<1>0. N \in Nat /\ \A p \in 1 .. N : SizeOf[p] \in Nat \ {0}
  BY SizesAssumption
<1> HIDE DEF N
<1>1. \A n \in 0 .. N : Upto(n) \subseteq Nat
  BY <1>0
<1>2. \A n \in 0 .. N : n \in P
  <2>1. 0 \in P
    <3>1. Upto(0) = {0} /\ 0 \in 0 .. N
      BY <1>0
    <3> HIDE DEF Upto
    <3> QED BY <3>1
  <2>2. ASSUME NEW n \in 0 .. N - 1, n \in P PROVE n + 1 \in P
    <3>1. n + 1 \in 0 .. N /\ n \in 0 .. N
      BY <1>0
    <3>2. Upto(n + 1) = Upto(n) \cup {SizeOf[n + 1]}
      <4>1. 1 .. n + 1 = (1 .. n) \cup {n + 1}
        BY <3>1
      <4> QED BY <4>1
    <3>3. Upto(n) \subseteq Nat /\ SizeOf[n + 1] \in Nat
      BY <1>0, <1>1, <3>1
    <3>4. PICK m \in Upto(n) : \A y \in Upto(n) : m >= y
      BY <2>2
    <3> HIDE DEF Upto
    <3>5. CASE m >= SizeOf[n + 1]
      BY <3>1, <3>2, <3>3, <3>4, <3>5
    <3>6. CASE ~(m >= SizeOf[n + 1])
      <4>1. \A y \in Upto(n + 1) : SizeOf[n + 1] >= y
        BY <3>2, <3>3, <3>4, <3>6
      <4>2. SizeOf[n + 1] \in Upto(n + 1)
        BY <3>2
      <4> QED BY <3>1, <4>1, <4>2
    <3> QED BY <3>5, <3>6
  <2>3. P \in SUBSET (0 .. N)
    OBVIOUS
  <2> HIDE DEF P
  <2> QED BY <1>0, <2>1, <2>2, <2>3, UpwardInduction
<1>3. N \in 0 .. N
  BY <1>0
<1>4. \E m \in Upto(N) : \A y \in Upto(N) : m >= y
  BY <1>2, <1>3
<1>5. Largest = Max(Upto(N))
  BY DEF Largest, N
<1>6. \A p \in 1 .. N : SizeOf[p] \in Upto(N)
  OBVIOUS
<1> HIDE DEF Upto
<1>7. Max(Upto(N)) \in Upto(N) /\ \A y \in Upto(N) : Max(Upto(N)) >= y
  BY <1>4 DEF Max
<1>8. Largest \in Nat /\ \A p \in 1 .. N : SizeOf[p] <= Largest
  <2>1. \A x, y \in Nat : x >= y => y <= x
    OBVIOUS
  <2>2. Largest \in Nat
    BY <1>1, <1>3, <1>5, <1>7
  <2>3. \A p \in 1 .. N : Largest >= SizeOf[p]
    BY <1>5, <1>6, <1>7
  <2> QED BY <1>0, <2>1, <2>2, <2>3
<1> QED BY <1>0, <1>8 DEF N

-----------------------------------------------------------------------------
(* The budget of the leaky bucket, step by step.                           *)

LeakyInv == TypeOKLeaky /\ Queued /\ Budget /\ Order /\ LastOne

LEMMA QuotientIn ==
  ASSUME NEW x \in Nat, NEW y \in Nat \ {0}
  PROVE  x \div y \in Nat
  BY SMT

LEMMA ProductIn ==
  ASSUME NEW x \in Nat, NEW y \in Nat
  PROVE  x * y \in Nat
  BY SMT

\* The rate with the latency limit is a number of bytes.
LEMMA RateIn ==
  ASSUME TypeOKLeaky
  PROVE  Rate \in Nat
<1>1. bitrate \in Nat /\ queueBytes \in Nat /\ Unit \in Nat /\ MaxLatency \in Nat
  BY RatesAssumption DEF TypeOKLeaky
<1>2. CASE MaxLatency > 0
  <2>1. (queueBytes * Unit) \div MaxLatency \in Nat
    BY <1>1, <1>2, ProductIn, QuotientIn
  <2> QED BY <1>1, <2>1 DEF Rate
<1>3. CASE ~(MaxLatency > 0)
  BY <1>1, <1>3 DEF Rate
<1> QED BY <1>2, <1>3

LEMMA LeakyInit ==
  ASSUME InitLeaky
  PROVE  LeakyInv /\ Paced!Init
<1>1. /\ bitrate \in Bitrates /\ wire = <<>> /\ returned = <<>> /\ packets = <<>> /\ queueBytes = 0
      /\ isStopped = FALSE /\ caller \in [Callers -> {"idle", "push"}] /\ enqueued = 0
      /\ pc = "none" /\ held = 0 /\ toSendBytes = 0 /\ overage = 0 /\ intervalBytes = 0
      /\ last = 0 /\ sent = 0 /\ excess = 0 /\ widest = 0
  BY DEF InitLeaky, BaseInit
<1>2. Largest \in Nat /\ MaxPackets \in Nat
  BY LargestFacts, SizesAssumption
<1>3. TypeOKLeaky
  <2>1. isStopped \in BOOLEAN
    BY DEF InitLeaky
  <2>2. <<>> \in Seq(1 .. MaxPackets)
    OBVIOUS
  <2> QED BY <1>1, <1>2, <2>1, <2>2 DEF TypeOKLeaky
<1>4. Queued
  <2>1. PICK k : Adds(k, <<>>)
    <3>1. <<>> \in Seq(1 .. MaxPackets)
      OBVIOUS
    <3> QED BY <3>1, TotalLoop
  <2> QED BY <1>1, <2>1 DEF Adds, Queued
<1>5. Budget
  BY <1>1, <1>2 DEF Budget, InRound
<1>6. Order /\ LastOne
  BY <1>1 DEF Order, Hand, LastOne
<1>7. Paced!Init
  BY <1>1 DEF Paced!Init
<1> QED BY <1>3, <1>4, <1>5, <1>6, <1>7 DEF LeakyInv

\* Stop, Start and the worker's looks at isStopped, and what callers and the bitrate do.
LEMMA LeakyMoves ==
  ASSUME LeakyInv,
         UNCHANGED <<wire, returned, held, queue, budget>>,
         bitrate' \in Bitrates, isStopped' \in BOOLEAN, caller' \in [Callers -> {"idle", "push"}],
         pc' = pc \/ (pc = "none" /\ pc' = "check" /\ ~isStopped)
           \/ (pc = "check" /\ pc' = "tick" /\ ~isStopped) \/ (pc = "check" /\ pc' = "done")
           \/ (pc = "inner" /\ pc' = "pop" /\ ~isStopped) \/ (pc = "inner" /\ pc' = "check" /\ isStopped),
         isStopped => isStopped',
         last' = IF ~isStopped /\ isStopped' THEN Len(returned) ELSE last,
         pc' = pc \/ isStopped' = isStopped
  PROVE  LeakyInv'
<1>0. UNCHANGED <<wire, returned, held, packets, queueBytes, enqueued>>
      /\ UNCHANGED <<toSendBytes, overage, intervalBytes, sent, excess, widest>>
  BY DEF queue, budget
<1>1. pc' \in {"none", "check", "tick", "inner", "pop", "send", "done"}
  BY DEF LeakyInv, TypeOKLeaky
<1>2. last' \in 0 .. MaxPackets
  <2>1. Len(returned) \in Nat /\ Len(packets) \in Nat /\ enqueued \in 0 .. MaxPackets
        /\ Len(returned) + Hand + Len(packets) = enqueued /\ Hand \in {0, 1} /\ last \in 0 .. MaxPackets
    BY DEF LeakyInv, TypeOKLeaky, Order, Hand
  <2>2. MaxPackets \in Nat
    BY SizesAssumption
  <2>3. Len(returned) \in 0 .. MaxPackets
    BY <2>1, <2>2
  <2> QED BY <2>1, <2>3
<1>3. TypeOKLeaky'
  BY <1>0, <1>1, <1>2 DEF LeakyInv, TypeOKLeaky, Largest
<1>4. Queued'
  BY <1>0 DEF LeakyInv, Queued, Total
<1>5. Budget'
  BY <1>0 DEF LeakyInv, Budget, InRound, Largest
<1>6. Order'
  <2>1. Hand' = Hand /\ (pc' = "send" <=> pc = "send")
    BY DEF Hand
  <2> QED BY <1>0, <2>1 DEF LeakyInv, Order
<1>7. LastOne'
  BY <1>0 DEF LeakyInv, LastOne
<1> QED BY <1>3, <1>4, <1>5, <1>6, <1>7 DEF LeakyInv

\* The arithmetic of a tick: what is over the rate stays what overage carries.
LEMMA TickBudget ==
  ASSUME NEW bytes \in Nat, NEW L \in Nat, NEW over \in Int, NEW ex \in Int, NEW W \in Nat,
         over <= L, ex <= 0 \/ ex <= W + over,
         NEW ex1 \in Int, NEW W1 \in Nat, NEW left \in Int,
         ex1 = (IF ex > 0 THEN ex ELSE 0) - bytes, W1 >= W, W1 >= bytes,
         left = (IF bytes - over > 2 * bytes THEN 2 * bytes ELSE bytes - over)
  PROVE  /\ bytes - over < 0 => ex1 <= 0 \/ ex1 <= W1 + (over - bytes)
         /\ bytes - over >= 0 => left \in 0 .. 2 * bytes /\ ex1 + left <= W1
         /\ ex1 <= W1 + L /\ over - bytes <= L
  OBVIOUS

LEMMA TickStep ==
  ASSUME LeakyInv, Tick
  PROVE  LeakyInv' /\ UNCHANGED Paced!vars
<1> DEFINE L == Largest
<1>1. PICK bytes :
        /\ \E elapsed \in ShortestWait .. MaxElapsed : bytes = (elapsed * Rate) \div Unit
        /\ intervalBytes' = bytes /\ sent' = 0
        /\ excess' = Max({0, excess}) - bytes
        /\ widest' = Max({widest, bytes})
        /\ \/ bytes - overage < 0 /\ overage' = overage - bytes /\ pc' = "check" /\ UNCHANGED toSendBytes
           \/ /\ bytes - overage >= 0 /\ toSendBytes' = Capped(bytes - overage, 2 * bytes)
              /\ pc' = "inner" /\ UNCHANGED overage
  BY DEF Tick, Goto
<1>2. /\ pc = "tick" /\ UNCHANGED <<wire, returned, bitrate, isStopped, caller, held, last>>
      /\ UNCHANGED <<packets, queueBytes, enqueued>>
  BY DEF Tick, queue
<1>3. bytes \in Nat
  <2>0. PICK elapsed \in ShortestWait .. MaxElapsed : bytes = (elapsed * Rate) \div Unit
    BY <1>1
  <2>1. elapsed \in Nat
    BY RatesAssumption DEF ShortestWait
  <2>2. Rate \in Nat /\ Unit \in Nat \ {0}
    BY RateIn, RatesAssumption DEF LeakyInv
  <2>3. elapsed * Rate \in Nat
    BY <2>1, <2>2, ProductIn
  <2> QED BY <2>0, <2>2, <2>3, QuotientIn
<1>4. L \in Nat /\ overage \in Int /\ excess \in Int /\ widest \in Nat /\ toSendBytes \in -L .. 2 * widest
      /\ overage <= L /\ (excess <= 0 \/ excess <= widest + overage)
  BY <1>2, LargestFacts DEF LeakyInv, TypeOKLeaky, Budget
<1>5. PICK ex1 \in Int, W1 \in Nat, left \in Int :
        /\ excess' = ex1 /\ widest' = W1
        /\ ex1 = (IF excess > 0 THEN excess ELSE 0) - bytes
        /\ W1 >= widest /\ W1 >= bytes
        /\ left = (IF bytes - overage > 2 * bytes THEN 2 * bytes ELSE bytes - overage)
  <2>1. 0 \in Int /\ excess \in Int
    BY <1>4
  <2>2. Max({0, excess}) \in {0, excess} /\ Max({0, excess}) >= 0 /\ Max({0, excess}) >= excess
    BY ONLY <2>1, LargerOfTwo
  <2>3. Max({0, excess}) = IF excess > 0 THEN excess ELSE 0
    BY <1>4, <2>2
  <2>4. widest \in Int /\ bytes \in Int
    BY <1>3, <1>4
  <2>5. /\ Max({widest, bytes}) \in {widest, bytes}
        /\ Max({widest, bytes}) >= widest /\ Max({widest, bytes}) >= bytes
    BY ONLY <2>4, LargerOfTwo
  <2> DEFINE e == (IF excess > 0 THEN excess ELSE 0) - bytes
             w == Max({widest, bytes})
             l == IF bytes - overage > 2 * bytes THEN 2 * bytes ELSE bytes - overage
  <2>6. e \in Int /\ l \in Int /\ w \in Nat
    BY <1>3, <1>4, <2>5
  <2> QED BY <1>1, <2>3, <2>5, <2>6
<1> HIDE DEF L
<1>6. PICK over \in Int : over = overage
  BY <1>4
<1>7. /\ bytes - over < 0 => ex1 <= 0 \/ ex1 <= W1 + (over - bytes)
      /\ bytes - over >= 0 => left \in 0 .. 2 * bytes /\ ex1 + left <= W1
      /\ ex1 <= W1 + L /\ over - bytes <= L
  <2>1. PICK ex \in Int : ex = excess
    BY <1>4
  <2>2. PICK W \in Nat : W = widest
    BY <1>4
  <2>3. /\ bytes \in Nat /\ L \in Nat /\ over \in Int /\ ex \in Int /\ W \in Nat
        /\ over <= L /\ (ex <= 0 \/ ex <= W + over)
        /\ ex1 \in Int /\ W1 \in Nat /\ left \in Int
        /\ ex1 = (IF ex > 0 THEN ex ELSE 0) - bytes /\ W1 >= W /\ W1 >= bytes
        /\ left = (IF bytes - over > 2 * bytes THEN 2 * bytes ELSE bytes - over)
    BY <1>3, <1>4, <1>5, <1>6, <2>1, <2>2
  <2> QED BY ONLY <2>3, TickBudget
<1>8. Capped(bytes - overage, 2 * bytes) = left
  BY <1>5 DEF Capped
<1>9. L' = L /\ toSendBytes \in -L .. 2 * W1
  BY <1>4, <1>5 DEF L, Largest
<1>10. CASE bytes - over < 0
  <2>1. /\ overage' = over - bytes /\ pc' = "check" /\ toSendBytes' = toSendBytes
    BY <1>1, <1>3, <1>6, <1>10
  <2>2. overage' \in Int /\ overage' <= L
    BY <1>3, <1>6, <1>7, <2>1
  <2>3. TypeOKLeaky'
    <3>1. toSendBytes' \in -L' .. 2 * widest'
      BY <1>5, <1>9, <2>1
    <3>2. {overage', excess'} \subseteq Int /\ {intervalBytes', sent', widest'} \subseteq Nat
      BY <1>1, <1>3, <1>5, <2>2
    <3> QED BY <1>2, <2>1, <3>1, <3>2 DEF LeakyInv, TypeOKLeaky, L
  <2>4. Budget'
    <3>1. sent' <= 2 * intervalBytes' + L'
      BY <1>1, <1>3, <1>4, <1>9
    <3>2. overage' <= L' /\ excess' <= widest' + L' /\ intervalBytes' <= widest'
      BY <1>1, <1>3, <1>5, <1>7, <1>9, <2>2
    <3>3. excess' <= 0 \/ excess' <= widest' + overage'
      BY <1>3, <1>5, <1>6, <1>7, <1>10, <2>1
    <3> QED BY <2>1, <3>1, <3>2, <3>3 DEF Budget, InRound, L
  <2> QED BY <1>2, <2>1, <2>3, <2>4 DEF LeakyInv, Queued, Order, Hand, LastOne, Total, Paced!vars
<1>11. CASE bytes - over >= 0
  <2>1. /\ toSendBytes' = left /\ pc' = "inner" /\ overage' = over
    BY <1>1, <1>3, <1>6, <1>8, <1>11
  <2>2. left \in 0 .. 2 * bytes /\ ex1 + left <= W1 /\ ex1 <= W1 + L
    BY <1>7, <1>11
  <2>3. TypeOKLeaky'
    <3>1. toSendBytes' \in -L' .. 2 * widest'
      BY <1>3, <1>4, <1>5, <1>9, <2>1, <2>2
    <3>2. {overage', excess'} \subseteq Int /\ {intervalBytes', sent', widest'} \subseteq Nat
      BY <1>1, <1>3, <1>5, <1>6, <2>1
    <3> QED BY <1>2, <2>1, <3>1, <3>2 DEF LeakyInv, TypeOKLeaky, L
  <2>4. Budget'
    <3>1. sent' <= 2 * intervalBytes' + L'
      BY <1>1, <1>3, <1>4, <1>9
    <3>2. overage' <= L' /\ excess' <= widest' + L' /\ intervalBytes' <= widest'
      BY <1>1, <1>3, <1>4, <1>5, <1>6, <1>9, <2>1, <2>2
    <3>3. toSendBytes' >= 0 /\ sent' + toSendBytes' <= 2 * intervalBytes' /\ excess' + toSendBytes' <= widest'
      BY <1>1, <1>3, <1>5, <2>1, <2>2
    <3> QED BY <2>1, <3>1, <3>2, <3>3 DEF Budget, InRound, L
  <2> QED BY <1>2, <2>1, <2>3, <2>4 DEF LeakyInv, Queued, Order, Hand, LastOne, Total, Paced!vars
<1> QED BY <1>3, <1>6, <1>10, <1>11

LEMMA EnqueueStep ==
  ASSUME LeakyInv, NEW c \in Callers, Enqueue(c)
  PROVE  LeakyInv' /\ Paced!Accept
<1>1. /\ enqueued < MaxPackets /\ enqueued' = enqueued + 1 /\ packets' = Append(packets, enqueued')
      /\ queueBytes' = queueBytes + SizeOf[enqueued'] /\ caller' = [caller EXCEPT ![c] = "idle"]
      /\ UNCHANGED <<wire, returned, bitrate, isStopped, pc, held, last>>
      /\ UNCHANGED <<toSendBytes, overage, intervalBytes, sent, excess, widest>>
  BY DEF Enqueue, budget
<1>2. packets \in Seq(1 .. MaxPackets) /\ returned \in Seq(1 .. MaxPackets) /\ enqueued \in 0 .. MaxPackets
      /\ caller \in [Callers -> {"idle", "push"}]
  BY DEF LeakyInv, TypeOKLeaky
<1>3. PICK x \in 1 .. MaxPackets : x = enqueued + 1 /\ enqueued' = x
  BY <1>1, <1>2, SizesAssumption
<1>4. /\ Append(packets, x) \in Seq(1 .. MaxPackets) /\ Len(Append(packets, x)) = Len(packets) + 1
      /\ \A i \in 1 .. Len(packets) : Append(packets, x)[i] = packets[i]
      /\ Append(packets, x)[Len(packets) + 1] = x
  BY <1>2
<1>5. Total(packets) \in Nat /\ Total(Append(packets, x)) = Total(packets) + SizeOf[x]
  BY <1>2, TotalAppend
<1>6. SizeOf[x] \in Nat
  BY LargestFacts
<1>7. PICK q : q = Append(packets, x)
  OBVIOUS
<1>8. packets' = q /\ queueBytes' = Total(q)
  BY <1>1, <1>3, <1>5, <1>7 DEF LeakyInv, Queued
<1>9. Queued'
  BY <1>8 DEF Queued, Total
<1>10. TypeOKLeaky'
  <2>1. caller' \in [Callers -> {"idle", "push"}]
    BY <1>1, <1>2
  <2>2. queueBytes' \in Nat
    BY <1>5, <1>6, <1>7, <1>8
  <2>3. enqueued' \in 0 .. MaxPackets /\ packets' \in Seq(1 .. MaxPackets)
    BY <1>3, <1>4, <1>7, <1>8
  <2> QED BY <1>1, <2>1, <2>2, <2>3 DEF LeakyInv, TypeOKLeaky, Largest
<1>11. Order'
  <2>1. Len(returned) \in Nat /\ Len(packets) \in Nat /\ Hand \in {0, 1} /\ Hand' = Hand
        /\ Len(returned) + Hand + Len(packets) = enqueued /\ Len(packets') = Len(packets) + 1
    BY <1>1, <1>2, <1>4, <1>7, <1>8 DEF LeakyInv, Order, Hand
  <2>2. ASSUME NEW i \in 1 .. Len(packets') PROVE packets'[i] = Len(returned) + Hand + i
    <3>1. CASE i \in 1 .. Len(packets)
      BY <1>4, <1>7, <1>8, <3>1 DEF LeakyInv, Order
    <3>2. CASE i = Len(packets) + 1
      BY <1>2, <1>3, <1>4, <1>7, <1>8, <2>1, <3>2
    <3> QED BY <2>1, <3>1, <3>2
  <2>3. Len(returned') + Hand' + Len(packets') = enqueued'
    <3>1. Len(returned') = Len(returned) /\ enqueued' = enqueued + 1
      BY <1>1, <1>3
    <3>2. /\ Len(returned) \in Nat /\ Len(packets) \in Nat /\ Hand \in {0, 1}
          /\ Len(returned) + Hand + Len(packets) = enqueued
      BY <2>1
    <3>3. Len(returned) + Hand + (Len(packets) + 1) = enqueued + 1
      BY ONLY <3>2
    <3> QED BY <2>1, <3>1, <3>3
  <2> QED BY <1>1, <2>1, <2>2, <2>3 DEF LeakyInv, Order
<1>12. Budget' /\ LastOne'
  BY <1>1 DEF LeakyInv, Budget, InRound, LastOne, Largest
<1>13. Paced!Accept
  BY <1>1 DEF Paced!Accept
<1> QED BY <1>9, <1>10, <1>11, <1>12, <1>13 DEF LeakyInv

\* What is left of the budget is lent to the next interval.
LEMMA ShortageStep ==
  ASSUME LeakyInv, Shortage
  PROVE  LeakyInv' /\ UNCHANGED Paced!vars
<1>1. /\ pc = "pop" /\ overage' = -toSendBytes /\ pc' = "check"
      /\ UNCHANGED <<wire, returned, bitrate, isStopped, caller, held, last, packets, queueBytes, enqueued>>
      /\ UNCHANGED <<toSendBytes, intervalBytes, sent, excess, widest>>
  BY DEF Shortage, Goto, queue
<1>2. /\ Largest \in Nat /\ toSendBytes \in Int /\ toSendBytes >= 0 /\ excess \in Int /\ widest \in Nat
      /\ excess + toSendBytes <= widest
  <2>1. Largest \in Nat
    BY LargestFacts
  <2>2. /\ toSendBytes \in -Largest .. 2 * widest /\ toSendBytes >= 0 /\ excess \in Int /\ widest \in Nat
        /\ excess + toSendBytes <= widest
    BY <1>1 DEF LeakyInv, TypeOKLeaky, Budget, InRound
  <2> QED BY <2>1, <2>2
<1>3. overage' \in Int /\ overage' <= Largest /\ excess' <= widest' + overage'
  BY <1>1, <1>2
<1>4. TypeOKLeaky'
  BY <1>1, <1>3 DEF LeakyInv, TypeOKLeaky, Largest
<1>5. Budget'
  BY <1>1, <1>3 DEF LeakyInv, Budget, InRound, Largest
<1> QED BY <1>1, <1>4, <1>5 DEF LeakyInv, Queued, Order, Hand, LastOne, Total, Paced!vars

LEMMA PopStep ==
  ASSUME LeakyInv, Pop
  PROVE  LeakyInv' /\ UNCHANGED Paced!vars
<1>1. /\ pc = "pop" /\ packets # <<>> /\ held' = Head(packets) /\ packets' = Tail(packets)
      /\ queueBytes' = queueBytes - SizeOf[Head(packets)] /\ pc' = "send"
      /\ UNCHANGED <<wire, returned, bitrate, isStopped, caller, last, enqueued>>
      /\ UNCHANGED <<toSendBytes, overage, intervalBytes, sent, excess, widest>>
  BY DEF Pop, BytesWithout, Goto, budget
<1>2. packets \in Seq(1 .. MaxPackets) /\ returned \in Seq(1 .. MaxPackets) /\ enqueued \in 0 .. MaxPackets
  BY DEF LeakyInv, TypeOKLeaky
<1>3. /\ Tail(packets) \in Seq(1 .. MaxPackets) /\ Len(Tail(packets)) = Len(packets) - 1
      /\ Len(packets) \in Nat \ {0} /\ Head(packets) = packets[1] /\ Head(packets) \in 1 .. MaxPackets
      /\ \A i \in 1 .. Len(packets) - 1 : Tail(packets)[i] = packets[i + 1]
  BY <1>1, <1>2, SizesAssumption
<1>4. /\ Total(Tail(packets)) \in Nat /\ SizeOf[Head(packets)] \in Nat
      /\ Total(packets) = SizeOf[Head(packets)] + Total(Tail(packets))
  BY <1>1, <1>2, TotalTail
<1>5. PICK q : q = Tail(packets)
  OBVIOUS
<1>6. packets' = q /\ queueBytes' = Total(q) /\ queueBytes' \in Nat
  BY <1>1, <1>4, <1>5 DEF LeakyInv, Queued
<1>7. Queued'
  BY <1>6 DEF Queued, Total
<1>8. TypeOKLeaky'
  <2>1. held' \in 0 .. MaxPackets /\ packets' \in Seq(1 .. MaxPackets)
    BY <1>1, <1>3
  <2> QED BY <1>1, <1>6, <2>1 DEF LeakyInv, TypeOKLeaky, Largest
<1>9. Order'
  <2>1. Hand = 0 /\ Hand' = 1 /\ Len(returned) \in Nat
    BY <1>1, <1>2 DEF Hand
  <2>2. Len(returned) + 0 + Len(packets) = enqueued /\ \A i \in 1 .. Len(packets) : packets[i] = Len(returned) + 0 + i
    BY <2>1 DEF LeakyInv, Order
  <2>3. Len(returned') + Hand' + Len(packets') = enqueued'
    <3>1. Len(returned') = Len(returned) /\ Len(packets') = Len(packets) - 1 /\ enqueued' = enqueued
      BY <1>1, <1>3
    <3>2. Len(packets) \in Nat /\ Len(returned) \in Nat /\ Len(returned) + 0 + Len(packets) = enqueued
      BY <1>3, <2>1, <2>2
    <3>3. Len(returned) + 1 + (Len(packets) - 1) = enqueued
      BY ONLY <3>2
    <3> QED BY <2>1, <3>1, <3>3
  <2>4. held' = Len(returned') + 1
    BY <1>1, <1>3, <2>1, <2>2
  <2>5. ASSUME NEW i \in 1 .. Len(packets') PROVE packets'[i] = Len(returned') + Hand' + i
    <3>1. i \in 1 .. Len(packets) - 1 /\ i + 1 \in 1 .. Len(packets)
      BY <1>1, <1>3
    <3>2. packets'[i] = packets[i + 1] /\ packets[i + 1] = Len(returned) + 0 + (i + 1)
      BY <1>1, <1>3, <2>2, <3>1
    <3> QED BY <1>1, <2>1, <3>1, <3>2
  <2> QED BY <1>1, <2>3, <2>4, <2>5 DEF LeakyInv, Order
<1>10. Budget' /\ LastOne'
  BY <1>1 DEF LeakyInv, Budget, InRound, LastOne, Largest
<1> QED BY <1>1, <1>7, <1>8, <1>9, <1>10 DEF LeakyInv, Paced!vars

LEMMA SendStep ==
  ASSUME LeakyInv, Send
  PROVE  LeakyInv' /\ Paced!Leave
<1> DEFINE L == Largest
           n == Len(returned)
<1>1. /\ pc = "send" /\ returned' = Append(returned, held) /\ (wire' = wire \/ wire' = Append(wire, held))
      /\ held' = 0 /\ toSendBytes' = toSendBytes - SizeOf[held]
      /\ overage' = OverageAfter(toSendBytes - SizeOf[held])
      /\ sent' = sent + SizeOf[held] /\ excess' = excess + SizeOf[held]
      /\ pc' = (IF toSendBytes - SizeOf[held] < 0 THEN "check" ELSE "inner")
      /\ UNCHANGED <<bitrate, isStopped, caller, last, packets, queueBytes, enqueued, intervalBytes, widest>>
  BY DEF Send, SendPacket, Goto, queue
<1>2. /\ packets \in Seq(1 .. MaxPackets) /\ returned \in Seq(1 .. MaxPackets) /\ wire \in Seq(1 .. MaxPackets)
      /\ enqueued \in 0 .. MaxPackets /\ n \in Nat /\ Len(packets) \in Nat
  BY DEF LeakyInv, TypeOKLeaky
<1>3. /\ n + 1 + Len(packets) = enqueued /\ held = n + 1 /\ \A i \in 1 .. n : returned[i] = i
      /\ \A i \in 1 .. Len(packets) : packets[i] = n + 1 + i
  BY <1>1 DEF LeakyInv, Order, Hand
<1>4. held \in 1 .. MaxPackets
  BY <1>2, <1>3, SizesAssumption
<1>5. PICK s \in Nat : s = SizeOf[held] /\ s <= L
  BY <1>4, LargestFacts
<1>6. L \in Nat /\ overage \in Int /\ overage <= L /\ toSendBytes \in Int /\ sent \in Nat /\ excess \in Int
      /\ widest \in Nat /\ intervalBytes \in Nat /\ intervalBytes <= widest
      /\ toSendBytes >= 0 /\ sent + toSendBytes <= 2 * intervalBytes /\ excess + toSendBytes <= widest
      /\ toSendBytes \in -L .. 2 * widest
  <2>1. L \in Nat
    BY LargestFacts
  <2>2. toSendBytes \in -L .. 2 * widest
    BY DEF LeakyInv, TypeOKLeaky
  <2>3. toSendBytes \in Int
    BY <2>1, <2>2
  <2> QED BY <1>1, <2>1, <2>2, <2>3 DEF LeakyInv, TypeOKLeaky, Budget, InRound
<1>7. PICK left \in Int : left = toSendBytes - s
  BY <1>5, <1>6
<1>8. /\ toSendBytes' = left /\ sent' = sent + s /\ excess' = excess + s
      /\ overage' = (IF left < 0 THEN -left ELSE overage) /\ pc' = (IF left < 0 THEN "check" ELSE "inner")
  BY <1>1, <1>5, <1>7 DEF OverageAfter
<1>9. L' = L
  BY DEF Largest
<1> HIDE DEF L
<1>10. /\ overage' \in Int /\ overage' <= L' /\ sent' \in Nat /\ excess' \in Int
       /\ toSendBytes' \in -L' .. 2 * widest' /\ sent' <= 2 * intervalBytes' + L' /\ excess' <= widest' + L'
       /\ intervalBytes' <= widest'
  <2>1. -left <= L /\ -L <= left /\ left <= 2 * widest
    BY <1>5, <1>6, <1>7
  <2>2. sent + s <= 2 * intervalBytes + L /\ excess + s <= widest + L
    BY <1>5, <1>6
  <2>3. overage' \in Int /\ overage' <= L
    BY <1>6, <1>8, <2>1
  <2>4. widest' = widest /\ intervalBytes' = intervalBytes
    BY <1>1
  <2>5. sent + s \in Nat /\ excess + s \in Int /\ left \in -L .. 2 * widest
    BY <1>5, <1>6, <2>1
  <2> QED BY <1>6, <1>8, <1>9, <2>2, <2>3, <2>4, <2>5
<1>11. /\ pc' = "inner" => toSendBytes' >= 0 /\ sent' + toSendBytes' <= 2 * intervalBytes'
                           /\ excess' + toSendBytes' <= widest'
       /\ pc' = "check" => excess' <= widest' + overage'
  <2>1. widest' = widest /\ intervalBytes' = intervalBytes
    BY <1>1
  <2>2. CASE left < 0
    <3>1. excess + s <= widest + -left
      <4>1. excess \in Int /\ s \in Int /\ toSendBytes \in Int /\ widest \in Int /\ excess + toSendBytes <= widest
        BY <1>5, <1>6
      <4> QED BY ONLY <1>7, <4>1
    <3>2. pc' = "check" /\ overage' = -left
      BY <1>8, <2>2
    <3> QED BY <1>8, <2>1, <3>1, <3>2
  <2>3. CASE ~(left < 0)
    <3>1. left >= 0 /\ sent + s + left <= 2 * intervalBytes /\ excess + s + left <= widest
      BY <1>5, <1>6, <1>7, <2>3
    <3>2. pc' = "inner"
      BY <1>8, <2>3
    <3> QED BY <1>8, <2>1, <3>1, <3>2
  <2> QED BY <2>2, <2>3
<1>12. pc' \in {"check", "inner"}
  BY <1>8
<1>13. Budget'
  BY <1>10, <1>11, <1>12 DEF Budget, InRound, L
<1>14. /\ returned' \in Seq(1 .. MaxPackets) /\ Len(returned') = n + 1
       /\ \A i \in 1 .. n : returned'[i] = returned[i]
       /\ returned'[n + 1] = n + 1 /\ wire' \in Seq(1 .. MaxPackets)
  <2>1. PICK x \in 1 .. MaxPackets : x = held
    BY <1>4
  <2>2. /\ Append(returned, x) \in Seq(1 .. MaxPackets) /\ Len(Append(returned, x)) = n + 1
        /\ \A i \in 1 .. n : Append(returned, x)[i] = returned[i]
        /\ Append(returned, x)[n + 1] = x /\ Append(wire, x) \in Seq(1 .. MaxPackets)
    BY <1>2
  <2>3. returned' = Append(returned, x) /\ (wire' = wire \/ wire' = Append(wire, x)) /\ x = n + 1
    BY <1>1, <1>3, <2>1
  <2> HIDE DEF n
  <2> QED BY <1>2, <2>2, <2>3
<1>15. TypeOKLeaky'
  <2>1. held' \in 0 .. MaxPackets
    BY <1>1, <1>4, SizesAssumption
  <2> QED BY <1>1, <1>10, <1>12, <1>14, <2>1 DEF LeakyInv, TypeOKLeaky, L
<1>16. Order'
  <2>1. Hand' = 0
    BY <1>12 DEF Hand
  <2>2. ASSUME NEW i \in 1 .. Len(returned') PROVE returned'[i] = i
    <3> HIDE DEF n
    <3>1. i \in 1 .. n + 1
      BY <1>14
    <3>2. CASE i \in 1 .. n
      BY <1>3, <1>14, <3>2
    <3>3. CASE i = n + 1
      BY <1>14, <3>3
    <3> QED BY <1>2, <3>1, <3>2, <3>3
  <2> QED BY <1>1, <1>2, <1>3, <1>12, <1>14, <2>1, <2>2 DEF Order
<1>17. Queued' /\ LastOne'
  BY <1>1, <1>12 DEF LeakyInv, Queued, LastOne, Total
<1>18. Paced!Leave
  <2>1. isStopped => n = last
    BY <1>1 DEF LeakyInv, LastOne
  <2>2. n < enqueued
    BY <1>2, <1>3
  <2> QED BY <1>1, <1>3, <1>12, <2>1, <2>2 DEF Paced!Leave
<1> QED BY <1>13, <1>15, <1>16, <1>17, <1>18 DEF LeakyInv

\* Every other step moves a caller, the worker or isStopped.
LEMMA LeakyStep ==
  ASSUME LeakyInv, [NextLeaky]_varsLeaky
  PROVE  LeakyInv' /\ [Paced!Next]_(Paced!vars)
<1>0. bitrate \in Bitrates /\ isStopped \in BOOLEAN /\ caller \in [Callers -> {"idle", "push"}]
  BY DEF LeakyInv, TypeOKLeaky
<1>1. ASSUME NEW b \in Bitrates, SetBitrate(b) PROVE LeakyInv' /\ UNCHANGED Paced!vars
  <2>1. LeakyInv'
    BY <1>0, <1>1, LeakyMoves DEF SetBitrate
  <2> QED BY <1>1, <2>1 DEF SetBitrate, Paced!vars, queue
<1>2. CASE Start
  <2>1. LeakyInv'
    BY <1>0, <1>2, LeakyMoves DEF Start, Goto
  <2>2. Paced!Start
    BY <1>2 DEF Start, Goto, queue, Paced!Start
  <2> QED BY <2>1, <2>2 DEF Paced!Next
<1>3. CASE Stop
  <2>1. LeakyInv'
    BY <1>0, <1>3, LeakyMoves DEF Stop
  <2>2. Paced!Stop \/ UNCHANGED Paced!vars
    <3>1. CASE isStopped
      BY <1>3, <3>1 DEF Stop, queue, Paced!vars
    <3>2. CASE ~isStopped
      BY <1>3, <3>2 DEF Stop, queue, Paced!Stop
    <3> QED BY <3>1, <3>2
  <2> QED BY <2>1, <2>2 DEF Paced!Next
<1>4. CASE Check
  <2>1. LeakyInv'
    BY <1>0, <1>4, LeakyMoves DEF Check, Goto
  <2>2. Paced!End \/ UNCHANGED Paced!vars
    BY <1>4 DEF Check, Goto, queue, Paced!End, Paced!vars
  <2> QED BY <2>1, <2>2 DEF Paced!Next
<1>5. CASE Inner
  <2>1. LeakyInv'
    BY <1>0, <1>5, LeakyMoves DEF Inner, Goto
  <2> QED BY <1>5, <2>1 DEF Inner, Goto, queue, Paced!vars
<1>6. ASSUME NEW c \in Callers, EnqueueCheck(c) PROVE LeakyInv' /\ UNCHANGED Paced!vars
  <2>1. caller' \in [Callers -> {"idle", "push"}]
    BY <1>0, <1>6 DEF EnqueueCheck
  <2>2. LeakyInv'
    BY <1>0, <1>6, <2>1, LeakyMoves DEF EnqueueCheck
  <2> QED BY <1>6, <2>2 DEF EnqueueCheck, Paced!vars, queue
<1>7. ASSUME NEW c \in Callers, Enqueue(c) PROVE LeakyInv' /\ Paced!Next
  BY <1>7, EnqueueStep DEF Paced!Next
<1>8. CASE Tick
  BY <1>8, TickStep
<1>9. CASE Shortage
  BY <1>9, ShortageStep
<1>10. CASE Pop
  BY <1>10, PopStep
<1>11. CASE Send
  BY <1>11, SendStep DEF Paced!Next
<1>12. CASE UNCHANGED varsLeaky
  <2>1. UNCHANGED <<bitrate, isStopped, caller, pc, last>>
        /\ UNCHANGED <<wire, returned, held, queue, budget>>
    BY <1>12 DEF varsLeaky
  <2>2. LeakyInv'
    BY <1>0, <2>1, LeakyMoves
  <2> QED BY <2>1, <2>2 DEF Paced!vars, queue
<1> QED
  BY <1>1, <1>2, <1>3, <1>4, <1>5, <1>6, <1>7, <1>8, <1>9, <1>10, <1>11, <1>12
  DEF NextLeaky, sendWorker

LEMMA LeakyHolds ==
  SpecLeaky => []LeakyInv
<1>1. InitLeaky => LeakyInv
  BY LeakyInit
<1>2. LeakyInv /\ [NextLeaky]_varsLeaky => LeakyInv'
  BY LeakyStep
<1> QED BY <1>1, <1>2, PTL DEF SpecLeaky

\* The leaky bucket's queueBytes is what its queue amounts to, an interval sends at
\* most twice its bytes and one packet, and over any stretch of intervals the bytes
\* sent exceed the bitrate's by at most one interval's bytes and one packet, for any
\* sizes, bitrates, latency limit and number of callers (leaky_bucket.go 95-147).
THEOREM LeakyKeepsRate ==
  SpecLeaky => []WithinRate
<1>1. LeakyInv => WithinRate
  BY DEF LeakyInv, Queued, Budget, WithinRate
<1> QED BY <1>1, LeakyHolds, PTL

\* The leaky bucket starts as PacedStream does and makes no step that PacedStream
\* cannot: packets leave once each, in the order Enqueue accepted them, none before
\* Start, and at most one after Stop (leaky_bucket.go 63-92, 124-147).
THEOREM LeakySteps ==
  SpecLeaky => Paced!Init /\ [][Paced!Next]_(Paced!vars)
<1>1. InitLeaky => Paced!Init
  BY LeakyInit
<1>2. LeakyInv /\ [NextLeaky]_varsLeaky => [Paced!Next]_(Paced!vars)
  BY LeakyStep
<1> QED BY <1>1, <1>2, LeakyHolds, PTL DEF SpecLeaky
=============================================================================
