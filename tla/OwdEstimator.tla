----------------------------- MODULE OwdEstimator -----------------------------
(***************************************************************************)
(* pkg/latency/owd_estimator.go: an estimate of the propagation delay from *)
(* reports that arrive now and then.  Factors are in percent; a product is *)
(* truncated towards zero as int64() does.                                 *)
(***************************************************************************)
EXTENDS Integers

CONSTANTS
  FallFactor, RiseFactor, SpikeFactor,        \* percent
  ThresholdMin, MaxFactor, AdaptationThreshold,
  ResetReports, ResetWait,
  Delays,      \* receiver's less sender's time in a report
  SenderSteps, \* sender's time since its last report
  Elapses,     \* receiver's time since the last report
  Adjustments, \* arguments of InitialAdjustment
  MaxReports   \* bound: reports after the first

ASSUME FactorsAssumption ==
  /\ {FallFactor, RiseFactor, SpikeFactor} \subseteq 0 .. 100
  /\ {ThresholdMin, MaxFactor, AdaptationThreshold} \subseteq Nat
  /\ ResetReports \in Nat /\ ResetWait \in Nat \ {0}
ASSUME InputsAssumption ==
  /\ Delays \subseteq Int /\ SenderSteps \subseteq Int /\ Adjustments \subseteq Int
  /\ Elapses \subseteq Nat /\ MaxReports \in Nat

VARIABLES initialized, initialAdjustmentDone, estimated, longTerm,
          highCount, \* saturates at ResetReports
          highAge,   \* time since propagationDelayDeltaHighStartTime, saturates at
                     \* ResetWait; Unset is the zero time
          spike,
          low, high, \* history: the bounds of all delays reported
          streak,    \* history: successive reports above ThresholdMin, see Streak
          step,      \* history: whether the last call reset the estimate
          reports    \* how many reports came after the first

vars == <<initialized, initialAdjustmentDone, estimated, longTerm, highCount, highAge,
          spike, low, high, streak, step, reports>>

Unset == -1
Least(a, b) == IF a < b THEN a ELSE b
Greatest(a, b) == IF a > b THEN a ELSE b

\* n / d truncated towards zero.
Quotient(n, d) == IF n >= 0 THEN n \div d ELSE -((-n) \div d)

\* Mutant: the factor is of the value, not of the way to it.
MutMoved(from, to, num, den) == from + Quotient(num * to, den)

Moved(from, to, num, den) == from + Quotient(num * (to - from), den)

Init ==
  /\ initialized = FALSE /\ initialAdjustmentDone = FALSE
  /\ estimated = 0 /\ longTerm = 0
  /\ highCount = 0 /\ highAge = Unset /\ spike = 0
  /\ low = 0 /\ high = 0 /\ step = FALSE
  /\ streak = [count |-> 0, age |-> 0]
  /\ reports = 0

-----------------------------------------------------------------------------
(* Update.                                                                 *)

NoHigh == [count |-> 0, age |-> Unset, spike |-> 0]

First(d) ==
  /\ ~initialized
  /\ initialized' = TRUE
  /\ estimated' = d /\ longTerm' = 0
  /\ highCount' = 0 /\ highAge' = Unset /\ spike' = 0
  /\ low' = d /\ high' = d /\ step' = TRUE
  /\ UNCHANGED <<initialAdjustmentDone, streak, reports>>

Rises(delta) == delta > ThresholdMin
Sharp(delta) == longTerm # 0 /\ delta > longTerm * MaxFactor

\* One more high report; elapsed has passed since the one before.
High(d, elapsed) ==
  [count |-> Least(highCount + 1, ResetReports),
   age   |-> IF highAge = Unset THEN 0 ELSE Least(highAge + elapsed, ResetWait),
   spike |-> IF spike = 0 THEN d ELSE Moved(spike, d, SpikeFactor, 100)]

\* Mutant: a report that is not high leaves the count as it is.
MutNotHigh == [count |-> highCount, age |-> highAge, spike |-> spike]

NotHigh == NoHigh

Persists(h) == h.count >= ResetReports /\ h.age >= ResetWait

Clamped(lt) == IF lt < 0 THEN 0 ELSE lt

\* The long-term delta; lt is what it was, or 0 after a reset.
LongTerm(lt, delta, sinceLast) ==
  Clamped(IF delta >= AdaptationThreshold THEN lt
          ELSE IF lt = 0 THEN delta
          ELSE Moved(lt, delta, Least(sinceLast, ResetWait), ResetWait))

\* History: how many reports in a row were so, and for how long.
Streak(s, is, elapsed) ==
  IF ~is THEN [count |-> 0, age |-> 0]
  ELSE [count |-> Least(s.count + 1, ResetReports),
        age   |-> IF s.count = 0 THEN 0 ELSE Least(s.age + elapsed, ResetWait)]

Set(h) == highCount' = h.count /\ highAge' = h.age /\ spike' = h.spike

Update(d, sinceLast, elapsed) ==
  LET delta == d - estimated
      h == High(d, elapsed)
  IN
  /\ initialized
  /\ reports < MaxReports /\ reports' = reports + 1
  /\ \/ /\ Rises(delta) /\ Sharp(delta) /\ Persists(h)
        /\ step' = TRUE
        /\ estimated' = h.spike
        /\ Set(NoHigh)
        /\ longTerm' = LongTerm(0, delta, sinceLast)
     \/ /\ Rises(delta) /\ Sharp(delta) /\ ~Persists(h)
        /\ step' = FALSE
        /\ Set(h)
        /\ longTerm' = LongTerm(longTerm, delta, sinceLast)
        /\ UNCHANGED estimated
     \/ /\ Rises(delta) /\ ~Sharp(delta)
        /\ step' = FALSE
        /\ Set(NotHigh)
        /\ longTerm' = LongTerm(longTerm, delta, sinceLast)
        /\ UNCHANGED estimated
     \/ /\ ~Rises(delta)
        /\ step' = FALSE
        /\ Set(NotHigh)
        /\ estimated' = Moved(estimated, d, IF delta > 0 THEN RiseFactor ELSE FallFactor, 100)
        /\ longTerm' = LongTerm(longTerm, delta, sinceLast)
  /\ low' = Least(low, d) /\ high' = Greatest(high, d)
  /\ streak' = Streak(streak, Rises(delta), elapsed)
  /\ UNCHANGED <<initialized, initialAdjustmentDone>>

\* Only the first call adjusts, and only what stays positive.
InitialAdjustment(a) ==
  /\ initialAdjustmentDone' = TRUE
  /\ estimated' = IF ~initialAdjustmentDone /\ a < 0 /\ -a < estimated
                  THEN estimated + a ELSE estimated
  /\ low' = Least(low, estimated')
  /\ UNCHANGED <<initialized, longTerm, highCount, highAge, spike, high, streak, step, reports>>

Next ==
  \/ \E d \in Delays : First(d)
  \/ \E d \in Delays, s \in SenderSteps, e \in Elapses : Update(d, s, e)
  \/ \E a \in Adjustments : InitialAdjustment(a)

Spec == Init /\ [][Next]_vars

-----------------------------------------------------------------------------
(* Correctness.                                                            *)

\* Every variable has its type; a long-term delta is never negative (line 171).
TypeOK ==
  /\ {initialized, initialAdjustmentDone, step} \subseteq BOOLEAN
  /\ {estimated, spike, low, high} \subseteq Int
  /\ longTerm \in Nat
  /\ highCount \in 0 .. ResetReports /\ highAge \in Unset .. ResetWait
  /\ streak \in [count : 0 .. ResetReports, age : 0 .. ResetWait]

\* Types, and: however reports rise, fall and spike, the estimate never leaves the range of
\* the delays that were reported (lines 140, 145, 157), one adjustment aside.
EstimateWithin == TypeOK /\ (initialized => estimated \in low .. high)

\* "Reset at whichever of the below happens later": the estimate only jumps after
\* ResetReports successive reports above the threshold and ResetWait of them
\* (lines 56-59).
ResetOnlyIfPersistent ==
  step /\ streak.count > 0 => streak.count = ResetReports /\ streak.age = ResetWait
=============================================================================
