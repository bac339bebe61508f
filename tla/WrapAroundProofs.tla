-------------------------- MODULE WrapAroundProofs ---------------------------
(***************************************************************************)
(* For every pair of types and every sequence of calls, the tracker's      *)
(* numbers are as far apart as the positions they stand for, taking back   *)
(* the last update restores that, and what an update returns places its    *)
(* value.  Three facts make the first inductive: the highest number is     *)
(* cycles and highest put together, cycles being whole cycles; what an     *)
(* update returned restores the span before it; and so does the start      *)
(* that a restart replaced.                                                *)
(***************************************************************************)
EXTENDS WrapAround, TLAPS

Bound == MaxExtended + FullRange

\* Whole cycles, as far as they have to be told apart.
Whole(c) == c \in Nat /\ (c = 0 \/ c = FullRange \/ c >= 2 * FullRange)

Joined ==
  /\ Whole(cycles) /\ extendedHighest = cycles + highest /\ extendedHighest <= Bound
  /\ ~initialized => cycles = 0 /\ result = NoResult

\* The highest an update tells to go back to is as far from start as it was.
Undoable ==
  ~result.IsUnhandled /\ result.PreExtendedHighest < result.ExtendedVal =>
    result.PreExtendedHighest - start = before /\ result.PreExtendedHighest <= Bound

\* So is the start a restart tells to go back to, in the numbering before it.
Reversible ==
  result.IsRestart =>
    LET old == Low(result.PreExtendedStart) IN
    IF isWrapBack(start, old) THEN cycles = FullRange /\ highest - old = before
    ELSE cycles + highest - old = before

\* An update that does not move the highest, and so is not undone, leaves the span
\* as it is, but for the cases UndoRestores leaves out.
Unmoved ==
  /\ result # NoResult /\ ~result.IsRestart /\ span >= before
  /\ ~(before = -1 /\ result.ExtendedVal = 0)
  /\ result.IsUnhandled \/ result.PreExtendedHighest >= result.ExtendedVal
  => span = before

IInv == SpanExact /\ Joined /\ Undoable /\ Reversible /\ Unmoved

-----------------------------------------------------------------------------
(* Numbers.                                                                *)

LEMMA RangesTyped ==
  /\ FullRange \in Nat /\ Half \in Nat /\ FullRange = 2 * Half /\ Half >= 2
  /\ ERange \in Nat \ {0} /\ MaxExtended \in Nat /\ Bound \in Nat /\ Bound < ERange
  /\ 2 * FullRange <= ERange
<1>1. FullRange \div 2 \in Int
  BY RangesAssumption, SMT
<1> QED BY <1>1, RangesAssumption DEF Half, Bound

LEMMA Division ==
  ASSUME NEW n \in Int, NEW d \in Nat \ {0}
  PROVE  /\ n \div d \in Int /\ n % d \in 0 .. d - 1
         /\ n = d * (n \div d) + (n % d)
BY SMT

\* A whole number of ranges is whole cycles.
LEMMA Multiple ==
  ASSUME NEW k \in Nat
  PROVE  Whole(FullRange * k)
<1>1. CASE k = 0
  <2>1. FullRange * 0 = 0
    BY RangesTyped, SMT
  <2> QED BY <1>1, <2>1 DEF Whole
<1>2. CASE k = 1
  <2>1. FullRange * 1 = FullRange
    BY RangesTyped, SMT
  <2> QED BY <1>2, <2>1, RangesTyped DEF Whole
<1>3. CASE k >= 2
  <2>1. FullRange * (k - 2) \in Nat
    BY <1>3, RangesTyped, SMT
  <2>2. FullRange * k = FullRange * (k - 2) + 2 * FullRange
    BY RangesTyped, SMT
  <2> QED BY <2>1, <2>2, RangesTyped DEF Whole
<1> QED BY <1>1, <1>2, <1>3

\* Quotient and remainder are unique.
LEMMA Unique ==
  ASSUME NEW d \in Nat \ {0}, NEW q \in Int, NEW r \in 0 .. d - 1, NEW s \in 0 .. d - 1,
         NEW n \in Int, n = d * q + r, n = s
  PROVE  r = s
<1>1. q = 0 \/ q >= 1 \/ q <= -1
  OBVIOUS
<1>2. CASE q >= 1
  BY <1>2, SMT
<1>3. CASE q <= -1
  BY <1>3, SMT
<1>4. CASE q = 0
  BY <1>4, SMT
<1> QED BY <1>1, <1>2, <1>3, <1>4

\* ET holds what is within the bound.
LEMMA ExtIs ==
  ASSUME NEW x \in Int
  PROVE  /\ Ext(x) \in E
         /\ x \in E => Ext(x) = x
<1>1. x \div ERange \in Int /\ x % ERange \in 0 .. ERange - 1
      /\ x = ERange * (x \div ERange) + (x % ERange)
  BY RangesTyped, Division
<1>2. x \in E => x % ERange = x
  BY <1>1, RangesTyped, Unique DEF E
<1> QED BY <1>1, <1>2 DEF Ext, E

\* An extended number in two parts.
LEMMA Parts ==
  ASSUME NEW ev \in Nat
  PROVE  /\ Low(ev) \in T /\ Whole(High(ev)) /\ High(ev) + Low(ev) = ev
         /\ ev \in T => Low(ev) = ev
         /\ ev - FullRange \in T => Low(ev) = ev - FullRange
<1> DEFINE q == ev \div FullRange
           r == ev % FullRange
           m == FullRange * q
<1>1. q \in Int /\ r \in 0 .. FullRange - 1 /\ ev = m + r /\ m \in Int
  <2>1. FullRange \in Nat \ {0}
    BY RangesTyped
  <2>2. q \in Int /\ r \in 0 .. FullRange - 1 /\ ev = m + r
    BY <2>1, Division
  <2> HIDE DEF q
  <2> QED BY <2>1, <2>2
<1>2. q >= 0
  <2> SUFFICES ASSUME q <= -1 PROVE FALSE
    BY <1>1
  <2>1. m <= -FullRange
    BY <1>1, RangesTyped, SMT
  <2> QED BY <1>1, <2>1, RangesTyped
<1>3. Whole(m)
  BY <1>1, <1>2, Multiple
<1> HIDE DEF q, r, m
<1>4. Low(ev) = r /\ High(ev) = m
  BY <1>1 DEF Low, High, r
<1>5. ev \in T => r = ev
  BY <1>1, <1>3, RangesTyped DEF T, Whole
<1>6. ev - FullRange \in T => r = ev - FullRange
  BY <1>1, <1>3, RangesTyped DEF T, Whole
<1> QED BY <1>1, <1>3, <1>4, <1>5, <1>6, RangesTyped DEF T, Whole

-----------------------------------------------------------------------------
(* One step.                                                               *)

LEMMA Typed ==
  ASSUME IInv
  PROVE  /\ start \in T /\ highest \in T /\ cycles \in Nat /\ extendedHighest \in Nat
         /\ span \in Int /\ before \in Int /\ extendedHighest - start = span
         /\ isRestartAllowed \in BOOLEAN /\ initialized \in BOOLEAN
         /\ extendedHighest = cycles + highest /\ extendedHighest <= Bound
         /\ Whole(cycles)
BY RangesTyped DEF IInv, SpanExact, TypeOK, Joined, Whole, T

\* Numbers up to the bound, and values, are numbers of ET.
LEMMA InE ==
  /\ \A x \in Nat : x <= Bound => x \in E /\ Ext(x) = x
  /\ \A x \in T : x \in Nat /\ x \in E /\ FullRange + x \in E
<1>1. \A x \in Nat : x <= Bound => x \in E
  BY RangesTyped DEF E
<1>2. \A x \in T : x \in Nat /\ x \in E /\ FullRange + x \in E
  BY RangesTyped DEF E, T
<1> QED BY <1>1, <1>2, ExtIs

Results == [IsUnhandled : BOOLEAN, IsRestart : BOOLEAN, PreExtendedStart : E,
            PreExtendedHighest : E, ExtendedVal : E]

\* A result, and what Undoable and Reversible look at.
Gives(r, unhandled, restart, preStart, preHighest, val) ==
  /\ r \in Results
  /\ r.IsUnhandled = unhandled /\ r.IsRestart = restart /\ r.PreExtendedStart = preStart
  /\ r.PreExtendedHighest = preHighest /\ r.ExtendedVal = val

LEMMA ResultTyped ==
  ASSUME NEW u \in BOOLEAN, NEW r \in BOOLEAN, NEW s \in E, NEW h \in E, NEW v \in E
  PROVE  Gives(Result(u, r, s, h, v), u, r, s, h, v)
BY DEF Result, Results, Gives

LEMMA NoResultTyped == NoResult \in Results /\ NoResult.IsUnhandled /\ ~NoResult.IsRestart
<1>1. 0 \in E /\ TRUE \in BOOLEAN /\ FALSE \in BOOLEAN
  BY RangesTyped DEF E
<1>2. Gives(NoResult, TRUE, FALSE, 0, 0, 0)
  BY <1>1, ResultTyped DEF NoResult
<1> QED BY <1>2 DEF Gives

\* The types, given the numbers of a step.
LEMMA TypesKept ==
  ASSUME start' \in T, highest' \in T, cycles' \in Nat, extendedHighest' = cycles' + highest',
         extendedHighest' <= Bound, result' \in Results, span' \in Int, before' \in Int,
         isRestartAllowed' \in BOOLEAN, initialized' \in BOOLEAN,
         extendedHighest' - start' = span'
  PROVE  SpanExact'
<1>3. highest' \in Nat /\ Bound \in Nat
  BY RangesTyped DEF T
<1>1. cycles' <= Bound /\ extendedHighest' \in Nat
  <2>1. \A c, h, b \in Nat : c + h <= b => c <= b /\ c + h \in Nat
    OBVIOUS
  <2> QED BY <2>1, <1>3
<1>2. cycles' \in E /\ extendedHighest' \in E
  BY <1>1, InE
<1> QED BY <1>2 DEF SpanExact, TypeOK, Results

LEMMA FirstKeeps ==
  ASSUME IInv, NEW val \in T, ~initialized, First(val)
  PROVE  IInv'
<1>1. /\ cycles = 0 /\ start' = val /\ highest' = val /\ cycles' = 0 /\ initialized' = TRUE
      /\ extendedHighest' = Ext(0 + val) /\ span' = 0 /\ before' = -1
      /\ result' = Result(FALSE, FALSE, 0, Ext(val - 1), val)
      /\ isRestartAllowed' = isRestartAllowed
  BY DEF IInv, Joined, First, getExtended
<1>2. val \in Nat /\ val \in E /\ Ext(val) = val /\ val <= Bound /\ 0 + val = val /\ 0 \in E
  BY InE, RangesTyped DEF T, Bound, E
<1>3. extendedHighest' = val
  BY <1>1, <1>2
<1>4. Ext(val - 1) \in E /\ (Ext(val - 1) = val - 1 \/ val = 0)
  <2>1. val - 1 \in Int
    BY <1>2
  <2>2. val # 0 => val - 1 \in E
    BY <1>2, RangesTyped DEF E
  <2> QED BY <2>1, <2>2, ExtIs
<1> DEFINE pre == Ext(val - 1)
<1> HIDE DEF pre
<1>5. pre \in E /\ pre \in Nat /\ (pre = val - 1 \/ val = 0)
  BY <1>4 DEF pre, E
<1>6. Gives(result', FALSE, FALSE, 0, pre, val)
  BY <1>1, <1>2, <1>5, ResultTyped DEF pre
<1>7. SpanExact'
  <2>1. isRestartAllowed' \in BOOLEAN /\ initialized' \in BOOLEAN
    BY <1>1, Typed
  <2>2. extendedHighest' - start' = span' /\ extendedHighest' = cycles' + highest'
    BY <1>1, <1>2, <1>3
  <2> QED BY <2>1, <2>2, <1>1, <1>2, <1>3, <1>6, TypesKept DEF Gives
<1>8. Joined'
  BY <1>1, <1>2, <1>3 DEF Joined, Whole
<1>9. Undoable'
  <2>1. pre < val => pre - val = -1 /\ pre <= Bound
    BY <1>2, <1>5, RangesTyped
  <2> QED BY <2>1, <1>1, <1>6 DEF Undoable, Gives
<1>10. Reversible'
  BY <1>6 DEF Reversible, Gives
<1>11. Unmoved'
  <2>1. val # 0 => ~(pre >= val)
    BY <1>2, <1>5
  <2> QED BY <2>1, <1>1, <1>6 DEF Unmoved, Gives
<1> QED BY <1>7, <1>8, <1>9, <1>10, <1>11 DEF IInv

\* The numbers of an advance: c whole cycles and val, offset beyond the highest.
LEMMA AdvanceKeeps ==
  ASSUME IInv, initialized, NEW val \in T, NEW c, Whole(c), NEW offset \in Int,
         c + val = extendedHighest + offset, Advance(c, val, offset)
  PROVE  IInv'
<1>1. /\ extendedHighest + offset <= MaxExtended
      /\ cycles' = Ext(c) /\ highest' = val /\ extendedHighest' = Ext(cycles' + val)
      /\ result' = Result(FALSE, FALSE, 0, extendedHighest, extendedHighest')
      /\ span' = span + offset /\ before' = span
      /\ start' = start /\ initialized' = initialized /\ isRestartAllowed' = isRestartAllowed
  BY DEF Advance, getExtended
<1>2. c \in Nat /\ val \in Nat /\ c <= Bound /\ c + val \in Nat /\ c + val <= Bound
  <2>1. c \in Nat /\ val \in Nat /\ MaxExtended \in Nat /\ FullRange \in Nat /\ c + val <= MaxExtended
    BY <1>1, InE, RangesTyped DEF Whole
  <2> QED BY <2>1 DEF Bound
<1>3. cycles' = c /\ extendedHighest' = c + val
  BY <1>1, <1>2, InE
<1>4. /\ extendedHighest \in E /\ extendedHighest' \in E /\ 0 \in E
  BY <1>2, <1>3, Typed, InE, RangesTyped DEF E
<1>5. Gives(result', FALSE, FALSE, 0, extendedHighest, extendedHighest')
  BY <1>1, <1>4, ResultTyped
<1>6. extendedHighest' - start' = span'
  <2>1. \A a, b, d, o \in Int : a - b = d => (a + o) - b = d + o
    OBVIOUS
  <2>2. start \in Int /\ extendedHighest \in Int /\ span \in Int /\ extendedHighest - start = span
    BY Typed, InE
  <2> QED BY <2>1, <2>2, <1>1, <1>3
<1>7. SpanExact'
  BY <1>1, <1>2, <1>3, <1>5, <1>6, Typed, TypesKept DEF Gives
<1>8. Joined'
  BY <1>1, <1>2, <1>3 DEF Joined
<1>9. Undoable'
  BY <1>1, <1>5, Typed DEF Undoable, Gives
<1>10. Reversible'
  BY <1>5 DEF Reversible, Gives
<1>11. Unmoved'
  <2>1. \A s, x, o \in Int : s + o >= s /\ x >= x + o => s + o = s
    OBVIOUS
  <2>2. span' >= before' /\ extendedHighest >= extendedHighest' => span' = before'
    BY <2>1, <1>1, <1>3, Typed, InE
  <2> QED BY <2>2, <1>5 DEF Unmoved, Gives
<1> QED BY <1>7, <1>8, <1>9, <1>10, <1>11 DEF IInv

\* A step that changes only the result, to one that is not a restart.
LEMMA ResultOnly ==
  ASSUME IInv, initialized, UNCHANGED <<state, span>>, before' = span,
         NEW u \in BOOLEAN, NEW v \in E, result' = Result(u, FALSE, 0, extendedHighest, v)
  PROVE  IInv'
<1>1. UNCHANGED <<isRestartAllowed, initialized, start, highest, cycles, extendedHighest, span>>
  BY DEF state
<1>2. Gives(result', u, FALSE, 0, extendedHighest, v)
  <2>1. 0 \in E /\ extendedHighest \in E
    BY Typed, InE, RangesTyped DEF E
  <2> QED BY <2>1, ResultTyped
<1>3. SpanExact'
  BY <1>1, <1>2, Typed, TypesKept DEF Gives
<1>4. Joined'
  BY <1>1 DEF IInv, Joined
<1>5. Undoable'
  BY <1>1, <1>2, Typed DEF Undoable, Gives
<1>6. Reversible' /\ Unmoved'
  BY <1>1, <1>2 DEF Reversible, Unmoved, Gives
<1> QED BY <1>3, <1>4, <1>5, <1>6 DEF IInv

LEMMA LateKeeps ==
  ASSUME IInv, initialized, NEW val \in T, Late(val) \/ Unhandled(val)
  PROVE  IInv'
<1>1. \A c \in Int : getExtended(c, val) \in E
  BY ExtIs, InE DEF getExtended
<1>2. cycles \in Int /\ CyclesOf(val) \in Int
  <2>1. cycles \in Int /\ FullRange \in Int
    BY Typed, RangesTyped
  <2>2. Ext(cycles - FullRange) \in Int
    BY <2>1, ExtIs, RangesTyped DEF E
  <2> QED BY <2>1, <2>2 DEF CyclesOf
<1>3. CASE Late(val)
  BY <1>1, <1>2, <1>3, ResultOnly DEF Late
<1>4. CASE Unhandled(val)
  BY <1>1, <1>2, <1>4, ResultOnly DEF Unhandled
<1> QED BY <1>3, <1>4

-----------------------------------------------------------------------------
(* A restart.                                                              *)

\* Below zero ET wraps.
LEMMA ExtBelow ==
  ASSUME NEW x \in Int, x < 0, -ERange <= x
  PROVE  Ext(x) = x + ERange
<1> DEFINE q == x \div ERange
           r == x % ERange
<1>1. ERange \in Nat \ {0} /\ q \in Int /\ r \in 0 .. ERange - 1 /\ x = ERange * q + r
  BY RangesTyped, Division
<1> HIDE DEF q, r
<1>2. x + ERange = ERange * (q + 1) + r
  BY <1>1, SMT
<1>3. x + ERange \in 0 .. ERange - 1 /\ q + 1 \in Int /\ x + ERange \in Int
  BY <1>1
<1>4. r = x + ERange
  BY <1>1, <1>2, <1>3, Unique
<1> QED BY <1>4 DEF Ext, r

\* A start is only looked for within half the range.
LEMMA Near ==
  ASSUME IInv, NEW val, BeforeStart(val), extendedHighest <= MaxExtended
  PROVE  span >= -1 /\ span < Half
<1> DEFINE x == extendedHighest - start + 1
<1>1. /\ x \in Int /\ x <= Bound /\ -FullRange < x /\ x = span + 1
  BY Typed, InE, RangesTyped DEF Bound, T
<1>2. Ext(x) <= Half
  BY DEF BeforeStart, TotalNum
<1> HIDE DEF x
<1>3. CASE x >= 0
  BY <1>1, <1>2, <1>3, InE, Typed, RangesTyped
<1>4. CASE x < 0
  <2>1. Ext(x) = x + ERange
    BY <1>1, <1>4, ExtBelow, RangesTyped
  <2> QED BY <1>1, <1>2, <2>1, RangesTyped
<1> QED BY <1>1, <1>3, <1>4

\* Where the cycles are when a value before start is behind the highest: in the
\* first numbering's cycle 0, or one past it with the value and start on one side.
LEMMA RestartNumbers ==
  ASSUME NEW c, Whole(c), NEW h \in T, NEW s \in T, NEW v \in T,
         c + h - s >= -1, c + h - s < Half, Minus(v, s) > Half, Minus(v, h) > Half
  PROVE  /\ isWrapBack(v, h) => Minus(v, h) = v - h
         /\ ~isWrapBack(v, h) => c = 0 /\ v < h /\ Minus(v, h) = v - h + FullRange
         /\ isWrapBack(v, s) => c = 0 /\ isWrapBack(v, h)
         /\ ~isWrapBack(v, s) /\ isWrapBack(v, h) => c = FullRange
         /\ v <= s => ~isWrapBack(v, s)
BY RangesTyped DEF Whole, T, Minus, isWrapBack

LEMMA RestartKeeps ==
  ASSUME IInv, initialized, NEW val \in T, NEW offset,
         offset = Minus(val, highest) - FullRange, Minus(val, highest) > Half,
         Restart(val, offset)
  PROVE  IInv'
<1> DEFINE back == isWrapBack(val, highest)
           pre == IF val > start THEN FullRange + start ELSE start
           ext == getExtended(IF back THEN 0 ELSE cycles, val)
<1>1. /\ BeforeStart(val) /\ extendedHighest <= MaxExtended
      /\ cycles' = IF back THEN FullRange ELSE cycles
      /\ extendedHighest' = Ext(cycles' + highest)
      /\ start' = val /\ highest' = highest
      /\ result' = Result(FALSE, TRUE, pre, extendedHighest', ext)
      /\ span' = -offset /\ before' = span
      /\ initialized' = initialized /\ isRestartAllowed' = isRestartAllowed
  BY DEF Restart, getExtended
<1>2. /\ start \in T /\ highest \in T /\ cycles \in Nat /\ Whole(cycles) /\ span \in Int
      /\ extendedHighest = cycles + highest /\ extendedHighest - start = span
      /\ val \in Nat /\ start \in Nat /\ highest \in Nat
  BY Typed, InE
<1>3. span >= -1 /\ span < Half
  BY <1>1, Near
<1>4. Minus(val, start) > Half
  BY <1>1 DEF BeforeStart
<1>5. /\ back => Minus(val, highest) = val - highest
      /\ ~back => cycles = 0 /\ val < highest /\ Minus(val, highest) = val - highest + FullRange
      /\ isWrapBack(val, start) => cycles = 0 /\ back
      /\ ~isWrapBack(val, start) /\ back => cycles = FullRange
  BY <1>2, <1>3, <1>4, RestartNumbers
<1> HIDE DEF back
<1>6. /\ cycles' \in Nat /\ Whole(cycles') /\ cycles' + highest \in Nat /\ cycles' + highest <= Bound
  <2>1. highest <= MaxExtended /\ FullRange \in Nat /\ MaxExtended \in Nat
    BY <1>1, <1>2, RangesTyped
  <2> QED BY <2>1, <1>1, <1>2, <1>5 DEF Bound, Whole
<1>7. extendedHighest' = cycles' + highest
  BY <1>1, <1>6, InE
<1>8. offset \in Int /\ extendedHighest' - start' = span'
  BY <1>1, <1>2, <1>5, <1>7, RangesTyped
<1>9. pre \in E /\ Low(pre) = start
  <2>1. pre \in E
    BY <1>2, InE
  <2>2. start \in Nat /\ FullRange + start \in Nat /\ (FullRange + start) - FullRange = start
    BY <1>2, RangesTyped
  <2>3. Low(start) = start /\ Low(FullRange + start) = start
    BY <2>2, <1>2, Parts
  <2> QED BY <2>1, <2>3
<1>10. ext \in E /\ extendedHighest' >= ext
  <2>1. ~back => cycles = 0
    BY <1>5
  <2>2. ext = Ext(0 + val)
    BY <2>1 DEF getExtended
  <2>3. 0 + val = val /\ val <= Bound /\ Ext(val) = val /\ val \in E
    BY <1>2, InE, RangesTyped DEF T, Bound
  <2>4. val <= FullRange
    BY RangesTyped DEF T
  <2> QED BY <2>2, <2>3, <2>4, <1>1, <1>2, <1>5, <1>7, RangesTyped
<1> HIDE DEF pre, ext
<1>11. extendedHighest' \in E
  BY <1>6, <1>7, InE
<1>12. Gives(result', FALSE, TRUE, pre, extendedHighest', ext)
  BY <1>1, <1>9, <1>10, <1>11, ResultTyped
<1>13. SpanExact'
  BY <1>1, <1>2, <1>6, <1>7, <1>8, <1>12, Typed, TypesKept, RangesTyped DEF Gives
<1>14. Joined'
  BY <1>1, <1>6, <1>7 DEF Joined
<1>15. Undoable'
  <2>1. extendedHighest' \in Int /\ ext \in Int
    BY <1>10, <1>11, RangesTyped DEF E
  <2>2. ~(extendedHighest' < ext)
    BY <2>1, <1>10
  <2> QED BY <2>2, <1>12 DEF Undoable, Gives
<1>16. Reversible'
  <2>1. IF isWrapBack(val, start) THEN cycles' = FullRange /\ highest - start = span
        ELSE cycles' + highest - start = span
    BY <1>1, <1>2, <1>5
  <2> QED BY <2>1, <1>1, <1>9, <1>12 DEF Reversible, Gives
<1>17. Unmoved'
  BY <1>12 DEF Unmoved, Gives
<1> QED BY <1>13, <1>14, <1>15, <1>16, <1>17 DEF IInv

-----------------------------------------------------------------------------
(* Updates.                                                                *)

\* Another cycle makes whole cycles, and so do some more.
LEMMA MoreCycles ==
  /\ \A c : Whole(c) => Whole(c + FullRange)
  /\ \A c, k : Whole(c) /\ Whole(k) => Whole(c + k)
BY RangesTyped DEF Whole

LEMMA UpdateKeeps ==
  ASSUME IInv, NEW val \in T, NEW known \in BOOLEAN, UpdateWithOrderKnown(val, known)
  PROVE  IInv'
<1> DEFINE gap == Minus(val, highest)
           offset == Offset(val, known)
<1>1. highest \in T /\ val \in Int /\ highest \in Int /\ cycles \in Nat /\ Whole(cycles)
      /\ extendedHighest = cycles + highest /\ FullRange \in Nat
  BY Typed, InE, RangesTyped
<1>2. gap = (IF val >= highest THEN val - highest ELSE val - highest + FullRange) /\ gap \in Nat /\ gap < FullRange
  BY <1>1, RangesTyped DEF Minus, T
<1> HIDE DEF gap
<1>3. offset = (IF known \/ gap <= Half THEN gap ELSE gap - FullRange)
  BY DEF Offset, gap
<1>4. offset \in Int
  BY <1>2, <1>3, RangesTyped
<1>5. CASE ~initialized /\ First(val)
  BY <1>5, FirstKeeps
<1>6. CASE initialized /\ offset >= 0 /\ Advance(CyclesUpTo(val), val, offset)
  <2>1. offset = gap
    BY <1>2, <1>3, <1>6, RangesTyped
  <2>2. Whole(CyclesUpTo(val))
    BY <1>1, MoreCycles DEF CyclesUpTo
  <2>3. CyclesUpTo(val) + val = extendedHighest + offset
    BY <1>1, <1>2, <2>1 DEF CyclesUpTo
  <2> HIDE DEF offset
  <2> QED BY <1>4, <1>6, <2>2, <2>3, AdvanceKeeps
<1>7. CASE initialized /\ offset < 0 /\ (Late(val) \/ Unhandled(val))
  BY <1>7, LateKeeps
<1>8. CASE initialized /\ offset < 0 /\ Restart(val, offset)
  <2>1. offset = Minus(val, highest) - FullRange /\ Minus(val, highest) > Half
    BY <1>2, <1>3, <1>8, RangesTyped DEF gap
  <2> HIDE DEF offset
  <2> QED BY <1>8, <2>1, RestartKeeps
<1> QED BY <1>5, <1>6, <1>7, <1>8 DEF UpdateWithOrderKnown

LEMMA RolloverKeeps ==
  ASSUME IInv, NEW val \in T, NEW n \in Int, Rollover(val, n)
  PROVE  IInv'
<1>1. CASE Update(val)
  BY <1>1, UpdateKeeps DEF Update
<1>2. CASE /\ n >= 0 /\ initialized
           /\ Advance(cycles + n * FullRange, val, n * FullRange + val - highest)
  <2> DEFINE m == n * FullRange
  <2>1. m = FullRange * n /\ m \in Int
    BY RangesTyped, SMT
  <2>2. Whole(FullRange * n)
    BY <1>2, Multiple
  <2>3. Whole(m)
    BY <2>1, <2>2
  <2> HIDE DEF m
  <2>4. /\ cycles \in Int /\ highest \in Int /\ val \in Int /\ Whole(cycles)
        /\ extendedHighest = cycles + highest
    BY Typed, InE
  <2>5. m + val - highest \in Int /\ (cycles + m) + val = extendedHighest + (m + val - highest)
    BY <2>1, <2>4
  <2>6. Whole(cycles + m)
    BY <2>3, <2>4, MoreCycles
  <2>7. Advance(cycles + m, val, m + val - highest)
    BY <1>2 DEF m
  <2> QED BY <1>2, <2>5, <2>6, <2>7, AdvanceKeeps
<1> QED BY <1>1, <1>2 DEF Rollover

-----------------------------------------------------------------------------
(* Taking back.                                                            *)

\* Back to any number up to the bound, with the span it has.
LEMMA ResetKeeps ==
  ASSUME IInv, initialized, NEW ev \in Nat, ev <= Bound, ResetTo(ev), result' = NoResult,
         span' = ev - start, before' \in Int, UNCHANGED <<isRestartAllowed, initialized, start>>
  PROVE  IInv'
<1>1. Low(ev) \in T /\ Whole(High(ev)) /\ High(ev) + Low(ev) = ev /\ Ext(ev) = ev
  BY Parts, InE
<1>2. highest' = Low(ev) /\ cycles' = High(ev) /\ extendedHighest' = ev
  BY <1>1 DEF ResetTo, getExtended
<1>3. cycles' \in Nat /\ start \in Int /\ ev - start \in Int
  BY <1>1, <1>2, Typed, InE DEF Whole
<1>4. SpanExact'
  BY <1>1, <1>2, <1>3, Typed, NoResultTyped, TypesKept
<1>5. Joined'
  BY <1>1, <1>2 DEF Joined
<1>6. Undoable' /\ Reversible' /\ Unmoved'
  BY NoResultTyped DEF Undoable, Reversible, Unmoved
<1> QED BY <1>4, <1>5, <1>6 DEF IInv

LEMMA UndoKeeps ==
  ASSUME IInv, UndoUpdate
  PROVE  IInv'
<1>1. /\ result # NoResult /\ result' = NoResult
      /\ UNCHANGED <<isRestartAllowed, initialized, start, before>>
  BY DEF UndoUpdate
<1>2. initialized
  BY <1>1 DEF IInv, Joined
<1>3. CASE UNCHANGED <<highest, cycles, extendedHighest, span>>
  <2>1. SpanExact'
    BY <1>1, <1>3, Typed, NoResultTyped, TypesKept
  <2>2. Joined'
    BY <1>1, <1>3 DEF IInv, Joined
  <2>3. Undoable' /\ Reversible' /\ Unmoved'
    BY <1>1, NoResultTyped DEF Undoable, Reversible, Unmoved
  <2> QED BY <2>1, <2>2, <2>3 DEF IInv
<1>4. CASE /\ ~result.IsUnhandled /\ ~(result.PreExtendedHighest >= result.ExtendedVal)
           /\ ResetTo(result.PreExtendedHighest) /\ span' = before
  <2>1. result.PreExtendedHighest \in Nat /\ result.ExtendedVal \in Nat
    BY RangesTyped DEF IInv, SpanExact, TypeOK, E
  <2>2. result.PreExtendedHighest - start = before /\ result.PreExtendedHighest <= Bound
    BY <1>4, <2>1 DEF IInv, Undoable
  <2>3. before' \in Int
    BY <1>1, Typed
  <2> QED BY <1>1, <1>2, <1>4, <2>1, <2>2, <2>3, ResetKeeps
<1> QED BY <1>2, <1>3, <1>4 DEF UndoUpdate

LEMMA RollbackKeeps ==
  ASSUME IInv, RollbackRestart
  PROVE  IInv'
<1> DEFINE old == Low(result.PreExtendedStart)
<1>1. /\ result.IsRestart /\ result' = NoResult
      /\ cycles' = IF isWrapBack(start, old) THEN Ext(cycles - FullRange) ELSE cycles
      /\ extendedHighest' = Ext(cycles' + highest) /\ start' = old
      /\ span' = before
      /\ UNCHANGED <<isRestartAllowed, initialized, highest, before>>
  BY DEF RollbackRestart, getExtended
<1>2. /\ highest \in T /\ highest \in Nat /\ cycles \in Nat /\ Whole(cycles)
      /\ extendedHighest = cycles + highest /\ extendedHighest <= Bound /\ before \in Int
  BY Typed, InE
<1>3. old \in T /\ old \in Nat
  <2>1. result.PreExtendedStart \in Nat
    BY RangesTyped DEF IInv, SpanExact, TypeOK, E
  <2> QED BY <2>1, Parts, InE
<1>4. IF isWrapBack(start, old) THEN cycles = FullRange /\ highest - old = before
      ELSE cycles + highest - old = before
  BY <1>1 DEF IInv, Reversible
<1> HIDE DEF old
<1>5. 0 \in Nat /\ 0 <= Bound /\ Ext(0) = 0 /\ Whole(0)
  BY InE, RangesTyped DEF Whole
<1>6. cycles' = (IF isWrapBack(start, old) THEN 0 ELSE cycles)
  BY <1>1, <1>2, <1>4, <1>5, RangesTyped
<1>7. cycles' \in Nat /\ Whole(cycles') /\ cycles' + highest \in Nat /\ cycles' + highest <= Bound
  <2>1. Bound \in Nat
    BY RangesTyped
  <2> QED BY <2>1, <1>2, <1>5, <1>6
<1>8. extendedHighest' = cycles' + highest
  BY <1>1, <1>7, InE
<1>9. extendedHighest' - start' = span'
  BY <1>1, <1>2, <1>3, <1>4, <1>6, <1>8
<1>10. initialized
  BY <1>1, NoResultTyped DEF IInv, Joined
<1>11. SpanExact'
  BY <1>1, <1>2, <1>3, <1>7, <1>8, <1>9, Typed, NoResultTyped, TypesKept
<1>12. Joined'
  BY <1>1, <1>7, <1>8, <1>10 DEF Joined
<1>13. Undoable' /\ Reversible' /\ Unmoved'
  BY <1>1, NoResultTyped DEF Undoable, Reversible, Unmoved
<1> QED BY <1>11, <1>12, <1>13 DEF IInv

LEMMA ResetHighestKeeps ==
  ASSUME IInv, NEW ev \in Nat, ResetHighest(ev)
  PROVE  IInv'
<1>1. /\ initialized /\ ev <= extendedHighest /\ ResetTo(ev) /\ result' = NoResult
      /\ span' = span - (extendedHighest - ev)
      /\ UNCHANGED <<isRestartAllowed, initialized, start, before>>
  BY DEF ResetHighest
<1>2. /\ extendedHighest \in Nat /\ extendedHighest <= Bound /\ start \in Int /\ span \in Int
      /\ extendedHighest - start = span /\ before \in Int
  BY Typed, InE
<1>3. ev <= Bound /\ span' = ev - start /\ before' \in Int
  BY <1>1, <1>2, RangesTyped
<1> QED BY <1>1, <1>3, ResetKeeps

LEMMA SeedKeeps ==
  ASSUME IInv, Seed
  PROVE  IInv'
<1>1. /\ extendedHighest' = Ext(cycles + highest)
      /\ UNCHANGED <<isRestartAllowed, initialized, start, highest, cycles, result, span, before>>
  BY DEF Seed, getExtended
<1>2. extendedHighest' = extendedHighest
  BY <1>1, Typed, InE
<1> QED BY <1>1, <1>2 DEF IInv, SpanExact, TypeOK, Joined, Undoable, Reversible, Unmoved

LEMMA IInvHolds == Spec => []IInv
<1>1. Init => IInv
  <2> SUFFICES ASSUME Init PROVE IInv
    OBVIOUS
  <2>1. /\ 0 \in T /\ 0 \in E /\ 0 \in Nat /\ Whole(0) /\ 0 + 0 = 0 /\ 0 - 0 = 0 /\ 0 <= Bound
    BY RangesTyped DEF T, E, Whole
  <2>2. SpanExact
    <3>1. result \in Results
      BY NoResultTyped DEF Init
    <3>2. /\ start \in T /\ highest \in T /\ cycles \in E /\ extendedHighest \in E
          /\ isRestartAllowed \in BOOLEAN /\ initialized \in BOOLEAN
      BY <2>1 DEF Init
    <3>3. span \in Int /\ before \in Int /\ extendedHighest - start = span
      BY <2>1 DEF Init
    <3> QED BY <3>1, <3>2, <3>3 DEF SpanExact, TypeOK, Results
  <2>3. Joined /\ Undoable /\ Reversible /\ Unmoved
    BY <2>1, NoResultTyped DEF Init, Joined, Undoable, Reversible, Unmoved
  <2> QED BY <2>2, <2>3 DEF IInv
<1>2. IInv /\ [Next]_vars => IInv'
  <2> SUFFICES ASSUME IInv, [Next]_vars PROVE IInv'
    OBVIOUS
  <2>1. ASSUME NEW val \in T, Update(val) \/ UpdateWithOrderKnown(val, TRUE) PROVE IInv'
    <3>1. TRUE \in BOOLEAN /\ FALSE \in BOOLEAN
      OBVIOUS
    <3>2. UpdateWithOrderKnown(val, FALSE) \/ UpdateWithOrderKnown(val, TRUE)
      BY <2>1 DEF Update
    <3> QED BY <3>1, <3>2, UpdateKeeps
  <2>2. ASSUME NEW val \in T, NEW n \in -1 .. MaxCycles, Rollover(val, n) PROVE IInv'
    <3>1. n \in Int
      BY RangesAssumption
    <3> QED BY <2>2, <3>1, RolloverKeeps
  <2>3. CASE UndoUpdate
    BY <2>3, UndoKeeps
  <2>4. CASE RollbackRestart
    BY <2>4, RollbackKeeps
  <2>5. CASE Seed
    BY <2>5, SeedKeeps
  <2>6. ASSUME NEW ev \in 0 .. MaxExtended + FullRange, ResetHighest(ev) PROVE IInv'
    <3>1. ev \in Nat
      BY RangesTyped
    <3> QED BY <2>6, <3>1, ResetHighestKeeps
  <2>7. CASE UNCHANGED vars
    BY <2>7 DEF vars, IInv, SpanExact, TypeOK, Joined, Undoable, Reversible, Unmoved
  <2> QED BY <2>1, <2>2, <2>3, <2>4, <2>5, <2>6, <2>7 DEF Next
<1> QED BY <1>1, <1>2, PTL DEF Spec

\* For any two number types and any calls in any order, extendedHighest and start
\* are as far apart as the positions they stand for (lines 67-215).
THEOREM SpanIsExact == Spec => []SpanExact
<1>1. IInv => SpanExact
  BY DEF IInv
<1> QED BY <1>1, IInvHolds, PTL

-----------------------------------------------------------------------------
(* Undoing the last update.                                                *)

LEMMA UndoGoesBack ==
  ASSUME IInv, UndoUpdate, ~result.IsRestart, span >= before,
         ~(before = -1 /\ result.ExtendedVal = 0)
  PROVE  extendedHighest' - start' = before
<1>1. extendedHighest' - start' = span'
  BY UndoKeeps DEF IInv, SpanExact
<1>2. result # NoResult /\ initialized
  BY DEF UndoUpdate, IInv, Joined
<1>3. CASE /\ result.IsUnhandled \/ result.PreExtendedHighest >= result.ExtendedVal
           /\ span' = span
  <2>1. span = before
    BY <1>2, <1>3 DEF IInv, Unmoved
  <2> QED BY <1>1, <1>3, <2>1
<1>4. CASE span' = before
  BY <1>1, <1>4
<1> QED BY <1>2, <1>3, <1>4 DEF UndoUpdate

\* Taking back the last update, whatever came before it, restores the distance of
\* highest and start, with the exceptions UndoRestores names (lines 134-140).
THEOREM UndoIsExact == Spec => UndoRestores
<1>1. IInv /\ [Next]_vars
      => [/\ UndoUpdate /\ ~result.IsRestart /\ span >= before
          /\ ~(before = -1 /\ result.ExtendedVal = 0)
          => extendedHighest' - start' = before]_vars
  BY UndoGoesBack
<1> QED BY <1>1, IInvHolds, PTL DEF Spec, UndoRestores

-----------------------------------------------------------------------------
(* What an update returns.                                                 *)

\* The count of values seen, one more than the span, is a number of ET.
Countable == span < Bound /\ before < Bound

LEMMA AdvanceCountable ==
  ASSUME IInv, Countable, NEW c, NEW val, NEW offset \in Int, Advance(c, val, offset)
  PROVE  Countable'
<1>1. span' = span + offset /\ before' = span /\ extendedHighest + offset <= MaxExtended
  BY DEF Advance
<1>2. span + offset < Bound
  <2>1. /\ extendedHighest \in Nat /\ start \in Nat /\ span \in Int /\ extendedHighest - start = span
        /\ MaxExtended \in Nat /\ FullRange \in Nat /\ FullRange > 0
    BY Typed, InE, RangesTyped
  <2> QED BY <2>1, <1>1 DEF Bound
<1> QED BY <1>1, <1>2 DEF Countable

LEMMA UpdateCountable ==
  ASSUME IInv, Countable, NEW val \in T, NEW known \in BOOLEAN, UpdateWithOrderKnown(val, known)
  PROVE  Countable'
<1> DEFINE offset == Offset(val, known)
<1>1. offset \in Int /\ -offset < FullRange /\ 0 < Bound /\ FullRange <= Bound
  BY Typed, RangesTyped DEF Offset, Minus, T, Bound
<1> HIDE DEF offset
<1>2. CASE First(val)
  <2>1. span' = 0 /\ before' = -1
    BY <1>2 DEF First
  <2>2. -1 < Bound
    BY RangesTyped
  <2> QED BY <1>1, <2>1, <2>2 DEF Countable
<1>3. CASE Advance(CyclesUpTo(val), val, offset)
  BY <1>1, <1>3, AdvanceCountable
<1>4. CASE Late(val) \/ Unhandled(val)
  BY <1>4 DEF Late, Unhandled, Countable
<1>5. CASE Restart(val, offset)
  <2>1. span' = -offset /\ before' = span
    BY <1>5 DEF Restart
  <2>2. -offset < Bound
    BY <1>1, RangesTyped
  <2> QED BY <2>1, <2>2 DEF Countable
<1> QED BY <1>2, <1>3, <1>4, <1>5 DEF UpdateWithOrderKnown, offset

LEMMA CountableHolds == Spec => [](IInv /\ Countable)
<1>1. Init => Countable
  BY RangesTyped DEF Init, Countable, Bound
<1>2. IInv /\ Countable /\ [Next]_vars => Countable'
  <2> SUFFICES ASSUME IInv, Countable, [Next]_vars PROVE Countable'
    OBVIOUS
  <2>1. ASSUME NEW val \in T, Update(val) \/ UpdateWithOrderKnown(val, TRUE) PROVE Countable'
    <3>1. TRUE \in BOOLEAN /\ FALSE \in BOOLEAN
      OBVIOUS
    <3> QED BY <2>1, <3>1, UpdateCountable DEF Update
  <2>2. ASSUME NEW val \in T, NEW n \in -1 .. MaxCycles, Rollover(val, n) PROVE Countable'
    <3>1. CASE Update(val)
      BY <2>1, <3>1
    <3>2. CASE Advance(cycles + n * FullRange, val, n * FullRange + val - highest)
      <4>1. n * FullRange \in Int
        BY RangesTyped, RangesAssumption, SMT
      <4>2. n * FullRange + val - highest \in Int
        BY <4>1, Typed, InE
      <4> QED BY <3>2, <4>2, AdvanceCountable
    <3> QED BY <2>2, <3>1, <3>2 DEF Rollover
  <2>3. CASE UndoUpdate \/ RollbackRestart
    BY <2>3 DEF UndoUpdate, RollbackRestart, Countable
  <2>4. CASE Seed \/ UNCHANGED vars
    BY <2>4 DEF Seed, vars, Countable
  <2>5. ASSUME NEW ev \in 0 .. MaxExtended + FullRange, ResetHighest(ev) PROVE Countable'
    <3>1. span' = span - (extendedHighest - ev) /\ before' = before /\ ev <= extendedHighest
      BY <2>5 DEF ResetHighest
    <3>2. span - (extendedHighest - ev) < Bound
      BY <3>1, Typed, RangesTyped DEF Countable
    <3> QED BY <3>1, <3>2 DEF Countable
  <2> QED BY <2>1, <2>2, <2>3, <2>4, <2>5 DEF Next
<1> QED BY <1>1, <1>2, IInvHolds, PTL DEF Spec

\* Where a value behind the highest lies: offset behind it, before start if that is
\* further than start is, and its extended number is the highest's less that.
LEMMA BehindNumbers ==
  ASSUME NEW c, Whole(c), NEW h \in T, NEW s \in T, NEW v \in T, NEW offset,
         offset = Minus(v, h) - FullRange, Minus(v, h) > Half, c + h - s >= 0
  PROVE  /\ offset \in Int /\ offset < 0 /\ -offset < Half
         /\ c + h - s < Half => (Minus(v, s) > Half <=> offset < -(c + h - s))
         /\ ~(offset < -(c + h - s)) =>
              IF isWrapBack(v, h) THEN c - FullRange \in Nat /\ (c - FullRange) + v = c + h + offset
              ELSE c + v = c + h + offset
<1>1. /\ c \in Nat /\ h \in Nat /\ s \in Nat /\ v \in Nat /\ FullRange \in Nat
      /\ h < FullRange /\ s < FullRange /\ v < FullRange
      /\ (c = 0 \/ c = FullRange \/ c >= 2 * FullRange)
      /\ Half \in Nat /\ FullRange = 2 * Half /\ Half >= 2
  BY RangesTyped DEF Whole, T
<1>2. Minus(v, h) = (IF v >= h THEN v - h ELSE v - h + FullRange)
  BY DEF Minus
<1>3. Minus(v, s) = (IF v >= s THEN v - s ELSE v - s + FullRange)
  BY DEF Minus
<1>4. offset \in Int /\ offset < 0 /\ -offset < Half
  BY <1>1, <1>2
<1>5. offset = IF v >= h THEN v - h - FullRange ELSE v - h
  BY <1>1, <1>2
<1>6. isWrapBack(v, h) <=> v >= h
  BY <1>1, <1>2 DEF isWrapBack
<1>7. c + h - s < Half => (Minus(v, s) > Half <=> offset < -(c + h - s))
  BY <1>1, <1>3, <1>4, <1>5
<1>8. ASSUME ~(offset < -(c + h - s))
      PROVE  IF isWrapBack(v, h) THEN c - FullRange \in Nat /\ (c - FullRange) + v = c + h + offset
             ELSE c + v = c + h + offset
  BY <1>1, <1>5, <1>6, <1>8
<1> QED BY <1>4, <1>7, <1>8

\* The count of values is told exactly, so start is passed just when it looks passed.
LEMMA BeforeStartExact ==
  ASSUME IInv, Countable, span >= 0, NEW val \in T, NEW offset,
         offset = Minus(val, highest) - FullRange, Minus(val, highest) > Half
  PROVE  BeforeStart(val) <=> offset < -span
<1>1. /\ start \in T /\ highest \in T /\ Whole(cycles) /\ span \in Int
      /\ cycles + highest - start = span /\ extendedHighest - start = span
      /\ extendedHighest \in Int /\ start \in Int
  BY Typed, InE
<1>2. TotalNum = span + 1
  <2>1. extendedHighest - start + 1 = span + 1 /\ span + 1 \in Nat /\ span + 1 <= Bound
    BY <1>1, RangesTyped DEF Countable
  <2> QED BY <2>1, InE DEF TotalNum
<1>3. /\ offset \in Int /\ -offset < Half
      /\ span < Half => (Minus(val, start) > Half <=> offset < -span)
  BY <1>1, BehindNumbers
<1>4. span + 1 <= Half <=> span < Half
  BY <1>1, RangesTyped
<1>5. ~(span < Half) => ~(offset < -span)
  BY <1>1, <1>3, RangesTyped
<1> QED BY <1>2, <1>3, <1>4, <1>5 DEF BeforeStart

\* What ValuesInPlace says of a value that lies offset positions from the highest.
InPlace(offset) ==
  LET ahead == IF offset > 0 THEN offset ELSE 0
      isEarlier == offset < -span
  IN
  /\ result'.IsUnhandled <=> isEarlier /\ ~isRestartAllowed
  /\ result'.IsRestart <=> isEarlier /\ isRestartAllowed
  /\ ~result'.IsUnhandled =>
       /\ result'.ExtendedVal - result'.PreExtendedHighest = offset
       /\ result'.ExtendedVal - extendedHighest' = offset - ahead
  /\ result'.IsRestart =>
       result'.PreExtendedStart - result'.ExtendedVal = -span - offset
  /\ ~result'.IsRestart => extendedHighest' = extendedHighest + ahead

LEMMA AdvanceInPlace ==
  ASSUME IInv, span >= 0, NEW val \in T, NEW c, Whole(c), NEW offset \in Nat,
         c + val = extendedHighest + offset, Advance(c, val, offset)
  PROVE  InPlace(offset)
<1> DEFINE x == extendedHighest
<1>1. /\ x + offset <= MaxExtended /\ x \in Nat /\ MaxExtended \in Nat /\ span \in Int
      /\ x + offset \in Nat /\ x + offset <= Bound
  BY Typed, RangesTyped DEF Advance, Bound
<1>2. c \in Nat /\ val \in Nat /\ c <= Bound
  <2>1. c \in Nat /\ val \in Nat /\ c + val <= Bound
    BY <1>1, InE DEF Whole
  <2> QED BY <2>1, RangesTyped
<1>3. extendedHighest' = x + offset
  BY <1>1, <1>2, InE DEF Advance, getExtended
<1>4. result' = Result(FALSE, FALSE, 0, x, x + offset)
  BY <1>3 DEF Advance
<1>5. Gives(result', FALSE, FALSE, 0, x, x + offset)
  <2>1. 0 \in E /\ x \in E /\ x + offset \in E
    BY <1>1, Typed, InE, RangesTyped DEF E
  <2> QED BY <1>4, <2>1, ResultTyped
<1>6. ~(offset < -span)
  BY <1>1
<1>7. /\ (x + offset) - x = offset
      /\ (x + offset) - (x + offset) = offset - (IF offset > 0 THEN offset ELSE 0)
      /\ x + offset = x + (IF offset > 0 THEN offset ELSE 0)
  BY <1>1
<1> QED BY <1>3, <1>5, <1>6, <1>7 DEF InPlace, Gives

\* A value at or after start, but behind the highest.
LEMMA LateInPlace ==
  ASSUME IInv, Countable, span >= 0, NEW val \in T, NEW offset,
         offset = Minus(val, highest) - FullRange, Minus(val, highest) > Half, Late(val)
  PROVE  InPlace(offset)
<1> DEFINE x == extendedHighest
           ev == getExtended(CyclesOf(val), val)
<1>1. /\ highest \in T /\ start \in T /\ Whole(cycles) /\ cycles \in Nat /\ x = cycles + highest
      /\ span \in Int /\ cycles + highest - start = span /\ x \in Nat /\ x <= Bound
      /\ start \in Nat /\ val \in Nat /\ highest \in Nat /\ FullRange \in Nat /\ Bound \in Nat
  BY Typed, InE, RangesTyped
<1>2. ~(offset < -span)
  BY BeforeStartExact DEF Late
<1>3. /\ offset \in Int /\ offset < 0
      /\ IF isWrapBack(val, highest)
         THEN cycles - FullRange \in Nat /\ (cycles - FullRange) + val = x + offset
         ELSE cycles + val = x + offset
  BY <1>1, <1>2, BehindNumbers
<1>4. x + offset \in Nat /\ x + offset <= Bound /\ cycles <= Bound
  BY <1>1, <1>2, <1>3
<1>5. Ext(x + offset) = x + offset /\ x + offset \in E /\ x \in E
  BY <1>1, <1>4, InE
<1>6. ev = x + offset
  <2>1. CASE isWrapBack(val, highest)
    <3>1. cycles - FullRange <= Bound
      BY <1>1, <1>4
    <3>2. CyclesOf(val) = cycles - FullRange
      BY <1>3, <2>1, <3>1, InE DEF CyclesOf
    <3> QED BY <1>3, <1>5, <2>1, <3>2 DEF getExtended
  <2>2. CASE ~isWrapBack(val, highest)
    BY <1>3, <1>5, <2>2 DEF CyclesOf, getExtended
  <2> QED BY <2>1, <2>2
<1>7. extendedHighest' = x /\ result' = Result(FALSE, FALSE, 0, x, x + offset)
  BY <1>6 DEF Late, state
<1>8. Gives(result', FALSE, FALSE, 0, x, x + offset)
  <2>1. 0 \in E
    BY RangesTyped DEF E
  <2> QED BY <1>5, <1>7, <2>1, ResultTyped
<1>9. /\ (x + offset) - x = offset /\ ~(offset > 0) /\ x + 0 = x /\ offset - 0 = offset
  BY <1>1, <1>3
<1> HIDE DEF x, ev
<1>10. extendedHighest = x
  BY DEF x
<1> QED BY <1>2, <1>7, <1>8, <1>9, <1>10 DEF InPlace, Gives

\* A value from before start, that may not replace it.
LEMMA UnhandledInPlace ==
  ASSUME IInv, Countable, span >= 0, NEW val \in T, NEW offset,
         offset = Minus(val, highest) - FullRange, Minus(val, highest) > Half, Unhandled(val)
  PROVE  InPlace(offset)
<1>1. offset < -span /\ ~isRestartAllowed
  BY BeforeStartExact DEF Unhandled
<1>2. extendedHighest' = extendedHighest /\ extendedHighest \in Nat
  BY Typed DEF Unhandled, state
<1>3. result'.IsUnhandled /\ ~result'.IsRestart
  BY DEF Unhandled, Result
<1>4. ~(offset > 0) /\ extendedHighest = extendedHighest + 0
  BY <1>2, Typed, RangesTyped DEF Minus, T
<1> QED BY <1>1, <1>2, <1>3, <1>4 DEF InPlace

\* A value from before start, that replaces it.
LEMMA RestartInPlace ==
  ASSUME IInv, Countable, span >= 0, NEW val \in T, NEW offset,
         offset = Minus(val, highest) - FullRange, Minus(val, highest) > Half,
         Restart(val, offset)
  PROVE  InPlace(offset)
<1> DEFINE back == isWrapBack(val, highest)
           pre == IF val > start THEN FullRange + start ELSE start
           top == IF back THEN FullRange + highest ELSE highest
<1>1. /\ start \in T /\ highest \in T /\ cycles \in Nat /\ Whole(cycles) /\ span \in Int
      /\ extendedHighest = cycles + highest /\ cycles + highest - start = span
      /\ val \in Nat /\ start \in Nat /\ highest \in Nat /\ FullRange \in Nat
      /\ span >= -1 /\ span < Half /\ Minus(val, start) > Half
      /\ start < FullRange /\ highest < FullRange /\ val < FullRange
  BY Typed, InE, Near, RangesTyped DEF Restart, BeforeStart, T
<1>2. offset < -span /\ isRestartAllowed
  BY BeforeStartExact DEF Restart
<1>3. /\ back => Minus(val, highest) = val - highest
      /\ ~back => cycles = 0 /\ val < highest /\ Minus(val, highest) = val - highest + FullRange
      /\ isWrapBack(val, start) => cycles = 0 /\ back
      /\ ~isWrapBack(val, start) /\ back => cycles = FullRange
      /\ val <= start => ~isWrapBack(val, start)
  BY <1>1, RestartNumbers
<1>4. top \in Nat /\ top <= Bound /\ val \in E /\ val <= Bound /\ Ext(val) = val
  BY <1>1, <1>3, InE, RangesTyped DEF Restart, Bound
<1>5. extendedHighest' = top
  BY <1>1, <1>3, <1>4, InE DEF Restart, getExtended
<1>6. getExtended(IF back THEN 0 ELSE cycles, val) = val
  BY <1>1, <1>3, <1>4 DEF getExtended
<1>7. result' = Result(FALSE, TRUE, pre, top, val)
  BY <1>5, <1>6 DEF Restart
<1>8. Gives(result', FALSE, TRUE, pre, top, val)
  <2>1. pre \in E /\ top \in E
    BY <1>1, <1>4, InE
  <2> QED BY <1>4, <1>7, <2>1, ResultTyped
<1>9. val - top = offset /\ ~(offset > 0)
  BY <1>1, <1>2, <1>3
<1>10. pre - val = -span - offset
  <2>1. isWrapBack(val, start) <=> val >= start + Half /\ start < Half
    BY <1>1, RangesTyped DEF isWrapBack, Minus
  <2>2. val - start > Half \/ val < start
    BY <1>1, RangesTyped DEF Minus
  <2>3. CASE val > start
    BY <1>1, <1>3, <2>1, <2>2, <2>3, RangesTyped
  <2>4. CASE ~(val > start)
    BY <1>1, <1>3, <2>1, <2>2, <2>4, RangesTyped
  <2> QED BY <2>3, <2>4
<1>11. offset \in Int /\ offset - 0 = offset
  BY <1>1, RangesTyped DEF Minus
<1> HIDE DEF back, pre, top
<1> QED BY <1>2, <1>5, <1>8, <1>9, <1>10, <1>11 DEF InPlace, Gives

LEMMA UpdateInPlace ==
  ASSUME IInv, Countable, initialized, span >= 0, NEW val \in T, NEW known,
         UpdateWithOrderKnown(val, known)
  PROVE  InPlace(Offset(val, known))
<1> DEFINE gap == Minus(val, highest)
           offset == Offset(val, known)
<1>1. highest \in T /\ val \in Int /\ highest \in Int /\ cycles \in Nat /\ Whole(cycles)
      /\ extendedHighest = cycles + highest /\ FullRange \in Nat
  BY Typed, InE, RangesTyped
<1>2. gap = (IF val >= highest THEN val - highest ELSE val - highest + FullRange)
      /\ gap \in Nat /\ gap < FullRange
  BY <1>1, RangesTyped DEF Minus, T
<1>3. offset = (IF known \/ gap <= Half THEN gap ELSE gap - FullRange)
  BY DEF Offset
<1> HIDE DEF gap
<1>4. CASE offset >= 0 /\ Advance(CyclesUpTo(val), val, offset)
  <2>1. offset = gap /\ offset \in Nat
    BY <1>2, <1>3, <1>4, RangesTyped
  <2>2. Whole(CyclesUpTo(val))
    BY <1>1, MoreCycles DEF CyclesUpTo
  <2>3. CyclesUpTo(val) + val = extendedHighest + offset
    BY <1>1, <1>2, <2>1 DEF CyclesUpTo
  <2> HIDE DEF offset
  <2>4. InPlace(offset)
    BY <1>4, <2>1, <2>2, <2>3, AdvanceInPlace
  <2> QED BY <2>4 DEF offset
<1>5. CASE offset < 0 /\ (Late(val) \/ Restart(val, offset) \/ Unhandled(val))
  <2>1. offset = Minus(val, highest) - FullRange /\ Minus(val, highest) > Half
    BY <1>2, <1>3, <1>5, RangesTyped DEF gap
  <2> HIDE DEF offset
  <2>2. InPlace(offset)
    BY <1>5, <2>1, LateInPlace, RestartInPlace, UnhandledInPlace
  <2> QED BY <2>2 DEF offset
<1> QED BY <1>4, <1>5 DEF UpdateWithOrderKnown

\* Each value is placed exactly, before and after wraps, restarts and undos: the
\* numbers an update returns differ from the highest by how far the value lies from
\* it, and start is replaced just when the value precedes it (lines 83-132, 217-243).
THEOREM UpdatesAreExact == Spec => ValuesInPlace
<1>1. IInv /\ Countable /\ [Next]_vars
      => [\A val \in T :
            initialized /\ span >= 0 /\ Update(val) => InPlace(Offset(val, FALSE))]_vars
  BY UpdateInPlace, Zenon DEF Update
<1>2. [\A val \in T :
            initialized /\ span >= 0 /\ Update(val) => InPlace(Offset(val, FALSE))]_vars
      => [\A val \in T :
       initialized /\ span >= 0 /\ Update(val) =>
         LET offset == Offset(val, FALSE)
             ahead == IF offset > 0 THEN offset ELSE 0
             isEarlier == offset < -span
         IN
         /\ result'.IsUnhandled <=> isEarlier /\ ~isRestartAllowed
         /\ result'.IsRestart <=> isEarlier /\ isRestartAllowed
         /\ ~result'.IsUnhandled =>
              /\ result'.ExtendedVal - result'.PreExtendedHighest = offset
              /\ result'.ExtendedVal - extendedHighest' = offset - ahead
         /\ result'.IsRestart =>
              result'.PreExtendedStart - result'.ExtendedVal = -span - offset
         /\ ~result'.IsRestart => extendedHighest' = extendedHighest + ahead]_vars
  BY Zenon DEF InPlace
<1> QED BY <1>1, <1>2, CountableHolds, PTL DEF Spec, ValuesInPlace
=============================================================================
