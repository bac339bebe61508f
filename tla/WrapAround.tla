----------------------------- MODULE WrapAround ------------------------------
(***************************************************************************)
(* pkg/utils/wraparound.go: a counter of T (uint16, uint32) is unrolled    *)
(* into the wider type ET.  Callers feed it values that may repeat, arrive *)
(* late or precede the first one seen, and may take the last one back.     *)
(*                                                                         *)
(* A value stands for a position in a stream without end, and the          *)
(* definition offset gives how far it lies from the highest position, as   *)
(* the caller means it.  The history variables span and before count       *)
(* positions: highest minus start now, and before the last update.         *)
(***************************************************************************)
EXTENDS Integers

CONSTANTS
  FullRange,        \* number of values of T, 2^16 or 2^32 in the code
  ERange,           \* number of values of ET, 2^32 or 2^64
  MaxExtended,      \* bound: extended numbers stay below it, so ET never overflows
  MaxCycles         \* bound: the largest numCycles given to Rollover

ASSUME RangesAssumption ==
  /\ FullRange \in Nat /\ FullRange >= 4 /\ FullRange = 2 * (FullRange \div 2)
  /\ ERange \in Nat /\ MaxExtended \in Nat /\ MaxCycles \in Nat
  /\ MaxExtended + FullRange < ERange /\ 2 * FullRange <= ERange

VARIABLES isRestartAllowed,   \* a parameter of the tracker, set once
          initialized, start, highest, cycles, extendedHighest,
          result,   \* what the last update returned, until it is taken back
          span, before

state == <<isRestartAllowed, initialized, start, highest, cycles, extendedHighest>>
vars == <<isRestartAllowed, initialized, start, highest, cycles, extendedHighest, result, span, before>>

-----------------------------------------------------------------------------
T == 0 .. FullRange - 1
Half == FullRange \div 2

\* a - b in T; x in ET.
Minus(a, b) == IF a >= b THEN a - b ELSE a - b + FullRange
Ext(x) == x % ERange

\* T(ev), and what is left of ev without it.
Low(ev) == ev % FullRange
High(ev) == ev - Low(ev)

getExtended(c, val) == Ext(c + val)

\* Mutant: where the later value lies is not looked at.
MutWrapBack(earlier, later) == earlier >= Half

isWrapBack(earlier, later) == later < Half /\ earlier >= Half

Result(unhandled, restart, preStart, preHighest, val) ==
  [IsUnhandled |-> unhandled, IsRestart |-> restart, PreExtendedStart |-> preStart,
   PreExtendedHighest |-> preHighest, ExtendedVal |-> val]

NoResult == Result(TRUE, FALSE, 0, 0, 0)

Init ==
  /\ isRestartAllowed \in BOOLEAN
  /\ initialized = FALSE
  /\ start = 0 /\ highest = 0 /\ cycles = 0 /\ extendedHighest = 0
  /\ result = NoResult
  /\ span = 0 /\ before = 0

-----------------------------------------------------------------------------
\* The first value: nothing was expected before it.
First(val) ==
  /\ initialized' = TRUE
  /\ start' = val /\ highest' = val
  /\ cycles' = cycles
  /\ extendedHighest' = getExtended(cycles, val)
  /\ result' = Result(FALSE, FALSE, 0, Ext(val - 1), val)
  /\ span' = 0 /\ before' = -1
  /\ UNCHANGED isRestartAllowed

\* Mutant: the value after the last one of a cycle starts no new cycle.
MutCyclesUpTo(val) == IF val = 0 THEN cycles ELSE IF val < highest THEN cycles + FullRange ELSE cycles

CyclesUpTo(val) == IF val < highest THEN cycles + FullRange ELSE cycles

\* The value lies offset positions ahead of the highest, or repeats it.
Advance(c, val, offset) ==
  /\ extendedHighest + offset <= MaxExtended
  /\ cycles' = Ext(c)
  /\ highest' = val
  /\ extendedHighest' = getExtended(cycles', val)
  /\ result' = Result(FALSE, FALSE, 0, extendedHighest, extendedHighest')
  /\ span' = span + offset /\ before' = span
  /\ UNCHANGED <<isRestartAllowed, initialized, start>>

\* How many values were seen since start; no start is looked for beyond half the range.
TotalNum == Ext(extendedHighest - start + 1)

CyclesOf(val) == IF isWrapBack(val, highest) THEN Ext(cycles - FullRange) ELSE cycles

BeforeStart(val) == TotalNum <= Half /\ Minus(val, start) > Half

\* A late value, at or after start.
Late(val) ==
  /\ ~BeforeStart(val)
  /\ result' = Result(FALSE, FALSE, 0, extendedHighest, getExtended(CyclesOf(val), val))
  /\ before' = span
  /\ UNCHANGED <<state, span>>

\* A value from before start: the new start, and, when it lies in the cycle
\* before, a new numbering that begins in that cycle.
Restart(val, offset) ==
  /\ BeforeStart(val) /\ isRestartAllowed
  /\ extendedHighest <= MaxExtended
  /\ cycles' = IF isWrapBack(val, highest) THEN FullRange ELSE cycles
  /\ extendedHighest' = getExtended(cycles', highest)
  /\ start' = val
  /\ result' = Result(FALSE, TRUE, IF val > start THEN FullRange + start ELSE start,
                      extendedHighest',
                      getExtended(IF isWrapBack(val, highest) THEN 0 ELSE cycles, val))
  /\ span' = -offset /\ before' = span
  /\ UNCHANGED <<isRestartAllowed, initialized, highest>>

Unhandled(val) ==
  /\ BeforeStart(val) /\ ~isRestartAllowed
  /\ result' = Result(TRUE, FALSE, 0, extendedHighest, getExtended(cycles, val))
  /\ before' = span
  /\ UNCHANGED <<state, span>>

\* A value is taken to lie at most half the range ahead, else behind.
Offset(val, orderKnown) ==
  LET gap == Minus(val, highest)
  IN  IF orderKnown \/ gap <= Half THEN gap ELSE gap - FullRange

UpdateWithOrderKnown(val, orderKnown) ==
  LET offset == Offset(val, orderKnown) IN
  \/ ~initialized /\ First(val)
  \/ initialized /\ offset >= 0 /\ Advance(CyclesUpTo(val), val, offset)
  \/ initialized /\ offset < 0 /\ (Late(val) \/ Restart(val, offset) \/ Unhandled(val))

Update(val) == UpdateWithOrderKnown(val, FALSE)

\* The caller knows that numCycles ends of a cycle were passed.  Nothing stops it from
\* naming a value behind the highest.
Rollover(val, numCycles) ==
  LET offset == numCycles * FullRange + val - highest IN
  \/ (numCycles < 0 \/ ~initialized) /\ Update(val)
  \/ /\ numCycles >= 0 /\ initialized
     /\ Advance(cycles + numCycles * FullRange, val, offset)

-----------------------------------------------------------------------------
(* Taking back.                                                            *)

\* Mutant: the cycle of the old highest is not restored.
MutResetTo(ev) ==
  /\ highest' = Low(ev)
  /\ UNCHANGED cycles
  /\ extendedHighest' = getExtended(cycles, Low(ev))

ResetTo(ev) ==
  /\ highest' = Low(ev)
  /\ cycles' = High(ev)
  /\ extendedHighest' = getExtended(High(ev), Low(ev))

\* The caller hands back the result of the update it takes back.
UndoUpdate ==
  /\ result # NoResult
  /\ result' = NoResult
  /\ UNCHANGED <<isRestartAllowed, initialized, start, before>>
  /\ LET nothing == ~initialized \/ result.IsUnhandled
                    \/ result.PreExtendedHighest >= result.ExtendedVal
     IN  \/ nothing /\ UNCHANGED <<highest, cycles, extendedHighest, span>>
         \/ ~nothing /\ ResetTo(result.PreExtendedHighest) /\ span' = before

\* The caller hands back the start that a restart replaced.
RollbackRestart ==
  LET ev == result.PreExtendedStart IN
  /\ result.IsRestart
  /\ cycles' = IF isWrapBack(start, Low(ev)) THEN Ext(cycles - FullRange) ELSE cycles
  /\ extendedHighest' = getExtended(cycles', highest)
  /\ start' = Low(ev)
  /\ result' = NoResult
  /\ span' = before
  /\ UNCHANGED <<isRestartAllowed, initialized, highest, before>>

\* Any earlier highest, as an extended number.
ResetHighest(ev) ==
  /\ initialized
  /\ start <= ev /\ ev <= extendedHighest
  /\ ResetTo(ev)
  /\ result' = NoResult
  /\ span' = span - (extendedHighest - ev)
  /\ UNCHANGED <<isRestartAllowed, initialized, start, before>>

\* A new tracker takes over from this one; extendedHighest is computed afresh.
Seed ==
  /\ extendedHighest' = getExtended(cycles, highest)
  /\ UNCHANGED <<isRestartAllowed, initialized, start, highest, cycles, result, span, before>>

Next ==
  \/ \E val \in T : Update(val) \/ UpdateWithOrderKnown(val, TRUE)
  \/ \E val \in T, n \in -1 .. MaxCycles : Rollover(val, n)
  \/ UndoUpdate
  \/ RollbackRestart
  \/ Seed
  \/ \E ev \in 0 .. MaxExtended + FullRange : ResetHighest(ev)

Spec == Init /\ [][Next]_vars

-----------------------------------------------------------------------------
(* Correctness.                                                            *)

E == 0 .. ERange - 1

TypeOK ==
  /\ isRestartAllowed \in BOOLEAN
  /\ initialized \in BOOLEAN
  /\ start \in T /\ highest \in T
  /\ cycles \in E /\ extendedHighest \in E
  /\ result \in [IsUnhandled : BOOLEAN, IsRestart : BOOLEAN, PreExtendedStart : E,
                 PreExtendedHighest : E, ExtendedVal : E]
  /\ span \in Int /\ before \in Int

\* Types, and: the extended highest and start are as far apart as the positions they stand
\* for, through wraps, restarts, renumbering, undos and rollbacks: the number of
\* values a caller expects, extendedHighest - start + 1, is the true one.
SpanExact == TypeOK /\ extendedHighest - start = span

\* Whatever an update returns is exact relative to the highest before and after
\* it, and the start is replaced just when the value lies before it (unless the
\* highest was moved behind start, by an undo of the first value or a rollover).
ValuesInPlace ==
  [][\A val \in T :
       initialized /\ span >= 0 /\ Update(val) =>
         LET offset == Offset(val, FALSE)
             ahead == IF offset > 0 THEN offset ELSE 0
             isEarlier == offset < -span
         IN
         /\ result'.IsUnhandled <=> isEarlier /\ ~isRestartAllowed
         /\ result'.IsRestart <=> isEarlier /\ isRestartAllowed
         /\ ~result'.IsUnhandled =>
              /\ result'.ExtendedVal - result'.PreExtendedHighest = offset
              /\ result'.ExtendedVal - extendedHighest' = offset - ahead
         /\ result'.IsRestart =>
              result'.PreExtendedStart - result'.ExtendedVal = -span - offset
         /\ ~result'.IsRestart => extendedHighest' = extendedHighest + ahead]_vars

\* Taking an update back restores the numbering before it, but for a start that
\* stays (UndoUpdate), a rollover to a lower value, and a first value 0, whose
\* predecessor ET cannot hold.
UndoRestores ==
  [][/\ UndoUpdate /\ ~result.IsRestart /\ span >= before
     /\ ~(before = -1 /\ result.ExtendedVal = 0)
     => extendedHighest' - start' = before]_vars
=============================================================================
