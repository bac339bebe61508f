------------------------------ MODULE NackQueue ------------------------------
(***************************************************************************)
(* pkg/nack/nack.go: the queue of lost sequence numbers that a receiver    *)
(* asks its sender for.  A time is kept as the time that has passed since  *)
(* it: age for bornAt, idle for lastNackedAt.  Both are capped where       *)
(* getNack no longer tells larger values apart.  nackQueueSafe holds its   *)
(* lock for the whole of every operation, so an operation is one step.     *)
(***************************************************************************)
EXTENDS Integers, Sequences, FiniteSets

CONSTANTS
  SNRange,      \* number of sequence numbers, 2^16 in the code
  Width,        \* bits of a NackPair's LostPackets, 16 in the code
  DefaultRtt, MaxNacks, MaxTries, MinInterval, MaxInterval, MaxLifetime,
  Rtts,         \* round-trip times: what SetRTT is given and what it derives
  RttInputs,    \* those SetRTT is given
  Backoff,      \* Backoff[rtt][tries]: rtt * BackoffFactor^(tries - 1)
  RangeCounts,  \* the counts PushRange is given
  PushesForward,\* which numbers are pushed, see MayPush
  ClockMoves    \* whether the clock may advance between two entries of Pairs

ASSUME ParamsAssumption ==
  /\ SNRange \in Nat /\ Width \in Nat /\ 2 * (Width + 1) <= SNRange
  /\ {MaxNacks, MaxTries} \subseteq Nat \ {0}
  /\ {MinInterval, MaxInterval, MaxLifetime} \subseteq Nat
  /\ RangeCounts \subseteq Nat
ASSUME RttAssumption ==
  /\ Rtts \subseteq Nat /\ DefaultRtt \in Rtts /\ RttInputs \subseteq Rtts \cup {0}
  /\ \A r \in RttInputs \ {0}, old \in Rtts : (3 * r + old) \div 4 \in Rtts
  /\ Backoff \in [Rtts -> [1 .. MaxTries -> Nat]]
ASSUME CallerAssumption ==
  PushesForward \in BOOLEAN /\ ClockMoves \in BOOLEAN

VARIABLES nacks, rtt,
          ret,    \* what Pairs returned
          quiet   \* history: time since each number was last pushed or in a NACK

vars == <<nacks, rtt, ret, quiet>>

-----------------------------------------------------------------------------
SN == 0 .. SNRange - 1
Plus(a, b) == (a + b) % SNRange
Minus(a, b) == (a - b) % SNRange

IdleCap == IF MaxInterval > MinInterval THEN MaxInterval ELSE MinInterval
AgeCap == MaxLifetime + 1
Older(t, cap) == IF t < cap THEN t + 1 ELSE t

\* Mutant: a new entry carries no time of a last try, so its first one is due at once.
MutnewNack(sn) == [seqNum |-> sn, tries |-> 0, age |-> 0, idle |-> MinInterval]

newNack(sn) == [seqNum |-> sn, tries |-> 0, age |-> 0, idle |-> 0]

Nothing == [pairs |-> <<>>, count |-> 0]

Restarted(f, sns) == [sn \in SN |-> IF sn \in sns THEN 0 ELSE f[sn]]

Init ==
  /\ nacks = <<>>
  /\ rtt = DefaultRtt
  /\ ret = Nothing
  /\ quiet = [sn \in SN |-> MinInterval]

-----------------------------------------------------------------------------
\* Three quarters of the new value and one quarter of the old, truncated.
SetRTT(r) ==
  /\ rtt' = IF r = 0 THEN DefaultRtt ELSE IF rtt = 0 THEN r ELSE (3 * r + rtt) \div 4
  /\ ret' = Nothing
  /\ UNCHANGED <<nacks, quiet>>

Without(q, i) == SubSeq(q, 1, i - 1) \o SubSeq(q, i + 1, Len(q))

Places(q, sn) == { i \in 1 .. Len(q) : q[i].seqNum = sn }
FirstPlace(q, sn) == CHOOSE i \in Places(q, sn) : \A j \in Places(q, sn) : i <= j

\* Mutant: the last entry for sn goes.
MutLastPlace(q, sn) ==
  IF Places(q, sn) = {} THEN q
  ELSE Without(q, CHOOSE i \in Places(q, sn) : \A j \in Places(q, sn) : i >= j)

\* The loop stops at the first entry for sn.
Removed(q, sn) == IF Places(q, sn) = {} THEN q ELSE Without(q, FirstPlace(q, sn))

Remove(sn) ==
  /\ nacks' = Removed(nacks, sn)
  /\ ret' = Nothing
  /\ UNCHANGED <<rtt, quiet>>

\* Mutant: a full queue puts the new entry in the place of its first.
MutPushedInPlace(q, sn) ==
  IF Len(q) = MaxNacks THEN [q EXCEPT ![1] = newNack(sn)] ELSE Append(q, newNack(sn))

\* A full queue loses its first entry.
Pushed(q, sn) == Append(IF Len(q) = MaxNacks THEN Tail(q) ELSE q, newNack(sn))

\* What the caller pushes: numbers that lie ahead of everything queued, as the
\* gaps of one stream do; or anything.
MayPush(q, sn) ==
  PushesForward =>
    \A i \in 1 .. Len(q) : Minus(sn, q[i].seqNum) \in 1 .. (SNRange \div 2) - 1

Push(sn) ==
  /\ MayPush(nacks, sn)
  /\ nacks' = Pushed(nacks, sn)
  /\ quiet' = Restarted(quiet, {sn})
  /\ ret' = Nothing
  /\ UNCHANGED rtt

\* As many of the count numbers as a queue holds.
Kept(count) == IF count < MaxNacks THEN count ELSE MaxNacks

\* The queue after n of the count numbers before end were pushed.
PushedRange(end, count) ==
  LET kept == Kept(count)
      q[n \in 0 .. kept] ==
        IF n = 0 THEN nacks ELSE Pushed(q[n - 1], Minus(end, kept - n + 1))
  IN  q[kept]

PushRange(end, count) ==
  /\ \A n \in 1 .. count : n <= MaxNacks => MayPush(nacks, Minus(end, n))
  /\ nacks' = PushedRange(end, count)
  /\ quiet' = Restarted(quiet, { Minus(end, n) : n \in 1 .. Kept(count) })
  /\ ret' = Nothing
  /\ UNCHANGED rtt

-----------------------------------------------------------------------------
(* Pairs.  now is read before the loop, but getNack compares bornAt with a *)
(* clock of its own: the entries from moved on may see it a tick later.    *)

Expired(e, late) == e.tries >= MaxTries \/ e.age + late > MaxLifetime

Late(i, moved) == IF i >= moved THEN 1 ELSE 0

RequiredInterval(e) ==
  LET backedOff ==
        IF e.tries = 0 THEN 0
        ELSE IF Backoff[rtt][e.tries] < MaxInterval THEN Backoff[rtt][e.tries]
        ELSE MaxInterval
  IN  IF backedOff < MinInterval THEN MinInterval ELSE backedOff

Sends(e, late) == ~Expired(e, late) /\ e.idle >= RequiredInterval(e)

getNack(e, late) ==
  IF Sends(e, late) THEN [e EXCEPT !.tries = @ + 1, !.idle = 0] ELSE e

Visited(moved) == [i \in 1 .. Len(nacks) |-> getNack(nacks[i], Late(i, moved))]

\* Mutant: expired entries stay.
MutPurged(moved) == Visited(moved)

\* Every expired entry takes one entry of its number out.
Purged(moved) ==
  LET q[i \in 0 .. Len(nacks)] ==
        IF i = 0 THEN Visited(moved)
        ELSE IF Expired(nacks[i], Late(i, moved)) THEN Removed(q[i - 1], nacks[i].seqNum)
        ELSE q[i - 1]
  IN  q[Len(nacks)]

\* Mutant: the first base lies too close for the first number to open a pair.
MutFirstBase == Minus(nacks[1].seqNum, Width)

FirstBase == Minus(nacks[1].seqNum, Width + 1)

NewPair(sn) == [id |-> sn, lost |-> {}]

\* A shift beyond the width leaves no bit.
Bit(d) == IF d < Width THEN {d} ELSE {}

\* One more number for the pairs: it opens a pair, or is a bit of the last one.
AddToPairs(p, sn) ==
  IF Minus(sn, p.base) > Width
  THEN [base |-> sn, active |-> TRUE, np |-> NewPair(sn),
        nps |-> IF p.active THEN Append(p.nps, p.np) ELSE p.nps]
  ELSE [p EXCEPT !.np.lost = @ \cup Bit(Minus(Minus(sn, p.base), 1))]

PairsOf(moved) ==
  LET p[i \in 0 .. Len(nacks)] ==
        IF i = 0
        THEN [base |-> FirstBase, active |-> FALSE, np |-> NewPair(0), nps |-> <<>>]
        ELSE IF Sends(nacks[i], Late(i, moved)) THEN AddToPairs(p[i - 1], nacks[i].seqNum)
        ELSE p[i - 1]
      last == p[Len(nacks)]
  IN  IF last.active THEN Append(last.nps, last.np) ELSE last.nps

Numbers(q) == { q[i].seqNum : i \in 1 .. Len(q) }
Decoded(pairs) ==
  UNION { {p.id} \cup { Plus(p.id, d + 1) : d \in p.lost } :
          p \in { pairs[i] : i \in 1 .. Len(pairs) } }

Tick(e) == [e EXCEPT !.age = Older(@, AgeCap), !.idle = Older(@, IdleCap)]
Ticked(q) == [i \in 1 .. Len(q) |-> Tick(q[i])]

TickQuiet(f) == [sn \in SN |-> Older(f[sn], MinInterval)]

Pairs ==
  \/ nacks = <<>> /\ ret' = Nothing /\ UNCHANGED <<nacks, rtt, quiet>>
  \/ /\ nacks # <<>>
     /\ \E moved \in 1 .. Len(nacks) + 1 :
          LET ticks == moved <= Len(nacks)
              asked == Restarted(quiet, Decoded(PairsOf(moved)))
          IN
          /\ ticks => ClockMoves
          /\ nacks' = IF ticks THEN Ticked(Purged(moved)) ELSE Purged(moved)
          /\ quiet' = IF ticks THEN TickQuiet(asked) ELSE asked
          /\ ret' = [pairs |-> PairsOf(moved),
                     count |-> Cardinality({ i \in 1 .. Len(nacks) :
                                               Sends(nacks[i], Late(i, moved)) })]
     /\ UNCHANGED rtt

Elapse ==
  /\ nacks' = Ticked(nacks)
  /\ quiet' = TickQuiet(quiet)
  /\ ret' = Nothing
  /\ UNCHANGED rtt

Pushes == \/ \E sn \in SN : Push(sn)
          \/ \E end \in SN, count \in RangeCounts : PushRange(end, count)

Next ==
  \/ Pushes
  \/ \E sn \in SN : Remove(sn)
  \/ \E r \in RttInputs : SetRTT(r)
  \/ Pairs
  \/ Elapse

Spec == Init /\ [][Next]_vars

\* The owner of the queue calls Pairs again and again, and time passes.
FairSpec == Spec /\ WF_vars(Pairs) /\ WF_vars(Elapse)

-----------------------------------------------------------------------------
(* Correctness.                                                            *)

Entries ==
  [seqNum : SN, tries : 0 .. MaxTries, age : 0 .. AgeCap, idle : 0 .. IdleCap]

\* Types: the queue never outgrows the capacity it was made with, and no entry
\* is tried more often than MaxTries.
TypeOK ==
  /\ nacks \in Seq(Entries) /\ Len(nacks) <= MaxNacks
  /\ rtt \in Rtts
  /\ quiet \in [SN -> 0 .. MinInterval]
  /\ ret.count \in 0 .. MaxNacks

\* With a clock that stands still during a call, the queue is ordered by what
\* makes an entry expire: tries, then time since the last try, and age.
QueueByAge ==
  ~ClockMoves =>
    \A i, j \in 1 .. Len(nacks) : i < j =>
      /\ nacks[i].age >= nacks[j].age
      /\ \/ nacks[i].tries > nacks[j].tries
         \/ nacks[i].tries = nacks[j].tries /\ nacks[i].idle >= nacks[j].idle

\* With a clock that stands still during a call, Pairs, which purges by number, the
\* first entry of it like Remove, takes out exactly the entries that expired, which
\* are the first ones of the queue, even when a number is queued twice.
PurgesTheExpired ==
  [][Pairs /\ ~ClockMoves =>
       \E gone \in 0 .. Len(nacks) :
         /\ \A i \in 1 .. Len(nacks) : Expired(nacks[i], 0) <=> i <= gone
         /\ Len(nacks') = Len(nacks) - gone
         /\ \A i \in 1 .. Len(nacks) - gone :
              /\ nacks'[i].seqNum = nacks[gone + i].seqNum
              /\ nacks'[i].age = nacks[gone + i].age
              /\ nacks'[i].tries >= nacks[gone + i].tries]_vars

\* A number is not asked for before MinInterval has passed since it was last asked
\* for, and not before MinInterval has passed since it was pushed either: not the
\* first time after a push (lines 29, 265-274, 293-297), whatever happened to its
\* entries in between.
NackSpacing ==
  [][\A sn \in Decoded(ret'.pairs) : quiet[sn] >= MinInterval]_vars

\* The pairs name exactly the numbers whose try was counted (lines 141-182):
\* none is lost in the bitmaps and none is asked for that was not due.
PairsNameAllSent ==
  [][LET sent == { sn \in Numbers(nacks) :
                     \E i \in 1 .. Len(nacks), j \in 1 .. Len(nacks') :
                       /\ nacks[i].seqNum = sn /\ nacks'[j].seqNum = sn
                       /\ nacks'[j].tries > nacks[i].tries }
     IN  Pairs => /\ Decoded(ret'.pairs) = sent
                  /\ ret'.count = Cardinality(sent)]_vars

\* When pushing stops the queue drains: every entry is answered, tried often
\* enough, or too old.
Drains == <>[][~Pushes]_vars => <>[](nacks = <<>>)
=============================================================================
