------------------------------- MODULE Bucket -------------------------------
(***************************************************************************)
(* pkg/bucket/bucket.go: a ring of slots that caches the newest packets of *)
(* one RTP stream.  slots[i] is the buffer behind slot i; mem[b] is what   *)
(* buffer b holds.  Buffers are told apart because Grow moves them between *)
(* slots and because callers keep slices into them.                        *)
(***************************************************************************)
EXTENDS Integers

CONSTANTS
  Range,        \* number of values of ET, 2^w
  TRange,       \* number of values of T, the width in the packet header
  InitCapacity, \* capacity given to NewBucket
  MaxCapacity,  \* bound: the largest capacity Grow is called up to
  MaxPktSize,   \* maxPktSize given to NewBucket
  Packets,      \* packets a caller can offer
  SizeOf,       \* their lengths
  NoPacket

PktSizeLimit == 256 * 1024

ASSUME RangeAssumption ==
  /\ Range \in Nat /\ Range >= 4 /\ Range = 2 * (Range \div 2)
  /\ TRange \in Nat \ {0}
ASSUME CapacityAssumption == InitCapacity \in Nat \ {0} /\ MaxCapacity \in Nat
ASSUME PacketAssumption ==
  /\ NoPacket \notin Packets
  /\ SizeOf \in [Packets -> Nat]
  /\ MaxPktSize \in 1 .. PktSizeLimit

VARIABLES init, resyncOnNextPacket, step, headSN, maxSteps, slots, mem, ret

vars == <<init, resyncOnNextPacket, step, headSN, maxSteps, slots, mem, ret>>

-----------------------------------------------------------------------------
(* Sequence numbers and the size field of a slot.                          *)

SN == 0 .. Range - 1
HalfRange == Range \div 2

\* a - b in the unsigned type ET.
Minus(a, b) == IF a >= b THEN a - b ELSE a - b + Range

\* T(sn): the bits of an extended number that the packet header keeps.
Low(sn) == sn % TRange

\* The size field is as narrow as maxPktSize allows; all ones is "no packet".
PktSizeHeader == IF MaxPktSize < 256 THEN 1 ELSE IF MaxPktSize < 65536 THEN 2 ELSE 4
InvalidPktSize ==
  IF MaxPktSize < 256 THEN 255 ELSE IF MaxPktSize < 65536 THEN 65535 ELSE 65536 * 65536 - 1

PutSize(n) == n % (InvalidPktSize + 1)

MaxStored == MaxPktSize - PktSizeHeader

\* Mutant: the limit forgets the size header.
MutTooLarge(pkt) == SizeOf[pkt] > MaxPktSize

TooLarge(pkt) == SizeOf[pkt] > MaxStored

(* A buffer: the size field, the packet bytes, the header's sequence       *)
(* number, and (history, not in the code) the extended number it was       *)
(* stored for.  Invalidation only overwrites the size field; the bytes     *)
(* behind an invalid size are never read, so an invalid buffer is Empty.   *)
Empty == [size |-> InvalidPktSize, pkt |-> NoPacket, sn |-> 0, esn |-> 0]

Entry(pkt, sn) == [size |-> PutSize(SizeOf[pkt]), pkt |-> pkt, sn |-> Low(sn), esn |-> sn]

Contents ==
  {Empty} \cup { Entry(pkt, sn) : pkt \in { p \in Packets : ~TooLarge(p) }, sn \in SN }

Valid(m, b) == m[b].size # InvalidPktSize

-----------------------------------------------------------------------------
(* The ring.                                                               *)

\* wrap: the loops add or subtract maxSteps until the index is a slot.
Wrap(x) == x % maxSteps

\* The slot of the packet a numbers behind headSN.
SlotAt(a) == Wrap(step - a - 1)

\* The memory after the size fields of n slots from start are invalidated.
Invalidate(m, start, n) ==
  LET hit == { slots[Wrap(start + i)] : i \in 0 .. (IF n > maxSteps THEN maxSteps ELSE n) - 1 }
  IN  [b \in DOMAIN m |-> IF b \in hit THEN Empty ELSE m[b]]

\* store: size, bytes, and the overwritten sequence number.
Store(m, idx, pkt, sn) == [m EXCEPT ![slots[idx]] = Entry(pkt, sn)]

-----------------------------------------------------------------------------
Init ==
  /\ init = FALSE
  /\ resyncOnNextPacket = FALSE
  /\ step = 0
  /\ headSN = 0
  /\ maxSteps = InitCapacity
  /\ slots = [i \in 0 .. InitCapacity - 1 |-> i]
  /\ mem = [b \in 0 .. InitCapacity - 1 |-> Empty]
  /\ ret = "none"

\* Lines 144-154: the first packet, or a pending resync, rebases headSN.
HeadFor(sn) == IF ~init \/ resyncOnNextPacket THEN Minus(sn, 1) ELSE headSN
MemFor == IF resyncOnNextPacket THEN Invalidate(mem, 0, maxSteps) ELSE mem

\* Mutants: push that forgets the gap; push that leaves step unwrapped.
MutPushKeepsGap(pkt, sn, gap) ==
  /\ headSN' = sn
  /\ mem' = Store(MemFor, Wrap(step + gap), pkt, sn)
  /\ step' = Wrap(step + gap + 1)
  /\ ret' = "ok"

MutPushNoWrap(pkt, sn, gap) ==
  /\ headSN' = sn
  /\ mem' = Store(Invalidate(MemFor, step, gap), Wrap(step + gap), pkt, sn)
  /\ step' = Wrap(step + gap) + 1
  /\ ret' = "ok"

Push(pkt, sn, gap) ==
  /\ headSN' = sn
  /\ mem' = Store(Invalidate(MemFor, step, gap), Wrap(step + gap), pkt, sn)
  /\ step' = Wrap(step + gap + 1)
  /\ ret' = "ok"

\* Mutant: set overwrites what it finds.
MutSetOverwrites(pkt, sn, age) ==
  /\ headSN' = HeadFor(sn)
  /\ UNCHANGED step
  /\ mem' = IF age < maxSteps THEN Store(MemFor, SlotAt(age), pkt, sn) ELSE MemFor
  /\ ret' = IF age < maxSteps THEN "ok" ELSE "tooOld"

SetOld(pkt, sn, age) ==
  LET idx == SlotAt(age)
      old == MemFor[slots[idx]]
  IN
  /\ headSN' = HeadFor(sn)
  /\ UNCHANGED step
  /\ \/ /\ age >= maxSteps
        /\ mem' = MemFor
        /\ ret' = "tooOld"
     \/ /\ age < maxSteps /\ Valid(MemFor, slots[idx])
        /\ mem' = MemFor
        /\ ret' = IF old.size # SizeOf[pkt] THEN "rtxSize"
                  ELSE IF old.sn = Low(sn) THEN "rtx" ELSE "mismatch"
     \/ /\ age < maxSteps /\ ~Valid(MemFor, slots[idx])
        /\ mem' = Store(MemFor, idx, pkt, sn)
        /\ ret' = "ok"

Reject(pkt) ==
  /\ TooLarge(pkt)
  /\ ret' = "tooLarge"
  /\ UNCHANGED <<init, resyncOnNextPacket, step, headSN, maxSteps, slots, mem>>

\* The difference is a newer number when it is in the lower half of ET.
IsNewer(diff) == ~(diff = 0 \/ diff > HalfRange)

addPacket(pkt, sn) ==
  LET diff == Minus(sn, HeadFor(sn)) IN
  /\ ~TooLarge(pkt)
  /\ init' = TRUE
  /\ resyncOnNextPacket' = FALSE
  /\ \/ IsNewer(diff) /\ Push(pkt, sn, diff - 1)
     \/ ~IsNewer(diff) /\ SetOld(pkt, sn, Minus(HeadFor(sn), sn))
  /\ UNCHANGED <<maxSteps, slots>>

\* AddPacket reads sn from the packet header, so it is a value of T.
AddPacket(pkt, sn) == sn < TRange /\ (Reject(pkt) \/ addPacket(pkt, sn))

AddPacketWithSequenceNumber(pkt, sn) == Reject(pkt) \/ addPacket(pkt, sn)

ResyncOnNextPacket ==
  /\ resyncOnNextPacket' = TRUE
  /\ ret' = "none"
  /\ UNCHANGED <<init, step, headSN, maxSteps, slots, mem>>

-----------------------------------------------------------------------------
(* Grow: InitCapacity new slots are appended, then the valid slots at or   *)
(* after step, highest first, are swapped up by InitCapacity.              *)

Appended ==
  [i \in 0 .. maxSteps + InitCapacity - 1 |-> IF i < maxSteps THEN slots[i] ELSE i]

\* Mutant: the slice header is copied up instead of swapped.
MutSwapCopies(s, i, j) == [s EXCEPT ![j] = s[i]]

Swap(s, i, j) == [s EXCEPT ![i] = s[j], ![j] = s[i]]

\* The slots after the loop body ran for i and everything above it.
SwappedFrom[i \in step .. maxSteps] ==
  IF i = maxSteps THEN Appended
  ELSE IF Valid(mem, slots[i]) THEN Swap(SwappedFrom[i + 1], i, i + InitCapacity)
  ELSE SwappedFrom[i + 1]

\* Mutant: Grow that only appends.
MutGrownAppendOnly == Appended

GrownSlots == SwappedFrom[step]

Grow ==
  /\ maxSteps + InitCapacity <= MaxCapacity
  /\ slots' = GrownSlots
  /\ mem' = [b \in 0 .. maxSteps + InitCapacity - 1 |->
               IF b < maxSteps THEN mem[b] ELSE Empty]
  /\ maxSteps' = maxSteps + InitCapacity
  /\ ret' = "none"
  /\ UNCHANGED <<init, resyncOnNextPacket, step, headSN>>

Next ==
  \/ \E pkt \in Packets, sn \in SN :
       AddPacket(pkt, sn) \/ AddPacketWithSequenceNumber(pkt, sn)
  \/ ResyncOnNextPacket
  \/ Grow

Spec == Init /\ [][Next]_vars

-----------------------------------------------------------------------------
(* GetPacket changes no state: what it returns for sn and a buffer of      *)
(* capacity room.                                                          *)

get(sn, age) ==
  LET b == slots[SlotAt(age)] IN
  IF age >= maxSteps THEN [err |-> "tooOld"]
  ELSE IF ~Valid(mem, b) THEN [err |-> "invalid"]
  ELSE IF mem[b].sn # Low(sn) THEN [err |-> "mismatch"]
  ELSE [err |-> "ok", buffer |-> b]

GetPacket(sn, room) ==
  LET age == Minus(headSN, sn)
      found == get(sn, age)
  IN
  IF age > HalfRange THEN [err |-> "tooNew"]
  ELSE IF found.err = "ok" /\ room < mem[found.buffer].size THEN [err |-> "bufferTooSmall"]
  ELSE found

-----------------------------------------------------------------------------
(* Correctness.                                                            *)

\* Every field has its type; an invalid buffer is Empty and a valid one was
\* stored by Store, so its size is never the invalid marker.
TypeOK ==
  /\ init \in BOOLEAN /\ resyncOnNextPacket \in BOOLEAN
  /\ maxSteps \in Nat \ {0} /\ step \in 0 .. maxSteps - 1
  /\ headSN \in SN
  /\ slots \in [0 .. maxSteps - 1 -> 0 .. maxSteps - 1]
  /\ mem \in [0 .. maxSteps - 1 -> Contents]
  /\ ret \in {"none", "ok", "tooLarge", "tooOld", "rtx", "rtxSize", "mismatch"}

\* No two slots share a buffer, however often Grow moved them (a shared buffer
\* would make storing one packet overwrite another).
OwnBuffer ==
  \A i, j \in 0 .. maxSteps - 1 : slots[i] = slots[j] => i = j

\* The ring is the window: the slot a steps behind the head holds the packet
\* numbered headSN - a or nothing, through pushes with gaps longer than the
\* ring, wrap of the number type, resyncs and Grow.
WindowOrder ==
  \A a \in 0 .. maxSteps - 1 :
    LET b == slots[SlotAt(a)] IN
    Valid(mem, b) /\ a < Range => mem[b].esn = Minus(headSN, a)

\* GetPacket never returns a packet stored for another extended number, and
\* its comparison of the header's bits (lines 244-246) never has to step in;
\* nor does the one in set (lines 265-271).
NeverAnotherPacket ==
  /\ ret # "mismatch"
  /\ \A sn \in SN :
       LET found == GetPacket(sn, MaxPktSize) IN
       /\ found.err \notin {"mismatch", "bufferTooSmall"}
       /\ found.err = "ok" => mem[found.buffer].esn = sn

\* A packet keeps its buffer and its bytes for as long as its number is in the
\* window, until a resync is applied: not a late duplicate, not a push behind
\* it, not Grow may disturb it (callers hold slices returned by AddPacket).
PacketsStay ==
  [][\A a \in 0 .. maxSteps - 1 :
       LET b == slots[SlotAt(a)]
           moved == a + Minus(headSN', headSN)
       IN
       /\ Valid(mem, b)
       /\ ~(resyncOnNextPacket /\ ~resyncOnNextPacket')
       /\ moved < maxSteps'
       => /\ mem'[b] = mem[b]
          /\ slots'[(step' - moved - 1) % maxSteps'] = b]_vars

\* The ring implements the window of PacketWindow, operation by operation and
\* with the same return values.
Window ==
  [a \in 0 .. maxSteps - 1 |-> mem[slots[SlotAt(a)]].pkt]

W == INSTANCE PacketWindow WITH
       Half <- HalfRange, MaxSize <- MaxStored,
       started <- init, resync <- resyncOnNextPacket, head <- headSN,
       cap <- maxSteps, stored <- Window

ImplementsWindow == W!Spec
=============================================================================
