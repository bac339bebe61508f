---------------------------- MODULE BucketProofs ----------------------------
(***************************************************************************)
(* The bucket never returns a packet for another sequence number, leaves   *)
(* the slices it handed out alone, and implements PacketWindow: proofs for *)
(* every capacity, number width, packet size and set of packets.           *)
(***************************************************************************)
EXTENDS Bucket, WellFoundedInduction, TLAPS

-----------------------------------------------------------------------------
(* Arithmetic modulo the size of a ring: what wrap does to slot indices,   *)
(* and where push moves the slots of the ring.                             *)

\* Every integer is a multiple of M plus a remainder.
LEMMA DivisionExists ==
  ASSUME NEW M \in Nat \ {0}, NEW x \in Int
  PROVE  \E q \in Int, r \in 0 .. M - 1 : x = M * q + r
<1>1. x = M * (x \div M) + (x % M) /\ (x \div M) \in Int /\ x % M \in 0 .. M - 1
  BY SMT
<1> QED BY <1>1

\* Quotient and remainder are unique.
LEMMA DivisionUnique ==
  ASSUME NEW M \in Nat \ {0}, NEW k \in Int, NEW l \in Int,
         NEW r \in 0 .. M - 1, NEW s \in 0 .. M - 1,
         M * k + r = M * l + s
  PROVE  k = l /\ r = s
  BY SMT

\* The remainder of a multiple of M plus r is r.
LEMMA ModOfSum ==
  ASSUME NEW M \in Nat \ {0}, NEW k \in Int, NEW r \in 0 .. M - 1
  PROVE  (M * k + r) % M = r
<1>1. \A z \in Int : /\ z = M * (z \div M) + (z % M)
                     /\ (z \div M) \in Int /\ z % M \in 0 .. M - 1
  BY SMT
<1>2. M * k + r \in Int
  OBVIOUS
<1>3. PICK q \in Int, s \in 0 .. M - 1 : M * k + r = M * q + s /\ (M * k + r) % M = s
  BY <1>1, <1>2
<1> QED BY <1>3, DivisionUnique

\* wrap returns a slot.
LEMMA ModRange ==
  ASSUME NEW M \in Nat \ {0}, NEW x \in Int
  PROVE  x % M \in 0 .. M - 1
  BY SMT

\* wrap changes no slot.
LEMMA ModSmall ==
  ASSUME NEW M \in Nat \ {0}, NEW x \in 0 .. M - 1
  PROVE  x % M = x
  BY SMT

\* wrap ignores whole turns of the ring.
LEMMA ModTurns ==
  ASSUME NEW M \in Nat \ {0}, NEW x \in Int, NEW k \in Int
  PROVE  (x + M * k) % M = x % M
<1>1. PICK q \in Int, r \in 0 .. M - 1 : x = M * q + r
  BY DivisionExists
<1>2. x + M * k = M * (q + k) + r
  BY <1>1
<1>3. q + k \in Int
  OBVIOUS
<1>4. x % M = r
  BY <1>1, ModOfSum
<1>5. (M * (q + k) + r) % M = r
  BY <1>3, ModOfSum
<1> QED BY <1>2, <1>4, <1>5

\* wrap takes an index below the ring up by one turn.
LEMMA ModBelow ==
  ASSUME NEW M \in Nat \ {0}, NEW x \in Int, -M <= x, x < 0
  PROVE  x % M = x + M
<1>1. x + M \in 0 .. M - 1 /\ x = M * (-1) + (x + M)
  OBVIOUS
<1>2. -1 \in Int
  OBVIOUS
<1> QED BY <1>1, <1>2, ModOfSum

\* Wrapping early does not change where an index lands.
LEMMA ModMod ==
  ASSUME NEW M \in Nat \ {0}, NEW x \in Int, NEW y \in Int
  PROVE  ((x % M) + y) % M = (x + y) % M
<1>1. PICK q \in Int, r \in 0 .. M - 1 : x = M * q + r
  BY DivisionExists
<1>2. x % M = r
  BY <1>1, ModOfSum
<1>3. x + y = (r + y) + M * q
  BY <1>1
<1>4. ((r + y) + M * q) % M = (r + y) % M
  <2>1. r + y \in Int
    OBVIOUS
  <2> QED BY <2>1, ModTurns
<1> QED BY <1>2, <1>3, <1>4

\* Two indices less than a turn apart are different slots.
LEMMA ModInjective ==
  ASSUME NEW M \in Nat \ {0}, NEW x \in Int, NEW y \in Int,
         x % M = y % M, x - y < M, y - x < M
  PROVE  x = y
<1>1. PICK q \in Int, r \in 0 .. M - 1 : x = M * q + r
  BY DivisionExists
<1>2. PICK p \in Int, s \in 0 .. M - 1 : y = M * p + s
  BY DivisionExists
<1>3. r = s
  BY <1>1, <1>2, ModOfSum
<1>4. CASE x >= y
  <2>1. x - y \in 0 .. M - 1
    BY <1>4
  <2>2. M * (q - p) + 0 = M * 0 + (x - y)
    BY <1>1, <1>2, <1>3
  <2>3. q - p \in Int /\ 0 \in 0 .. M - 1 /\ 0 \in Int
    OBVIOUS
  <2> QED BY <2>1, <2>2, <2>3, DivisionUnique
<1>5. CASE y >= x
  <2>1. y - x \in 0 .. M - 1
    BY <1>5
  <2>2. M * (p - q) + 0 = M * 0 + (y - x)
    BY <1>1, <1>2, <1>3
  <2>3. p - q \in Int /\ 0 \in 0 .. M - 1 /\ 0 \in Int
    OBVIOUS
  <2> QED BY <2>1, <2>2, <2>3, DivisionUnique
<1> QED BY <1>4, <1>5

\* The slot of age a after push skipped g numbers in a ring of M slots whose
\* next slot was st; and how many slots it invalidated.
ShiftedSlot(M, st, g, a) == (((st + g + 1) % M) - a - 1) % M
GapSlots(M, g) == IF g > M THEN M ELSE g

\* Where push moves the ages, for a gap of g numbers: the new slot is age 0,
\* the ages of the gap are slots that were invalidated, and an older age is
\* the slot it was, none of these.
Shifts(M, st, g, a) ==
  LET now == ShiftedSlot(M, st, g, a) IN
  /\ now \in 0 .. M - 1
  /\ a = 0 <=> now = (st + g) % M
  /\ a \in 1 .. g => \E i \in 0 .. GapSlots(M, g) - 1 : now = (st + i) % M
  /\ a > g => /\ now = (st - (a - g - 1) - 1) % M
              /\ \A i \in 0 .. GapSlots(M, g) - 1 : now # (st + i) % M

LEMMA PushShift ==
  ASSUME NEW M \in Nat \ {0}, NEW st \in 0 .. M - 1, NEW g \in Nat, NEW a \in 0 .. M - 1
  PROVE  Shifts(M, st, g, a)
<1> DEFINE now == ShiftedSlot(M, st, g, a)
           n == GapSlots(M, g)
<1> USE DEF ShiftedSlot, GapSlots
<1>1. now = (st + g - a) % M
  <2>1. st + g + 1 \in Int /\ -a - 1 \in Int
    OBVIOUS
  <2>2. (((st + g + 1) % M) + (-a - 1)) % M = ((st + g + 1) + (-a - 1)) % M
    BY <2>1, ModMod
  <2>3. (st + g + 1) % M \in Int
    BY <2>1, ModRange
  <2>4. ((st + g + 1) % M) + (-a - 1) = ((st + g + 1) % M) - a - 1
    BY <2>3
  <2>5. (st + g + 1) + (-a - 1) = st + g - a
    OBVIOUS
  <2> QED BY <2>2, <2>4, <2>5
<1>2. now \in 0 .. M - 1
  <2>1. st + g - a \in Int
    OBVIOUS
  <2> QED BY <1>1, <2>1, ModRange
<1>3. a = 0 <=> now = (st + g) % M
  <2>1. ASSUME a = 0 PROVE now = (st + g) % M
    BY <1>1, <2>1, st + g - 0 = st + g
  <2>2. ASSUME now = (st + g) % M PROVE a = 0
    <3>1. st + g - a = st + g
      <4> DEFINE x == st + g - a
                 y == st + g
      <4>1. x \in Int /\ y \in Int /\ x - y < M /\ y - x < M
        OBVIOUS
      <4>2. x % M = y % M
        BY <1>1, <2>2
      <4> HIDE DEF x, y
      <4>3. x = y
        BY <4>1, <4>2, ModInjective
      <4> QED BY <4>3 DEF x, y
    <3> QED BY <3>1
  <2> QED BY <2>1, <2>2
<1>4. ASSUME a \in 1 .. g PROVE \E i \in 0 .. n - 1 : now = (st + i) % M
  <2>1. CASE g <= M
    <3>1. g - a \in 0 .. n - 1 /\ st + (g - a) = st + g - a
      BY <1>4, <2>1
    <3> QED BY <3>1, <1>1
  <2>2. CASE g > M
    <3> DEFINE i == (g - a) % M
    <3>1. g - a \in Int /\ st \in Int
      OBVIOUS
    <3>2. i \in 0 .. n - 1
      BY <3>1, <2>2, ModRange
    <3>3. (i + st) % M = ((g - a) + st) % M
      BY <3>1, ModMod
    <3>4. i + st = st + i /\ (g - a) + st = st + g - a
      BY <3>2
    <3>5. now = (st + i) % M
      BY <3>3, <3>4, <1>1
    <3> QED BY <3>2, <3>5
  <2> QED BY <2>1, <2>2
<1>5. ASSUME a > g
      PROVE  /\ now = (st - (a - g - 1) - 1) % M
             /\ \A i \in 0 .. n - 1 : now # (st + i) % M
  <2>1. st - (a - g - 1) - 1 = st + g - a
    OBVIOUS
  <2>2. ASSUME NEW i \in 0 .. n - 1 PROVE now # (st + i) % M
    <3> DEFINE x == st + g - a
               y == st + i
    <3>1. x \in Int /\ y \in Int /\ x - y < M /\ y - x < M /\ x # y
      BY <1>5, <2>2
    <3> HIDE DEF x, y
    <3>2. x % M # y % M
      BY <3>1, ModInjective
    <3> QED BY <3>2, <1>1 DEF x, y
  <2> QED BY <2>1, <2>2, <1>1
<1> QED BY <1>2, <1>3, <1>4, <1>5 DEF Shifts

-----------------------------------------------------------------------------
(* Loops that count down.                                                  *)

\* A nonempty set of naturals has a least element.
LEMMA LeastElement ==
  ASSUME NEW T \in SUBSET Nat, T # {}
  PROVE  \E x \in T : \A y \in T : x <= y
<1> DEFINE Less == { ss \in Nat \X Nat : ss[1] < ss[2] }
<1>1. IsWellFoundedOn(Less, Nat)
  BY NatLessThanWellFounded DEF OpToRel
<1>2. PICK x \in T : \A y \in T : ~(<<y, x>> \in Less)
  <2> HIDE DEF Less
  <2> QED BY <1>1, WFMin
<1>3. \A y \in T : ~(y < x)
  BY <1>2
<1> QED BY <1>3

\* A set that holds hi, and i whenever it holds i + 1, holds lo .. hi.
LEMMA DownwardInduction ==
  ASSUME NEW lo \in Int, NEW hi \in Int, lo <= hi,
         NEW P \in SUBSET (lo .. hi), hi \in P,
         \A i \in lo .. hi - 1 : i + 1 \in P => i \in P
  PROVE  \A i \in lo .. hi : i \in P
<1> SUFFICES ASSUME NEW j \in lo .. hi, j \notin P
             PROVE  FALSE
  OBVIOUS
<1> DEFINE T == { n \in Nat : n <= hi - lo /\ hi - n \notin P }
<1>1. T \in SUBSET Nat /\ hi - j \in T
  OBVIOUS
<1>2. PICK x \in T : \A y \in T : x <= y
  BY <1>1, LeastElement
<1>3. x # 0 /\ x \in Nat /\ x <= hi - lo /\ hi - x \notin P
  OBVIOUS
<1>4. x - 1 \notin T
  BY <1>2, <1>3
<1>5. hi - (x - 1) \in P
  BY <1>3, <1>4
<1>6. hi - x \in lo .. hi - 1 /\ (hi - x) + 1 = hi - (x - 1)
  BY <1>3
<1> QED BY <1>3, <1>5, <1>6

\* A loop that counts down from hi to lo, with body G[i] on values V: f[i] is
\* its value after the body ran for i and everything above.
CountsDown(f, lo, hi, V, base, G) ==
  /\ f \in [lo .. hi -> V]
  /\ f[hi] = base
  /\ \A i \in lo .. hi - 1 : f[i] = G[i][f[i + 1]]

\* Such a loop defines a function.
LEMMA DownwardRecursion ==
  ASSUME NEW lo \in Int, NEW hi \in Int, lo <= hi,
         NEW V, NEW base \in V, NEW G \in [lo .. hi - 1 -> [V -> V]]
  PROVE  \E f : CountsDown(f, lo, hi, V, base, G)
<1> USE DEF CountsDown
<1> DEFINE Defines(f, k) == CountsDown(f, k, hi, V, base, G)
           P == { k \in lo .. hi : \E f : Defines(f, k) }
<1>1. hi \in P
  <2>1. Defines([i \in hi .. hi |-> base], hi)
    OBVIOUS
  <2> HIDE DEF Defines
  <2>2. \E f : Defines(f, hi)
    BY <2>1
  <2> QED BY <2>2
<1>2. ASSUME NEW k \in lo .. hi - 1, k + 1 \in P PROVE k \in P
  <2>1. PICK f : Defines(f, k + 1)
    BY <1>2
  <2> DEFINE g == [i \in k .. hi |-> IF i = k THEN G[k][f[k + 1]] ELSE f[i]]
  <2>2. G[k][f[k + 1]] \in V
    BY <2>1
  <2>3. g \in [k .. hi -> V]
    BY <2>1, <2>2
  <2>4. g[hi] = base
    BY <2>1
  <2>5. \A i \in k + 1 .. hi : g[i] = f[i]
    OBVIOUS
  <2>6. g[k] = G[k][f[k + 1]]
    OBVIOUS
  <2> HIDE DEF g
  <2>7. ASSUME NEW i \in k .. hi - 1 PROVE g[i] = G[i][g[i + 1]]
    <3>1. i + 1 \in k + 1 .. hi
      OBVIOUS
    <3>2. CASE i = k
      BY <2>5, <2>6, <3>1, <3>2
    <3>3. CASE i # k
      <4>1. i \in k + 1 .. hi - 1 /\ i \in k + 1 .. hi
        BY <3>3
      <4> QED BY <2>1, <2>5, <3>1, <4>1
    <3> QED BY <3>2, <3>3
  <2>8. Defines(g, k)
    BY <2>3, <2>4, <2>7
  <2> HIDE DEF Defines
  <2>9. k \in lo .. hi /\ \E h : Defines(h, k)
    BY <2>8
  <2> QED BY <2>9
<1>3. P \in SUBSET (lo .. hi)
  OBVIOUS
<1>4. \A i \in lo .. hi - 1 : i + 1 \in P => i \in P
  BY <1>2
<1>5. lo \in P
  <2> HIDE DEF P
  <2>1. \A i \in lo .. hi : i \in P
    BY <1>1, <1>3, <1>4, DownwardInduction
  <2> QED BY <2>1
<1> QED BY <1>5

-----------------------------------------------------------------------------

\* Nothing is stored before the first packet.
FreshIsEmpty == ~init => \A b \in 0 .. maxSteps - 1 : ~Valid(mem, b)

\* The inductive invariant.  WindowOrder alone is not inductive: storing a
\* packet keeps the others only because no two slots share a buffer, and the
\* first packet lands in a window that must be empty.
IInv ==
  /\ TypeOK
  /\ OwnBuffer
  /\ WindowOrder
  /\ FreshIsEmpty
  /\ ret # "mismatch"

-----------------------------------------------------------------------------
(* Numbers, sizes and contents.                                            *)

\* Unsigned subtraction, and the number behind a number.
LEMMA MinusFacts ==
  ASSUME NEW x \in SN, NEW y \in SN
  PROVE  /\ Minus(x, y) \in SN
         /\ Minus(x, Minus(x, y)) = y
         /\ Minus(x, 0) = x
  BY RangeAssumption DEF SN, Minus

\* A number a behind x is a - g - 1 behind y, when x is g + 1 ahead of y.
LEMMA MinusShift ==
  ASSUME NEW x \in SN, NEW y \in SN, NEW g \in Nat, Minus(x, y) = g + 1,
         NEW a \in SN, a > g
  PROVE  Minus(y, a - g - 1) = Minus(x, a)
  BY RangeAssumption DEF SN, Minus

\* The types of sizes.
LEMMA SizeTypes ==
  ASSUME NEW pkt \in Packets
  PROVE  SizeOf[pkt] \in Nat /\ MaxPktSize \in Nat /\ MaxPktSize <= PktSizeLimit
<1>1. PktSizeLimit \in Nat
  BY SMT DEF PktSizeLimit
<1> QED BY <1>1, PacketAssumption, SMT

\* A packet that passes the length check has a size the size field can hold
\* and that is not the invalid marker.
LEMMA StoredSize ==
  ASSUME NEW pkt \in Packets, ~TooLarge(pkt)
  PROVE  PutSize(SizeOf[pkt]) = SizeOf[pkt] /\ SizeOf[pkt] # InvalidPktSize
<1>1. SizeOf[pkt] \in Nat /\ MaxPktSize \in Nat /\ MaxPktSize <= PktSizeLimit
  BY SizeTypes
<1>2. InvalidPktSize \in Nat /\ SizeOf[pkt] < InvalidPktSize
  <2>1. SizeOf[pkt] <= MaxPktSize - PktSizeHeader
    BY <1>1, SMT DEF TooLarge, MaxStored, PktSizeHeader
  <2>2. CASE MaxPktSize < 256
    BY <1>1, <2>1, <2>2, SMT DEF PktSizeHeader, InvalidPktSize
  <2>3. CASE MaxPktSize >= 256 /\ MaxPktSize < 65536
    BY <1>1, <2>1, <2>3, SMT DEF PktSizeHeader, InvalidPktSize
  <2>4. CASE MaxPktSize >= 65536
    BY <1>1, <2>1, <2>4, SMT DEF PktSizeHeader, InvalidPktSize, PktSizeLimit
  <2> QED BY <1>1, <2>2, <2>3, <2>4, SMT
<1>3. SizeOf[pkt] \in 0 .. (InvalidPktSize + 1) - 1 /\ InvalidPktSize + 1 \in Nat \ {0}
  BY <1>1, <1>2
<1>4. SizeOf[pkt] % (InvalidPktSize + 1) = SizeOf[pkt]
  BY <1>3, ModSmall
<1> QED BY <1>1, <1>2, <1>4 DEF PutSize

\* What store writes is valid and carries its number.
LEMMA EntryFacts ==
  ASSUME NEW pkt \in Packets, ~TooLarge(pkt), NEW sn \in SN
  PROVE  /\ Entry(pkt, sn) \in Contents
         /\ Entry(pkt, sn).size = SizeOf[pkt]
         /\ Entry(pkt, sn).size # InvalidPktSize
         /\ Entry(pkt, sn).esn = sn
         /\ Entry(pkt, sn).sn = Low(sn)
<1>1. Entry(pkt, sn) \in Contents
  BY DEF Contents
<1> QED BY <1>1, StoredSize DEF Entry

\* A valid content carries the header bits of its number.
LEMMA ContentFacts ==
  ASSUME NEW c \in Contents
  PROVE  c.size # InvalidPktSize => c.esn \in SN /\ c.sn = Low(c.esn)
<1>1. CASE c = Empty
  BY <1>1 DEF Empty
<1>2. CASE c # Empty
  <2>1. PICK pkt \in Packets, sn \in SN : ~TooLarge(pkt) /\ c = Entry(pkt, sn)
    BY <1>2 DEF Contents
  <2> QED BY <2>1, EntryFacts
<1> QED BY <1>1, <1>2

\* A slot index of the ring, whatever the age.
LEMMA SlotAtRange ==
  ASSUME maxSteps \in Nat \ {0}, step \in 0 .. maxSteps - 1, NEW a \in Int
  PROVE  SlotAt(a) \in 0 .. maxSteps - 1
<1>1. step - a - 1 \in Int
  OBVIOUS
<1> QED BY <1>1, ModRange DEF SlotAt, Wrap

\* Ages below maxSteps are different slots.
LEMMA SlotAtInjective ==
  ASSUME maxSteps \in Nat \ {0}, step \in 0 .. maxSteps - 1,
         NEW a \in 0 .. maxSteps - 1, NEW c \in 0 .. maxSteps - 1,
         SlotAt(a) = SlotAt(c)
  PROVE  a = c
<1> DEFINE x == step - a - 1
           y == step - c - 1
<1>1. x \in Int /\ y \in Int /\ x - y < maxSteps /\ y - x < maxSteps
  OBVIOUS
<1>2. x % maxSteps = y % maxSteps
  BY DEF SlotAt, Wrap
<1> HIDE DEF x, y
<1>3. x = y
  BY <1>1, <1>2, ModInjective
<1> QED BY <1>3 DEF x, y

\* Invalidating keeps every buffer either as it was or empty.
LEMMA InvalidateType ==
  ASSUME maxSteps \in Nat \ {0}, NEW m \in [0 .. maxSteps - 1 -> Contents],
         NEW start, NEW n
  PROVE  Invalidate(m, start, n) \in [0 .. maxSteps - 1 -> Contents]
  BY DEF Invalidate, Contents

-----------------------------------------------------------------------------
(* addPacket rebases the bucket on the first packet and on a resync: the   *)
(* memory and head it goes on with still are a window.                     *)

\* Nothing is left in the window that a first packet or a resync goes on with.
LEMMA RebasedIsEmpty ==
  ASSUME IInv, NEW a \in 0 .. maxSteps - 1, Valid(MemFor, slots[SlotAt(a)])
  PROVE  init /\ ~resyncOnNextPacket
<1> DEFINE i == SlotAt(a)
           b == slots[i]
<1>0. /\ maxSteps \in Nat \ {0} /\ step \in 0 .. maxSteps - 1 /\ a \in Int
      /\ slots \in [0 .. maxSteps - 1 -> 0 .. maxSteps - 1]
      /\ mem \in [0 .. maxSteps - 1 -> Contents]
  BY DEF IInv, TypeOK
<1>1. i \in 0 .. maxSteps - 1 /\ b \in 0 .. maxSteps - 1
  BY <1>0, SlotAtRange
<1>2. ~resyncOnNextPacket
  <2> SUFFICES ASSUME resyncOnNextPacket PROVE FALSE
    OBVIOUS
  <2> HIDE DEF i
  <2>1. 0 + i = i /\ Wrap(i) = i
    <3>1. i % maxSteps = i
      BY <1>0, <1>1, ModSmall
    <3> QED BY <1>0, <1>1, <3>1 DEF Wrap
  <2>2. i \in 0 .. (IF maxSteps > maxSteps THEN maxSteps ELSE maxSteps) - 1
    BY <1>0, <1>1
  <2>3. b \in { slots[Wrap(0 + j)] : j \in 0 .. (IF maxSteps > maxSteps THEN maxSteps ELSE maxSteps) - 1 }
    BY <2>1, <2>2
  <2>4. Invalidate(mem, 0, maxSteps)[b] = Empty
    BY <1>0, <1>1, <2>3 DEF Invalidate
  <2> QED BY <2>4 DEF MemFor, Valid, Empty, i
<1>3. init
  BY <1>1, <1>2 DEF IInv, FreshIsEmpty, MemFor
<1> QED BY <1>2, <1>3

LEMMA Rebased ==
  ASSUME IInv, NEW sn \in SN
  PROVE  /\ MemFor \in [0 .. maxSteps - 1 -> Contents]
         /\ HeadFor(sn) \in SN
         /\ \A a \in 0 .. maxSteps - 1 :
              LET b == slots[SlotAt(a)] IN
              Valid(MemFor, b) /\ a < Range => MemFor[b].esn = Minus(HeadFor(sn), a)
<1>0. /\ maxSteps \in Nat \ {0} /\ step \in 0 .. maxSteps - 1 /\ headSN \in SN
      /\ slots \in [0 .. maxSteps - 1 -> 0 .. maxSteps - 1]
      /\ mem \in [0 .. maxSteps - 1 -> Contents]
      /\ init \in BOOLEAN /\ resyncOnNextPacket \in BOOLEAN
  BY DEF IInv, TypeOK
<1>1. MemFor \in [0 .. maxSteps - 1 -> Contents]
  BY <1>0, InvalidateType DEF MemFor
<1>2. HeadFor(sn) \in SN
  <2>1. 1 \in SN
    BY RangeAssumption DEF SN
  <2> QED BY <1>0, <2>1, MinusFacts DEF HeadFor
<1>3. ASSUME NEW a \in 0 .. maxSteps - 1,
             Valid(MemFor, slots[SlotAt(a)]), a < Range
      PROVE  MemFor[slots[SlotAt(a)]].esn = Minus(HeadFor(sn), a)
  <2>1. init /\ ~resyncOnNextPacket
    BY <1>3, RebasedIsEmpty
  <2> QED BY <1>3, <2>1 DEF IInv, WindowOrder, MemFor, HeadFor
<1> QED BY <1>1, <1>2, <1>3

\* push moves the window: it lands in age 0, the numbers it skipped become holes
\* and every older packet is as many steps older, in its buffer.
LEMMA PushRing ==
  ASSUME IInv, NEW pkt \in Packets, NEW sn \in SN, ~TooLarge(pkt),
         NEW g \in Nat, Push(pkt, sn, g)
  PROVE  /\ mem' \in [0 .. maxSteps - 1 -> Contents] /\ step' \in 0 .. maxSteps - 1
         /\ \A a \in 0 .. maxSteps - 1 :
              LET b == slots[(step' - a - 1) % maxSteps] IN
              /\ b \in 0 .. maxSteps - 1
              /\ a = 0 => mem'[b] = Entry(pkt, sn)
              /\ a \in 1 .. g => mem'[b] = Empty
              /\ a > g => b = slots[SlotAt(a - g - 1)] /\ mem'[b] = MemFor[b]
<1> DEFINE n == IF g > maxSteps THEN maxSteps ELSE g
           idx == Wrap(step + g)
           m1 == Invalidate(MemFor, step, g)
           hit == { slots[Wrap(step + i)] : i \in 0 .. n - 1 }
<1>0. /\ maxSteps \in Nat \ {0} /\ step \in 0 .. maxSteps - 1
      /\ slots \in [0 .. maxSteps - 1 -> 0 .. maxSteps - 1]
      /\ MemFor \in [0 .. maxSteps - 1 -> Contents]
  BY Rebased DEF IInv, TypeOK
<1>1. idx \in 0 .. maxSteps - 1 /\ step' \in 0 .. maxSteps - 1
  <2>1. step + g \in Int /\ step + g + 1 \in Int
    BY <1>0
  <2> QED BY <1>0, <2>1, ModRange DEF Push, Wrap
<1>2. /\ m1 \in [0 .. maxSteps - 1 -> Contents]
      /\ \A b \in 0 .. maxSteps - 1 : m1[b] = IF b \in hit THEN Empty ELSE MemFor[b]
  <2>1. m1 \in [0 .. maxSteps - 1 -> Contents]
    BY <1>0, InvalidateType
  <2>2. m1 = [b \in DOMAIN MemFor |-> IF b \in hit THEN Empty ELSE MemFor[b]]
    BY DEF Invalidate
  <2> HIDE DEF m1, hit
  <2> QED BY <1>0, <2>1, <2>2
<1> HIDE DEF hit, n
<1>3. /\ mem' \in [0 .. maxSteps - 1 -> Contents]
      /\ mem'[slots[idx]] = Entry(pkt, sn)
      /\ \A b \in 0 .. maxSteps - 1 : b # slots[idx] => mem'[b] = m1[b]
  <2>1. mem' = [m1 EXCEPT ![slots[idx]] = Entry(pkt, sn)]
    BY DEF Push, Store
  <2>2. slots[idx] \in 0 .. maxSteps - 1
    BY <1>0, <1>1
  <2> HIDE DEF m1, idx
  <2> QED BY <1>2, <2>1, <2>2, EntryFacts
<1> HIDE DEF m1, idx
<1>4. ASSUME NEW a \in 0 .. maxSteps - 1
      PROVE  LET b == slots[(step' - a - 1) % maxSteps] IN
             /\ b \in 0 .. maxSteps - 1
             /\ a = 0 => mem'[b] = Entry(pkt, sn)
             /\ a \in 1 .. g => mem'[b] = Empty
             /\ a > g => b = slots[SlotAt(a - g - 1)] /\ mem'[b] = MemFor[b]
  <2> DEFINE now == (step' - a - 1) % maxSteps
  <2>0. /\ now \in 0 .. maxSteps - 1
        /\ a = 0 <=> now = (step + g) % maxSteps
        /\ a \in 1 .. g => \E i \in 0 .. n - 1 : now = (step + i) % maxSteps
        /\ a > g => /\ now = (step - (a - g - 1) - 1) % maxSteps
                    /\ \A i \in 0 .. n - 1 : now # (step + i) % maxSteps
    <3>1. step' = (step + g + 1) % maxSteps
      BY DEF Push, Wrap
    <3>2. now = (((step + g + 1) % maxSteps) - a - 1) % maxSteps
      BY <3>1
    <3>3. now = ShiftedSlot(maxSteps, step, g, a) /\ n = GapSlots(maxSteps, g)
      BY <3>2 DEF ShiftedSlot, GapSlots, n
    <3> HIDE DEF now
    <3>4. maxSteps \in Nat \ {0} /\ step \in 0 .. maxSteps - 1
      BY <1>0
    <3>5. Shifts(maxSteps, step, g, a)
      BY <3>4, PushShift
    <3> QED BY <3>3, <3>5, Zenon DEF Shifts
  <2> HIDE DEF now
  <2>1. now \in 0 .. maxSteps - 1 /\ slots[now] \in 0 .. maxSteps - 1
    BY <1>0, <2>0
  <2>2. a = 0 <=> slots[now] = slots[idx]
    <3>1. a = 0 <=> now = idx
      BY <2>0 DEF idx, Wrap
    <3>2. slots[now] = slots[idx] => now = idx
      BY <1>1, <2>1 DEF IInv, OwnBuffer
    <3> QED BY <3>1, <3>2
  <2>3. CASE a = 0
    <3>1. ~(a \in 1 .. g) /\ ~(a > g)
      BY <2>3
    <3> QED BY <1>3, <2>1, <2>2, <2>3, <3>1 DEF now
  <2>4. CASE a \in 1 .. g
    <3>1. slots[now] \in hit
      BY <2>0, <2>4 DEF hit, Wrap
    <3>2. slots[now] # slots[idx] /\ a # 0 /\ ~(a > g)
      BY <2>2, <2>4
    <3>3. mem'[slots[now]] = Empty
      BY <1>2, <1>3, <2>1, <3>1, <3>2
    <3> QED BY <2>1, <3>2, <3>3 DEF now
  <2>5. CASE a > g
    <3>1. ASSUME NEW i \in 0 .. n - 1, slots[now] = slots[Wrap(step + i)] PROVE FALSE
      <4>1. step + i \in Int
        BY <1>0
      <4>2. Wrap(step + i) \in 0 .. maxSteps - 1
        BY <1>0, <4>1, ModRange DEF Wrap
      <4>3. now # Wrap(step + i)
        BY <2>0, <2>5 DEF Wrap
      <4> QED BY <2>1, <3>1, <4>2, <4>3 DEF IInv, OwnBuffer
    <3>2. slots[now] \notin hit
      BY <3>1 DEF hit
    <3>3. slots[now] # slots[idx] /\ a # 0 /\ ~(a \in 1 .. g)
      BY <2>2, <2>5
    <3>4. mem'[slots[now]] = MemFor[slots[now]]
      BY <1>2, <1>3, <2>1, <3>2, <3>3
    <3>5. now = SlotAt(a - g - 1)
      BY <2>0, <2>5 DEF SlotAt, Wrap
    <3> QED BY <2>1, <3>3, <3>4, <3>5 DEF now
  <2> QED BY <2>3, <2>4, <2>5
<1> QED BY <1>1, <1>3, <1>4

\* push keeps the window.
LEMMA PushPreserves ==
  ASSUME IInv, NEW pkt \in Packets, NEW sn \in SN, ~TooLarge(pkt),
         NEW g \in Nat, Minus(sn, HeadFor(sn)) = g + 1, Push(pkt, sn, g),
         init' = TRUE, UNCHANGED <<maxSteps, slots>>, resyncOnNextPacket' = FALSE
  PROVE  IInv'
<1>0. maxSteps \in Nat \ {0} /\ HeadFor(sn) \in SN
  BY Rebased DEF IInv, TypeOK
<1>1. TypeOK'
  BY <1>0, PushRing DEF IInv, TypeOK, Push
<1>2. OwnBuffer'
  BY DEF IInv, OwnBuffer
<1>3. WindowOrder'
  <2> SUFFICES ASSUME NEW a \in 0 .. maxSteps - 1,
                      Valid(mem', slots[(step' - a - 1) % maxSteps]), a < Range
               PROVE  mem'[slots[(step' - a - 1) % maxSteps]].esn = Minus(sn, a)
    BY DEF WindowOrder, SlotAt, Wrap, Push, Valid
  <2> DEFINE b == slots[(step' - a - 1) % maxSteps]
  <2>1. /\ a = 0 => mem'[b] = Entry(pkt, sn)
        /\ a \in 1 .. g => mem'[b] = Empty
        /\ a > g => b = slots[SlotAt(a - g - 1)] /\ mem'[b] = MemFor[b]
    BY PushRing
  <2> HIDE DEF b
  <2>2. CASE a = 0
    BY <2>1, <2>2, EntryFacts, MinusFacts DEF b
  <2>3. CASE a \in 1 .. g
    BY <2>1, <2>3 DEF Valid, Empty, b
  <2>4. CASE a > g
    <3> DEFINE c == a - g - 1
    <3>1. c \in 0 .. maxSteps - 1 /\ c < Range
      BY <1>0, <2>4, RangeAssumption
    <3>2. Minus(HeadFor(sn), c) = Minus(sn, a)
      <4>1. a \in SN
        BY <1>0, RangeAssumption DEF SN
      <4> QED BY <1>0, <2>4, <4>1, MinusShift
    <3>3. b = slots[SlotAt(c)] /\ mem'[b] = MemFor[b]
      BY <2>1, <2>4
    <3> HIDE DEF c
    <3>4. Valid(MemFor, slots[SlotAt(c)])
      BY <3>3 DEF Valid, b
    <3>5. MemFor[slots[SlotAt(c)]].esn = Minus(HeadFor(sn), c)
      BY <3>1, <3>4, Rebased
    <3> QED BY <3>2, <3>3, <3>5 DEF b
  <2> QED BY <2>2, <2>3, <2>4
<1>4. FreshIsEmpty' /\ (ret # "mismatch")'
  BY DEF FreshIsEmpty, Push
<1> QED BY <1>1, <1>2, <1>3, <1>4 DEF IInv

\* set keeps the window: it stores, if at all, into the hole of its own number,
\* and what it finds in a slot that is taken is a packet of the same number.
LEMMA SetOldPreserves ==
  ASSUME IInv, NEW pkt \in Packets, NEW sn \in SN, ~TooLarge(pkt),
         SetOld(pkt, sn, Minus(HeadFor(sn), sn)),
         init' = TRUE, UNCHANGED <<maxSteps, slots>>, resyncOnNextPacket' = FALSE
  PROVE  IInv'
<1> DEFINE age == Minus(HeadFor(sn), sn)
           idx == SlotAt(age)
<1>0. /\ maxSteps \in Nat \ {0} /\ step \in 0 .. maxSteps - 1
      /\ slots \in [0 .. maxSteps - 1 -> 0 .. maxSteps - 1]
      /\ MemFor \in [0 .. maxSteps - 1 -> Contents]
      /\ HeadFor(sn) \in SN
  BY Rebased DEF IInv, TypeOK
<1>1. age \in SN /\ Minus(HeadFor(sn), age) = sn /\ age \in Nat /\ age < Range
  BY <1>0, MinusFacts, RangeAssumption DEF SN
<1>2. headSN' = HeadFor(sn) /\ step' = step
  BY DEF SetOld
<1>3. idx \in 0 .. maxSteps - 1 /\ slots[idx] \in 0 .. maxSteps - 1
  <2>1. age \in Int
    BY <1>1
  <2> HIDE DEF age
  <2> QED BY <1>0, <2>1, SlotAtRange
<1>4. \A a \in 0 .. maxSteps - 1 : SlotAt(a)' = SlotAt(a)
  BY <1>2 DEF SlotAt, Wrap
<1>5. OwnBuffer' /\ FreshIsEmpty'
  BY DEF IInv, OwnBuffer, FreshIsEmpty
<1>6. ASSUME mem' = MemFor, ret' \in {"tooOld", "rtx", "rtxSize"} PROVE IInv'
  <2>1. TypeOK' /\ (ret # "mismatch")'
    BY <1>0, <1>2, <1>6 DEF TypeOK
  <2>2. WindowOrder'
    BY <1>2, <1>4, <1>6, Rebased DEF WindowOrder, Valid
  <2> QED BY <1>5, <2>1, <2>2 DEF IInv
<1>7. CASE age >= maxSteps
  <2>1. mem' = MemFor /\ ret' = "tooOld"
    BY <1>0, <1>1, <1>7 DEF SetOld
  <2> QED BY <1>6, <2>1
<1>8. CASE age < maxSteps /\ Valid(MemFor, slots[idx])
  <2>1. mem' = MemFor
    BY <1>0, <1>1, <1>8 DEF SetOld
  <2>2. ret' = IF MemFor[slots[idx]].size # SizeOf[pkt] THEN "rtxSize"
               ELSE IF MemFor[slots[idx]].sn = Low(sn) THEN "rtx" ELSE "mismatch"
    BY <1>0, <1>1, <1>8 DEF SetOld
  <2>3. age \in 0 .. maxSteps - 1
    BY <1>0, <1>1, <1>8
  <2>4. MemFor[slots[idx]].esn = sn
    <3> HIDE DEF age
    <3> QED BY <1>1, <1>8, <2>3, Rebased
  <2>5. MemFor[slots[idx]].sn = Low(sn)
    <3>1. MemFor[slots[idx]] \in Contents /\ MemFor[slots[idx]].size # InvalidPktSize
      BY <1>0, <1>3, <1>8 DEF Valid
    <3> QED BY <2>4, <3>1, ContentFacts
  <2>6. ret' \in {"rtx", "rtxSize"}
    BY <2>2, <2>5
  <2> QED BY <1>6, <2>1, <2>6
<1>9. CASE age < maxSteps /\ ~Valid(MemFor, slots[idx])
  <2>1. mem' = [MemFor EXCEPT ![slots[idx]] = Entry(pkt, sn)] /\ ret' = "ok"
    BY <1>0, <1>1, <1>9 DEF SetOld, Store
  <2>2. age \in 0 .. maxSteps - 1
    BY <1>0, <1>1, <1>9
  <2> HIDE DEF age
  <2>3. /\ mem' \in [0 .. maxSteps - 1 -> Contents]
        /\ mem'[slots[idx]] = Entry(pkt, sn)
        /\ \A b \in 0 .. maxSteps - 1 : b # slots[idx] => mem'[b] = MemFor[b]
    <3> HIDE DEF idx
    <3> QED BY <1>0, <1>3, <2>1, EntryFacts
  <2>4. TypeOK' /\ (ret # "mismatch")'
    BY <1>0, <1>2, <2>1, <2>3 DEF TypeOK
  <2>5. WindowOrder'
    <3> SUFFICES ASSUME NEW a \in 0 .. maxSteps - 1,
                        Valid(mem', slots[SlotAt(a)]), a < Range
                 PROVE  mem'[slots[SlotAt(a)]].esn = Minus(HeadFor(sn), a)
      BY <1>2, <1>4 DEF WindowOrder, Valid
    <3>1. SlotAt(a) \in 0 .. maxSteps - 1 /\ slots[SlotAt(a)] \in 0 .. maxSteps - 1
      <4>1. a \in Int
        BY <1>0
      <4> QED BY <1>0, <4>1, SlotAtRange
    <3>2. CASE a = age
      BY <1>1, <2>3, <3>2, EntryFacts
    <3>3. CASE a # age
      <4>1. slots[SlotAt(a)] # slots[idx]
        BY <1>0, <1>3, <2>2, <3>1, <3>3, SlotAtInjective DEF IInv, OwnBuffer
      <4>2. mem'[slots[SlotAt(a)]] = MemFor[slots[SlotAt(a)]]
        BY <2>3, <3>1, <4>1
      <4> QED BY <4>2, Rebased DEF Valid
    <3> QED BY <3>2, <3>3
  <2> QED BY <1>5, <2>4, <2>5 DEF IInv
<1> QED BY <1>0, <1>1, <1>7, <1>8, <1>9

-----------------------------------------------------------------------------
(* Grow's loop.                                                            *)

Grown == 0 .. maxSteps + InitCapacity - 1

Hole(b) == b >= maxSteps \/ ~Valid(mem, b)

\* The loop invariant, after the body ran for i and above: no slot was lost or
\* doubled, slots below i are untouched, each valid slot from i on has moved
\* up by InitCapacity, and what else is from i on is a hole.
LoopInv(s, i) ==
  /\ s \in [Grown -> Grown]
  /\ \A j, k \in Grown : s[j] = s[k] => j = k
  /\ \A q \in 0 .. i - 1 : s[q] = slots[q]
  /\ \A q \in i .. maxSteps - 1 : Valid(mem, slots[q]) => s[q + InitCapacity] = slots[q]
  /\ \A q \in i .. maxSteps + InitCapacity - 1 :
       \/ q - InitCapacity >= i /\ Valid(mem, slots[q - InitCapacity])
       \/ Hole(s[q])

\* The loop is well defined: SwappedFrom satisfies its recursive definition.
LEMMA SwappedFromUnfolds ==
  ASSUME IInv
  PROVE  SwappedFrom =
           [i \in step .. maxSteps |->
              IF i = maxSteps THEN Appended
              ELSE IF Valid(mem, slots[i]) THEN Swap(SwappedFrom[i + 1], i, i + InitCapacity)
              ELSE SwappedFrom[i + 1]]
<1> DEFINE V == [Grown -> Grown]
           G == [i \in step .. maxSteps - 1 |->
                  [s \in V |-> IF Valid(mem, slots[i]) THEN Swap(s, i, i + InitCapacity) ELSE s]]
           Body(f) == [i \in step .. maxSteps |->
                        IF i = maxSteps THEN Appended
                        ELSE IF Valid(mem, slots[i]) THEN Swap(f[i + 1], i, i + InitCapacity)
                        ELSE f[i + 1]]
<1>0. /\ maxSteps \in Nat \ {0} /\ step \in 0 .. maxSteps - 1
      /\ slots \in [0 .. maxSteps - 1 -> 0 .. maxSteps - 1]
      /\ InitCapacity \in Nat \ {0}
  BY CapacityAssumption DEF IInv, TypeOK
<1>1. Appended \in V
  BY <1>0 DEF Appended, Grown
<1>2. \A i \in step .. maxSteps - 1, s \in V : Swap(s, i, i + InitCapacity) \in V
  <2> SUFFICES ASSUME NEW i \in step .. maxSteps - 1, NEW s \in V
               PROVE  Swap(s, i, i + InitCapacity) \in V
    OBVIOUS
  <2>1. i \in Grown /\ i + InitCapacity \in Grown
    BY <1>0 DEF Grown
  <2> QED BY <2>1 DEF Swap
<1>3. G \in [step .. maxSteps - 1 -> [V -> V]]
  <2> HIDE DEF V
  <2> QED BY <1>2
<1>4. PICK f : CountsDown(f, step, maxSteps, V, Appended, G)
  <2>1. step \in Int /\ maxSteps \in Int /\ step <= maxSteps
    BY <1>0
  <2> HIDE DEF V, G
  <2> QED BY <1>1, <1>3, <2>1, DownwardRecursion
<1>5. \A i \in step .. maxSteps - 1 :
        f[i] = IF Valid(mem, slots[i]) THEN Swap(f[i + 1], i, i + InitCapacity) ELSE f[i + 1]
  <2> SUFFICES ASSUME NEW i \in step .. maxSteps - 1
               PROVE  f[i] = IF Valid(mem, slots[i]) THEN Swap(f[i + 1], i, i + InitCapacity)
                             ELSE f[i + 1]
    OBVIOUS
  <2>1. f[i + 1] \in V
    <3> HIDE DEF V
    <3> QED BY <1>0, <1>4 DEF CountsDown
  <2>2. f[i] = G[i][f[i + 1]]
    <3> HIDE DEF G, V
    <3> QED BY <1>4 DEF CountsDown
  <2> HIDE DEF V
  <2> QED BY <2>1, <2>2
<1>6. f = Body(f)
  <2> HIDE DEF V, G
  <2>1. f \in [step .. maxSteps -> V] /\ f[maxSteps] = Appended
    BY <1>4 DEF CountsDown
  <2>2. \A i \in step .. maxSteps : i # maxSteps => i \in step .. maxSteps - 1
    BY <1>0
  <2>3. ASSUME NEW i \in step .. maxSteps PROVE f[i] = Body(f)[i]
    <3>1. CASE i = maxSteps
      BY <2>1, <3>1
    <3>2. CASE i # maxSteps
      <4>1. f[i] = IF Valid(mem, slots[i]) THEN Swap(f[i + 1], i, i + InitCapacity) ELSE f[i + 1]
        BY <1>5, <2>2, <3>2
      <4> QED BY <3>2, <4>1
    <3> QED BY <3>1, <3>2
  <2> DEFINE D == step .. maxSteps
             b == Body(f)
  <2>4. f = [i \in D |-> f[i]] /\ b = [i \in D |-> b[i]]
    BY <2>1
  <2>5. \A i \in D : f[i] = b[i]
    BY <2>3
  <2> HIDE DEF D, b
  <2>6. f = b
    BY <2>4, <2>5
  <2> QED BY <2>6 DEF b
<1>7. SwappedFrom = CHOOSE g : g = Body(g)
  BY DEF SwappedFrom
<1> HIDE DEF Body
<1>8. SwappedFrom = Body(SwappedFrom)
  BY <1>6, <1>7
<1> QED BY <1>8 DEF Body

\* One iteration of the loop, for a valid slot.
LEMMA SwapPreserves ==
  ASSUME IInv, NEW i \in step .. maxSteps - 1, NEW s, LoopInv(s, i + 1), Valid(mem, slots[i])
  PROVE  LoopInv(Swap(s, i, i + InitCapacity), i)
<1> DEFINE C == InitCapacity
           t == Swap(s, i, i + C)
<1>0. /\ maxSteps \in Nat \ {0} /\ step \in 0 .. maxSteps - 1 /\ C \in Nat \ {0}
      /\ slots \in [0 .. maxSteps - 1 -> 0 .. maxSteps - 1]
  BY CapacityAssumption DEF IInv, TypeOK
<1>1. i \in Grown /\ i + C \in Grown /\ i # i + C /\ i \in Nat
  BY <1>0 DEF Grown
<1>2. s \in [Grown -> Grown] /\ \A j, k \in Grown : s[j] = s[k] => j = k
  BY DEF LoopInv
<1>3. /\ t \in [Grown -> Grown] /\ t[i] = s[i + C] /\ t[i + C] = s[i]
      /\ \A q \in Grown : q # i /\ q # i + C => t[q] = s[q]
  <2> HIDE DEF C
  <2> QED BY <1>1, <1>2 DEF Swap
<1> HIDE DEF t
<1>4. \A j, k \in Grown : t[j] = t[k] => j = k
  BY <1>1, <1>2, <1>3, Zenon
<1>5. s[i] = slots[i]
  BY <1>0, <1>1 DEF LoopInv
<1>6. Hole(s[i + C])
  <2> DEFINE q == i + C
  <2>1. q \in i + 1 .. maxSteps + C - 1 /\ ~(q - C >= i + 1)
    BY <1>0
  <2> HIDE DEF q
  <2>2. (q - C >= i + 1 /\ Valid(mem, slots[q - C])) \/ Hole(s[q])
    BY <2>1 DEF LoopInv
  <2> QED BY <2>1, <2>2 DEF q
<1>7. ASSUME NEW q \in 0 .. i - 1 PROVE t[q] = slots[q]
  <2>1. q \in Grown /\ q # i /\ q # i + C /\ q \in 0 .. (i + 1) - 1
    BY <1>0 DEF Grown
  <2>2. s[q] = slots[q]
    BY <2>1 DEF LoopInv
  <2> QED BY <1>3, <2>1, <2>2
<1>8. ASSUME NEW q \in i .. maxSteps - 1, Valid(mem, slots[q]) PROVE t[q + C] = slots[q]
  <2>1. CASE q = i
    BY <1>3, <1>5, <2>1
  <2>2. CASE q # i
    <3>1. q \in i + 1 .. maxSteps - 1 /\ q + C \in Grown /\ q + C # i /\ q + C # i + C
      BY <1>0, <2>2 DEF Grown
    <3>2. s[q + C] = slots[q]
      BY <1>8, <3>1 DEF LoopInv
    <3> QED BY <1>3, <3>1, <3>2
  <2> QED BY <2>1, <2>2
<1>9. ASSUME NEW q \in i .. maxSteps + C - 1
      PROVE  (q - C >= i /\ Valid(mem, slots[q - C])) \/ Hole(t[q])
  <2>1. CASE q = i
    BY <1>3, <1>6, <2>1
  <2>2. CASE q = i + C
    <3>1. q - C = i
      BY <1>0, <2>2
    <3> QED BY <1>0, <3>1
  <2>3. CASE q # i /\ q # i + C
    <3>1. q \in Grown /\ q \in i + 1 .. maxSteps + C - 1
      BY <1>0, <2>3 DEF Grown
    <3>2. (q - C >= i + 1 /\ Valid(mem, slots[q - C])) \/ Hole(s[q])
      BY <3>1 DEF LoopInv
    <3>3. t[q] = s[q]
      BY <1>3, <2>3, <3>1
    <3> QED BY <1>0, <3>2, <3>3
  <2> QED BY <2>1, <2>2, <2>3
<1> QED BY <1>3, <1>4, <1>7, <1>8, <1>9 DEF LoopInv, t

\* One iteration of the loop, for a slot that holds nothing.
LEMMA SkipPreserves ==
  ASSUME IInv, NEW i \in step .. maxSteps - 1, NEW s, LoopInv(s, i + 1), ~Valid(mem, slots[i])
  PROVE  LoopInv(s, i)
<1>0. /\ maxSteps \in Nat \ {0} /\ step \in 0 .. maxSteps - 1 /\ InitCapacity \in Nat \ {0}
      /\ slots \in [0 .. maxSteps - 1 -> 0 .. maxSteps - 1]
  BY CapacityAssumption DEF IInv, TypeOK
<1>1. s \in [Grown -> Grown] /\ \A j, k \in Grown : s[j] = s[k] => j = k
  BY DEF LoopInv
<1>2. \A q \in 0 .. i : s[q] = slots[q]
  <2>1. (i + 1) - 1 = i
    BY <1>0
  <2> QED BY <2>1 DEF LoopInv
<1>3. ASSUME NEW q \in i .. maxSteps - 1, Valid(mem, slots[q])
      PROVE  s[q + InitCapacity] = slots[q]
  <2>1. q \in i + 1 .. maxSteps - 1
    BY <1>0, <1>3
  <2> QED BY <1>3, <2>1 DEF LoopInv
<1>4. ASSUME NEW q \in i .. maxSteps + InitCapacity - 1
      PROVE  (q - InitCapacity >= i /\ Valid(mem, slots[q - InitCapacity])) \/ Hole(s[q])
  <2>1. CASE q = i
    BY <1>0, <1>2, <2>1 DEF Hole
  <2>2. CASE q # i
    <3>1. q \in i + 1 .. maxSteps + InitCapacity - 1
      BY <1>0, <2>2
    <3>2. (q - InitCapacity >= i + 1 /\ Valid(mem, slots[q - InitCapacity])) \/ Hole(s[q])
      BY <3>1 DEF LoopInv
    <3> QED BY <1>0, <3>2
  <2> QED BY <2>1, <2>2
<1>5. \A q \in 0 .. i - 1 : s[q] = slots[q]
  BY <1>0, <1>2
<1> QED BY <1>1, <1>3, <1>4, <1>5 DEF LoopInv

\* The slots Grow installs satisfy the loop invariant at its exit.
LEMMA GrownSlotsInv ==
  ASSUME IInv
  PROVE  LoopInv(GrownSlots, step)
<1> DEFINE P == { i \in step .. maxSteps : LoopInv(SwappedFrom[i], i) }
<1>0. /\ maxSteps \in Nat \ {0} /\ step \in 0 .. maxSteps - 1 /\ InitCapacity \in Nat \ {0}
      /\ slots \in [0 .. maxSteps - 1 -> 0 .. maxSteps - 1]
  BY CapacityAssumption DEF IInv, TypeOK
<1>1. /\ SwappedFrom[maxSteps] = Appended
      /\ \A i \in step .. maxSteps - 1 :
           SwappedFrom[i] = IF Valid(mem, slots[i])
                            THEN Swap(SwappedFrom[i + 1], i, i + InitCapacity)
                            ELSE SwappedFrom[i + 1]
  <2> DEFINE f == SwappedFrom
  <2>1. f = [i \in step .. maxSteps |->
               IF i = maxSteps THEN Appended
               ELSE IF Valid(mem, slots[i]) THEN Swap(f[i + 1], i, i + InitCapacity)
               ELSE f[i + 1]]
    BY SwappedFromUnfolds
  <2> HIDE DEF f
  <2>2. maxSteps \in step .. maxSteps
    BY <1>0
  <2>3. f[maxSteps] = Appended
    BY <2>1, <2>2
  <2>4. ASSUME NEW i \in step .. maxSteps - 1
        PROVE  f[i] = IF Valid(mem, slots[i]) THEN Swap(f[i + 1], i, i + InitCapacity)
                      ELSE f[i + 1]
    <3>1. i \in step .. maxSteps /\ i # maxSteps
      BY <1>0
    <3> QED BY <2>1, <3>1
  <2> QED BY <2>3, <2>4 DEF f
<1>2. maxSteps \in P
  <2>1. Appended \in [Grown -> Grown]
    BY <1>0 DEF Appended, Grown
  <2>2. \A j, k \in Grown : Appended[j] = Appended[k] => j = k
    BY <1>0 DEF Appended, Grown, IInv, OwnBuffer
  <2>3. \A q \in 0 .. maxSteps - 1 : Appended[q] = slots[q]
    BY <1>0 DEF Appended
  <2>4. \A q \in maxSteps .. maxSteps + InitCapacity - 1 : Hole(Appended[q])
    BY <1>0 DEF Appended, Hole
  <2>5. LoopInv(Appended, maxSteps)
    BY <1>0, <2>1, <2>2, <2>3, <2>4 DEF LoopInv
  <2> QED BY <1>0, <1>1, <2>5
<1>3. ASSUME NEW i \in step .. maxSteps - 1, i + 1 \in P PROVE i \in P
  <2>1. LoopInv(SwappedFrom[i + 1], i + 1)
    BY <1>3
  <2>2. LoopInv(SwappedFrom[i], i)
    BY <1>1, <2>1, SwapPreserves, SkipPreserves
  <2> QED BY <1>0, <2>2
<1>4. P \in SUBSET (step .. maxSteps) /\ step \in step .. maxSteps
      /\ step \in Int /\ maxSteps \in Int /\ step <= maxSteps
  BY <1>0
<1>5. \A i \in step .. maxSteps - 1 : i + 1 \in P => i \in P
  BY <1>3
<1>6. step \in P
  <2> HIDE DEF P
  <2>1. \A i \in step .. maxSteps : i \in P
    BY <1>2, <1>4, <1>5, DownwardInduction
  <2> QED BY <1>4, <2>1
<1> QED BY <1>6 DEF GrownSlots

\* Grow keeps the window: in a ring that is InitCapacity slots longer, the packets it
\* holds keep their ages and buffers, and everything else is a hole.
LEMMA GrowRing ==
  ASSUME IInv, Grow, NEW a \in 0 .. maxSteps + InitCapacity - 1
  PROVE  LET b == slots'[(step - a - 1) % (maxSteps + InitCapacity)]
             c == slots[SlotAt(a)]
         IN  /\ Valid(mem', b) => a < maxSteps /\ b = c
             /\ a < maxSteps =>
                  c \in 0 .. maxSteps - 1 /\ mem'[c] = mem[c] /\ (Valid(mem, c) => b = c)
<1> DEFINE C == InitCapacity
           q == (step - a - 1) % (maxSteps + C)
           w == SlotAt(a)
<1>0. /\ maxSteps \in Nat \ {0} /\ step \in 0 .. maxSteps - 1 /\ C \in Nat \ {0}
      /\ slots \in [0 .. maxSteps - 1 -> 0 .. maxSteps - 1]
      /\ mem \in [0 .. maxSteps - 1 -> Contents]
  BY CapacityAssumption DEF IInv, TypeOK
<1>1. mem' = [b \in 0 .. maxSteps + C - 1 |-> IF b < maxSteps THEN mem[b] ELSE Empty]
  BY DEF Grow
<1>2. LoopInv(slots', step)
  BY GrownSlotsInv DEF Grow
<1>3. slots' \in [0 .. maxSteps + C - 1 -> 0 .. maxSteps + C - 1]
  BY <1>2 DEF LoopInv, Grown
<1>4. maxSteps + C \in Nat \ {0} /\ step - a - 1 \in Int /\ a \in Int
  BY <1>0
<1>5. slots[w] \in 0 .. maxSteps - 1 /\ mem'[slots[w]] = mem[slots[w]]
  <2>1. slots[w] \in 0 .. maxSteps - 1
    BY <1>0, <1>4, SlotAtRange
  <2> HIDE DEF w
  <2> QED BY <1>0, <1>1, <2>1
<1>6. CASE a < step
  <2> DEFINE x == step - a - 1
  <2>1. x \in 0 .. (maxSteps + C) - 1 /\ x \in 0 .. maxSteps - 1 /\ x \in 0 .. step - 1
    BY <1>0, <1>6
  <2> HIDE DEF x
  <2>2. x % (maxSteps + C) = x /\ x % maxSteps = x
    BY <1>0, <1>4, <2>1, ModSmall
  <2>3. q = x /\ w = x
    BY <2>2 DEF x, SlotAt, Wrap
  <2>4. slots'[x] = slots[x]
    BY <1>2, <2>1 DEF LoopInv
  <2>5. a < maxSteps
    BY <1>0, <1>6
  <2>6. slots'[q] = slots[w]
    BY <2>3, <2>4
  <2> HIDE DEF w
  <2> QED BY <1>5, <2>5, <2>6 DEF w
<1>7. CASE a >= step
  <2> DEFINE x == step - a - 1
             y == x + (maxSteps + C)
  <2>1. /\ -(maxSteps + C) <= x /\ x < 0 /\ x \in Int
        /\ y \in step .. maxSteps + C - 1 /\ y - C = x + maxSteps
    BY <1>0, <1>7
  <2>2. q = y
    <3> HIDE DEF x
    <3>1. x % (maxSteps + C) = x + (maxSteps + C)
      BY <1>4, <2>1, ModBelow
    <3> QED BY <3>1 DEF x
  <2> HIDE DEF x, y
  <2>3. -maxSteps <= x => w = y - C
    <3> SUFFICES ASSUME -maxSteps <= x PROVE w = y - C
      OBVIOUS
    <3>1. x % maxSteps = x + maxSteps
      BY <1>0, <2>1, ModBelow
    <3> QED BY <2>1, <3>1 DEF x, SlotAt, Wrap
  <2>4. ASSUME Valid(mem', slots'[y]) PROVE a < maxSteps /\ slots'[y] = slots[w]
    <3>1. (y - C >= step /\ Valid(mem, slots[y - C])) \/ Hole(slots'[y])
      BY <1>2, <2>1 DEF LoopInv
    <3>2. ~Hole(slots'[y])
      <4>1. y \in 0 .. maxSteps + C - 1
        BY <1>0, <2>1
      <4>2. slots'[y] \in 0 .. maxSteps + C - 1
        BY <1>3, <4>1
      <4> QED BY <1>0, <1>1, <2>4, <4>2 DEF Hole, Valid, Empty
    <3>3. y - C >= step /\ Valid(mem, slots[y - C])
      BY <3>1, <3>2
    <3>4. y - C \in step .. maxSteps - 1 /\ (y - C) + C = y
      BY <1>0, <2>1, <3>3
    <3>5. slots'[y] = slots[y - C]
      BY <1>2, <3>3, <3>4 DEF LoopInv
    <3>6. a < maxSteps /\ -maxSteps <= x
      BY <1>0, <2>1, <3>3 DEF x
    <3> QED BY <2>3, <3>5, <3>6
  <2>5. ASSUME a < maxSteps, Valid(mem, slots[w]) PROVE slots'[y] = slots[w]
    <3>1. -maxSteps <= x
      BY <1>0, <2>5 DEF x
    <3>2. w = y - C /\ y - C \in step .. maxSteps - 1 /\ (y - C) + C = y
      BY <1>0, <2>1, <2>3, <2>5, <3>1 DEF x
    <3>3. slots'[(y - C) + C] = slots[y - C]
      BY <1>2, <2>5, <3>2 DEF LoopInv
    <3> QED BY <3>2, <3>3
  <2> HIDE DEF w, q
  <2> QED BY <1>5, <2>2, <2>4, <2>5 DEF w, q
<1> QED BY <1>0, <1>6, <1>7

LEMMA GrowPreserves ==
  ASSUME IInv, Grow
  PROVE  IInv'
<1> DEFINE C == InitCapacity
<1>0. /\ maxSteps \in Nat \ {0} /\ step \in 0 .. maxSteps - 1 /\ C \in Nat \ {0}
      /\ slots \in [0 .. maxSteps - 1 -> 0 .. maxSteps - 1]
      /\ mem \in [0 .. maxSteps - 1 -> Contents]
      /\ init \in BOOLEAN /\ resyncOnNextPacket \in BOOLEAN /\ headSN \in SN
  BY CapacityAssumption DEF IInv, TypeOK
<1>1. /\ maxSteps' = maxSteps + C /\ slots' = GrownSlots /\ ret' = "none"
      /\ mem' = [b \in 0 .. maxSteps + C - 1 |-> IF b < maxSteps THEN mem[b] ELSE Empty]
      /\ step' = step /\ headSN' = headSN /\ init' = init
      /\ resyncOnNextPacket' = resyncOnNextPacket
  BY DEF Grow
<1>2. LoopInv(slots', step)
  BY <1>1, GrownSlotsInv
<1>3. /\ slots' \in [0 .. maxSteps + C - 1 -> 0 .. maxSteps + C - 1]
      /\ \A j, k \in 0 .. maxSteps + C - 1 : slots'[j] = slots'[k] => j = k
  BY <1>2 DEF LoopInv, Grown
<1>4. TypeOK'
  <2>1. maxSteps' \in Nat \ {0} /\ step' \in 0 .. maxSteps' - 1
    BY <1>0, <1>1
  <2>2. mem' \in [0 .. maxSteps + C - 1 -> Contents]
    BY <1>0, <1>1 DEF Contents
  <2> QED BY <1>0, <1>1, <1>3, <2>1, <2>2 DEF TypeOK
<1>5. OwnBuffer'
  <2>1. maxSteps' = maxSteps + C
    BY <1>1
  <2> HIDE DEF C
  <2> QED BY <1>0, <1>3, <2>1 DEF OwnBuffer
<1>6. FreshIsEmpty' /\ (ret # "mismatch")'
  <2>1. \A b \in 0 .. maxSteps - 1 : ~init => ~Valid(mem, b)
    BY DEF IInv, FreshIsEmpty
  <2>2. \A b \in 0 .. maxSteps + C - 1 : ~init => ~Valid(mem', b)
    BY <1>0, <1>1, <2>1 DEF Valid, Empty
  <2>3. maxSteps' = maxSteps + C /\ init' = init /\ ret' = "none"
    BY <1>1
  <2> HIDE DEF C
  <2> QED BY <1>0, <2>2, <2>3 DEF FreshIsEmpty, Valid
<1>7. WindowOrder'
  <2> SUFFICES ASSUME NEW a \in 0 .. maxSteps + C - 1,
                      Valid(mem', slots'[(step - a - 1) % (maxSteps + C)]), a < Range
               PROVE  mem'[slots'[(step - a - 1) % (maxSteps + C)]].esn = Minus(headSN, a)
    <3>1. maxSteps' = maxSteps + C /\ headSN' = headSN /\ step' = step
      BY <1>1
    <3> HIDE DEF C
    <3> QED BY <1>0, <3>1 DEF WindowOrder, SlotAt, Wrap, Valid
  <2> DEFINE b == slots'[(step - a - 1) % (maxSteps + C)]
             c == slots[SlotAt(a)]
  <2>1. a < maxSteps /\ b = c /\ mem'[c] = mem[c]
    BY GrowRing
  <2>2. a \in 0 .. maxSteps - 1 /\ Valid(mem, c)
    <3> HIDE DEF c
    <3> QED BY <1>0, <2>1 DEF Valid
  <2>3. mem[c].esn = Minus(headSN, a)
    BY <2>2 DEF IInv, WindowOrder
  <2> HIDE DEF b, c
  <2> QED BY <2>1, <2>3 DEF b
<1> QED BY <1>4, <1>5, <1>6, <1>7 DEF IInv

-----------------------------------------------------------------------------
(* The operations, and the theorems.                                       *)

\* A newly created bucket satisfies the invariant.
LEMMA InitIInv == Init => IInv
<1> SUFFICES ASSUME Init PROVE IInv
  OBVIOUS
<1>1. /\ InitCapacity \in Nat \ {0} /\ 0 \in SN
      /\ Empty \in Contents
  BY CapacityAssumption, RangeAssumption DEF SN, Contents
<1>2. TypeOK
  <2>1. slots \in [0 .. maxSteps - 1 -> 0 .. maxSteps - 1]
    BY DEF Init
  <2>2. mem \in [0 .. maxSteps - 1 -> Contents]
    BY <1>1 DEF Init
  <2>3. maxSteps \in Nat \ {0} /\ step \in 0 .. maxSteps - 1
    BY <1>1 DEF Init
  <2> QED BY <1>1, <2>1, <2>2, <2>3 DEF Init, TypeOK
<1>3. OwnBuffer
  BY <1>1 DEF Init, OwnBuffer
<1>4. \A b \in 0 .. maxSteps - 1 : ~Valid(mem, b)
  BY <1>1 DEF Init, Valid, Empty
<1>5. WindowOrder
  <2>1. \A a \in 0 .. maxSteps - 1 : slots[SlotAt(a)] \in 0 .. maxSteps - 1
    <3> SUFFICES ASSUME NEW a \in 0 .. maxSteps - 1
                 PROVE  slots[SlotAt(a)] \in 0 .. maxSteps - 1
      OBVIOUS
    <3>1. SlotAt(a) \in 0 .. maxSteps - 1
      <4>1. a \in Int
        BY <1>2 DEF TypeOK
      <4> QED BY <1>2, <4>1, SlotAtRange DEF TypeOK
    <3> QED BY <1>2, <3>1 DEF TypeOK
  <2> QED BY <1>4, <2>1 DEF WindowOrder
<1>6. FreshIsEmpty /\ ret # "mismatch"
  BY <1>4 DEF FreshIsEmpty, Init
<1> QED BY <1>2, <1>3, <1>5, <1>6 DEF IInv

\* A packet offered to the bucket, on either path of addPacket.
LEMMA AddPreserves ==
  ASSUME IInv, NEW pkt \in Packets, NEW sn \in SN, addPacket(pkt, sn)
  PROVE  IInv'
<1> DEFINE diff == Minus(sn, HeadFor(sn))
<1>1. diff \in SN
  BY Rebased, MinusFacts
<1>2. /\ ~TooLarge(pkt) /\ init' = TRUE /\ resyncOnNextPacket' = FALSE
      /\ UNCHANGED <<maxSteps, slots>>
  BY DEF addPacket
<1>3. CASE IsNewer(diff) /\ Push(pkt, sn, diff - 1)
  <2>1. diff - 1 \in Nat /\ diff = (diff - 1) + 1
    BY <1>1, <1>3, RangeAssumption DEF IsNewer, SN
  <2> DEFINE g == diff - 1
  <2>2. g \in Nat /\ Minus(sn, HeadFor(sn)) = g + 1 /\ Push(pkt, sn, g)
    BY <1>3, <2>1
  <2> HIDE DEF g
  <2> QED BY <1>2, <2>2, PushPreserves
<1>4. CASE SetOld(pkt, sn, Minus(HeadFor(sn), sn))
  BY <1>2, <1>4, SetOldPreserves
<1> QED BY <1>3, <1>4 DEF addPacket

\* A step that leaves the ring alone.
LEMMA StutterPreserves ==
  ASSUME IInv, UNCHANGED <<init, step, headSN, maxSteps, slots, mem>>,
         resyncOnNextPacket' \in BOOLEAN, ret' \in {ret, "none", "tooLarge"}
  PROVE  IInv'
<1>1. TypeOK'
  BY DEF IInv, TypeOK
<1>2. OwnBuffer' /\ FreshIsEmpty' /\ (ret # "mismatch")'
  BY DEF IInv, OwnBuffer, FreshIsEmpty, Valid
<1>3. WindowOrder'
  BY DEF IInv, WindowOrder, SlotAt, Wrap, Valid
<1> QED BY <1>1, <1>2, <1>3 DEF IInv

\* Every operation of the bucket preserves the invariant.
LEMMA NextIInv == IInv /\ [Next]_vars => IInv'
<1> SUFFICES ASSUME IInv, [Next]_vars PROVE IInv'
  OBVIOUS
<1>1. ASSUME NEW pkt \in Packets, NEW sn \in SN, Reject(pkt) PROVE IInv'
  <2>1. resyncOnNextPacket' \in BOOLEAN
    BY <1>1 DEF Reject, IInv, TypeOK
  <2> QED BY <1>1, <2>1, StutterPreserves DEF Reject
<1>2. CASE \E pkt \in Packets, sn \in SN :
             AddPacket(pkt, sn) \/ AddPacketWithSequenceNumber(pkt, sn)
  BY <1>1, <1>2, AddPreserves DEF AddPacket, AddPacketWithSequenceNumber
<1>3. CASE ResyncOnNextPacket
  BY <1>3, StutterPreserves DEF ResyncOnNextPacket
<1>4. CASE Grow
  BY <1>4, GrowPreserves
<1>5. CASE UNCHANGED vars
  <2>1. resyncOnNextPacket' \in BOOLEAN
    BY <1>5 DEF vars, IInv, TypeOK
  <2> QED BY <1>5, <2>1, StutterPreserves DEF vars
<1> QED BY <1>2, <1>3, <1>4, <1>5 DEF Next

\* What GetPacket finds under the invariant is the packet that was asked for.
LEMMA IInvNeverAnother == IInv => NeverAnotherPacket
<1> SUFFICES ASSUME IInv PROVE NeverAnotherPacket
  OBVIOUS
<1>0. /\ maxSteps \in Nat \ {0} /\ step \in 0 .. maxSteps - 1 /\ headSN \in SN
      /\ slots \in [0 .. maxSteps - 1 -> 0 .. maxSteps - 1]
      /\ mem \in [0 .. maxSteps - 1 -> Contents]
  BY DEF IInv, TypeOK
<1> SUFFICES ASSUME NEW sn \in SN
             PROVE  LET found == GetPacket(sn, MaxPktSize) IN
                    /\ found.err \notin {"mismatch", "bufferTooSmall"}
                    /\ found.err = "ok" => mem[found.buffer].esn = sn
  BY DEF IInv, NeverAnotherPacket
<1> DEFINE age == Minus(headSN, sn)
           b == slots[SlotAt(age)]
<1>1. age \in SN /\ age \in Nat /\ age < Range /\ Minus(headSN, age) = sn
  <2>1. age \in SN /\ Minus(headSN, age) = sn
    BY <1>0, MinusFacts
  <2> HIDE DEF age
  <2> QED BY <2>1, RangeAssumption DEF SN
<1>2. ASSUME age < maxSteps, Valid(mem, b)
      PROVE  mem[b].esn = sn /\ mem[b].sn = Low(sn) /\ ~(MaxPktSize < mem[b].size)
  <2>1. age \in 0 .. maxSteps - 1 /\ age \in Int
    BY <1>0, <1>1, <1>2
  <2> HIDE DEF age
  <2>2. b \in 0 .. maxSteps - 1
    BY <1>0, <2>1, SlotAtRange
  <2>3. mem[b].esn = sn
    BY <1>1, <1>2, <2>1 DEF IInv, WindowOrder
  <2>4. mem[b] \in Contents /\ mem[b].size # InvalidPktSize
    BY <1>0, <1>2, <2>2 DEF Valid
  <2> HIDE DEF b
  <2>5. mem[b].sn = Low(sn)
    BY <2>3, <2>4, ContentFacts
  <2>6. ~(MaxPktSize < mem[b].size)
    <3>1. PICK pkt \in Packets, n \in SN : ~TooLarge(pkt) /\ mem[b] = Entry(pkt, n)
      BY <2>4 DEF Contents, Empty
    <3>2. mem[b].size = SizeOf[pkt]
      BY <3>1, EntryFacts
    <3>3. SizeOf[pkt] \in Nat /\ MaxPktSize \in Nat
      BY <3>1, SizeTypes
    <3>4. SizeOf[pkt] <= MaxPktSize
      BY <3>1, <3>3, SMT DEF TooLarge, MaxStored, PktSizeHeader
    <3> QED BY <3>2, <3>3, <3>4
  <2> QED BY <2>3, <2>5, <2>6
<1> HIDE DEF age, b
<1>3. get(sn, age) = IF age >= maxSteps THEN [err |-> "tooOld"]
                     ELSE IF ~Valid(mem, b) THEN [err |-> "invalid"]
                     ELSE IF mem[b].sn # Low(sn) THEN [err |-> "mismatch"]
                     ELSE [err |-> "ok", buffer |-> b]
  BY DEF get, b
<1>4. GetPacket(sn, MaxPktSize) =
        IF age > HalfRange THEN [err |-> "tooNew"]
        ELSE IF get(sn, age).err = "ok" /\ MaxPktSize < mem[get(sn, age).buffer].size
        THEN [err |-> "bufferTooSmall"] ELSE get(sn, age)
  BY DEF GetPacket, age
<1>5. CASE age > HalfRange
  BY <1>4, <1>5
<1>6. CASE ~(age > HalfRange) /\ age < maxSteps /\ Valid(mem, b)
  <2>0. ~(age >= maxSteps) /\ ~(mem[b].sn # Low(sn))
    BY <1>0, <1>1, <1>2, <1>6
  <2>1. get(sn, age) = [err |-> "ok", buffer |-> b]
    BY <2>0, <1>3, <1>6, Zenon
  <2>2. get(sn, age).err = "ok" /\ get(sn, age).buffer = b
    BY <2>1
  <2>3. GetPacket(sn, MaxPktSize) = get(sn, age)
    BY <1>2, <1>4, <1>6, <2>2
  <2> QED BY <1>2, <1>6, <2>2, <2>3
<1>7. CASE ~(age > HalfRange) /\ ~(age < maxSteps /\ Valid(mem, b))
  <2>0. age >= maxSteps \/ (~(age >= maxSteps) /\ ~Valid(mem, b))
    BY <1>0, <1>1, <1>7
  <2>1. get(sn, age) = [err |-> "tooOld"] \/ get(sn, age) = [err |-> "invalid"]
    BY <2>0, <1>3, Zenon
  <2>2. get(sn, age).err \in {"tooOld", "invalid"}
    BY <2>1
  <2>3. GetPacket(sn, MaxPktSize) = get(sn, age)
    BY <1>4, <1>7, <2>2
  <2> QED BY <2>2, <2>3
<1> QED BY <1>5, <1>6, <1>7

\* Types, for every bucket: in particular the size field of a stored packet is
\* never the invalid marker, whichever of the three widths it has.
THEOREM TypeCorrect == Spec => []TypeOK
<1>1. IInv => TypeOK
  BY DEF IInv
<1> QED BY <1>1, InitIInv, NextIInv, PTL DEF Spec

\* However often Grow moved the slots, no two of them share a buffer.
THEOREM BuffersAreOwned == Spec => []OwnBuffer
<1>1. IInv => OwnBuffer
  BY DEF IInv
<1> QED BY <1>1, InitIInv, NextIInv, PTL DEF Spec

\* The ring is ordered by age, for every capacity (larger than the range of
\* the number type included), number width and sequence of operations.
THEOREM RingIsWindow == Spec => []WindowOrder
<1>1. IInv => WindowOrder
  BY DEF IInv
<1> QED BY <1>1, InitIInv, NextIInv, PTL DEF Spec

\* GetPacket never returns a packet stored for another sequence number, and
\* the mismatch errors of get and set are unreachable.
THEOREM NeverAnother == Spec => []NeverAnotherPacket
  BY InitIInv, NextIInv, IInvNeverAnother, PTL DEF Spec

-----------------------------------------------------------------------------
(* The packets stay, and the ring is the window of PacketWindow.           *)

LEMMA IInvHolds == Spec => []IInv
BY InitIInv, NextIInv, PTL DEF Spec

\* The shape of the ring under the invariant.
LEMMA RingTypes ==
  ASSUME IInv
  PROVE  /\ maxSteps \in Nat \ {0} /\ step \in 0 .. maxSteps - 1 /\ headSN \in SN
         /\ slots \in [0 .. maxSteps - 1 -> 0 .. maxSteps - 1]
         /\ mem \in [0 .. maxSteps - 1 -> Contents]
         /\ \A a \in 0 .. maxSteps - 1 : slots[SlotAt(a)] \in 0 .. maxSteps - 1
<1>1. /\ maxSteps \in Nat \ {0} /\ step \in 0 .. maxSteps - 1 /\ headSN \in SN
      /\ slots \in [0 .. maxSteps - 1 -> 0 .. maxSteps - 1]
      /\ mem \in [0 .. maxSteps - 1 -> Contents]
  BY DEF IInv, TypeOK
<1>2. ASSUME NEW a \in 0 .. maxSteps - 1 PROVE slots[SlotAt(a)] \in 0 .. maxSteps - 1
  <2>1. a \in Int
    BY <1>1
  <2>2. SlotAt(a) \in 0 .. maxSteps - 1
    BY <1>1, <2>1, SlotAtRange
  <2> QED BY <1>1, <2>2
<1> QED BY <1>1, <1>2

\* The slot of age a in the next state.
NextSlot(a) == (step' - a - 1) % maxSteps'

\* What a step does to the packet of age a: it is where it was, moved ages older.
Stays(a) ==
  LET b == slots[SlotAt(a)]
      moved == a + Minus(headSN', headSN)
  IN  moved < maxSteps' => mem'[b] = mem[b] /\ slots'[NextSlot(moved)] = b

LEMMA AddKeepsPackets ==
  ASSUME IInv, NEW pkt \in Packets, NEW sn \in SN, addPacket(pkt, sn), ~resyncOnNextPacket,
         NEW a \in 0 .. maxSteps - 1, Valid(mem, slots[SlotAt(a)])
  PROVE  Stays(a)
<1> DEFINE b == slots[SlotAt(a)]
<1>0. /\ maxSteps \in Nat \ {0} /\ headSN \in SN /\ a \in Nat
      /\ slots \in [0 .. maxSteps - 1 -> 0 .. maxSteps - 1]
      /\ mem \in [0 .. maxSteps - 1 -> Contents] /\ b \in 0 .. maxSteps - 1
  BY RingTypes
<1>1. MemFor = mem
  BY DEF MemFor
<1>2. HeadFor(sn) = headSN
  BY <1>1, RebasedIsEmpty DEF HeadFor
<1>3. maxSteps' = maxSteps /\ slots' = slots /\ ~TooLarge(pkt)
  BY DEF addPacket
<1> DEFINE diff == Minus(sn, headSN)
<1>4. diff \in SN /\ Minus(headSN, headSN) = 0
  BY <1>0, MinusFacts, RangeAssumption DEF Minus, SN
<1>5. CASE IsNewer(diff) /\ Push(pkt, sn, diff - 1)
  <2> DEFINE g == diff - 1
             m == a + Minus(headSN', headSN)
  <2>1. g \in Nat /\ m = a + (g + 1)
    BY <1>4, <1>5, RangeAssumption DEF IsNewer, SN, Push
  <2>2. Push(pkt, sn, g)
    BY <1>5
  <2> HIDE DEF g, m
  <2>3. ASSUME m < maxSteps PROVE mem'[b] = mem[b] /\ slots[(step' - m - 1) % maxSteps] = b
    <3>1. m \in 0 .. maxSteps - 1 /\ m > g /\ m - g - 1 = a
      BY <1>0, <2>1, <2>3
    <3> DEFINE c == slots[(step' - m - 1) % maxSteps]
    <3>2. c = slots[SlotAt(m - g - 1)] /\ mem'[c] = MemFor[c]
      BY <1>3, <2>1, <2>2, <3>1, PushRing
    <3>3. c = b
      BY <3>1, <3>2
    <3> HIDE DEF c, b
    <3> QED BY <1>1, <3>2, <3>3 DEF c
  <2> HIDE DEF b
  <2> QED BY <1>3, <2>3 DEF Stays, NextSlot, b, m
<1>6. CASE SetOld(pkt, sn, Minus(HeadFor(sn), sn))
  <2>1. headSN' = headSN /\ step' = step
    BY <1>2, <1>6 DEF SetOld
  <2>2. a + Minus(headSN', headSN) = a
    BY <1>0, <1>4, <2>1
  <2>3. slots'[NextSlot(a)] = b
    BY <1>3, <2>1 DEF NextSlot, SlotAt, Wrap
  <2>4. mem'[b] = mem[b]
    <3> DEFINE idx == SlotAt(Minus(HeadFor(sn), sn))
    <3>1. mem' = mem \/ (~Valid(mem, slots[idx]) /\ mem' = [mem EXCEPT ![slots[idx]] = Entry(pkt, sn)])
      BY <1>1, <1>6 DEF SetOld, Store
    <3>2. CASE mem' = mem
      BY <3>2
    <3>3. CASE ~Valid(mem, slots[idx]) /\ mem' = [mem EXCEPT ![slots[idx]] = Entry(pkt, sn)]
      <4>1. b # slots[idx]
        BY <3>3
      <4> HIDE DEF b, idx
      <4> QED BY <1>0, <3>3, <4>1
    <3> QED BY <3>1, <3>2, <3>3
  <2> HIDE DEF b
  <2> QED BY <2>2, <2>3, <2>4 DEF Stays, b
<1> QED BY <1>2, <1>5, <1>6 DEF addPacket

\* A step that leaves the ring alone.
LEMMA UnmovedStays ==
  ASSUME IInv, UNCHANGED <<step, headSN, maxSteps, slots, mem>>, NEW a \in 0 .. maxSteps - 1
  PROVE  Stays(a)
<1>1. Minus(headSN', headSN) = 0 /\ a + 0 = a
  BY RingTypes DEF Minus, SN
<1>2. slots'[NextSlot(a)] = slots[SlotAt(a)]
  BY DEF NextSlot, SlotAt, Wrap
<1> QED BY <1>1, <1>2 DEF Stays

LEMMA GrowStays ==
  ASSUME IInv, Grow, NEW a \in 0 .. maxSteps - 1, Valid(mem, slots[SlotAt(a)])
  PROVE  Stays(a)
<1> DEFINE b == slots[SlotAt(a)]
<1>1. Minus(headSN', headSN) = 0 /\ a + 0 = a
  BY RingTypes DEF Minus, SN, Grow
<1>2. maxSteps' = maxSteps + InitCapacity /\ step' = step
  BY DEF Grow
<1>3. a \in 0 .. maxSteps + InitCapacity - 1 /\ a < maxSteps
  BY RingTypes, CapacityAssumption
<1>4. mem'[b] = mem[b] /\ slots'[(step - a - 1) % (maxSteps + InitCapacity)] = b
  BY <1>3, GrowRing
<1> HIDE DEF b
<1> QED BY <1>1, <1>2, <1>4 DEF Stays, NextSlot, b

\* A packet keeps its buffer and its bytes while its number is in the window, until a
\* resync is applied, whatever is pushed, found late or grown (lines 113-125, 139-163,
\* 211-225, 251-275): the slices that AddPacket returned stay good that long.
THEOREM PacketsKeepTheirBuffers == Spec => PacketsStay
<1>1. ASSUME IInv, Next, NEW a \in 0 .. maxSteps - 1, Valid(mem, slots[SlotAt(a)]),
             ~(resyncOnNextPacket /\ ~resyncOnNextPacket')
      PROVE  Stays(a)
  <2>1. ASSUME NEW pkt \in Packets, Reject(pkt) PROVE Stays(a)
    BY <1>1, <2>1, UnmovedStays DEF Reject
  <2>2. ASSUME NEW pkt \in Packets, NEW sn \in SN, addPacket(pkt, sn) PROVE Stays(a)
    <3>1. ~resyncOnNextPacket
      BY <1>1, <2>2 DEF addPacket
    <3> QED BY <1>1, <2>2, <3>1, AddKeepsPackets
  <2>3. CASE ResyncOnNextPacket
    BY <1>1, <2>3, UnmovedStays DEF ResyncOnNextPacket
  <2>4. CASE Grow
    BY <1>1, <2>4, GrowStays
  <2> QED BY <1>1, <2>1, <2>2, <2>3, <2>4 DEF Next, AddPacket, AddPacketWithSequenceNumber
<1>2. IInv /\ [Next]_vars =>
        [\A a \in 0 .. maxSteps - 1 :
           LET b == slots[SlotAt(a)]
               moved == a + Minus(headSN', headSN)
           IN
           /\ Valid(mem, b)
           /\ ~(resyncOnNextPacket /\ ~resyncOnNextPacket')
           /\ moved < maxSteps'
           => /\ mem'[b] = mem[b]
              /\ slots'[(step' - moved - 1) % maxSteps'] = b]_vars
  BY <1>1 DEF Stays, NextSlot
<1> QED BY <1>2, IInvHolds, PTL DEF Spec, PacketsStay
\* A content is a packet that fits, with its length, or nothing.
LEMMA ContentPacket ==
  ASSUME NEW c \in Contents
  PROVE  /\ c.size # InvalidPktSize <=> c.pkt # NoPacket
         /\ c.pkt # NoPacket => c.pkt \in Packets /\ c.size = SizeOf[c.pkt]
<1>1. CASE c = Empty
  BY <1>1 DEF Empty
<1>2. CASE c # Empty
  <2>1. PICK pkt \in Packets, sn \in SN : ~TooLarge(pkt) /\ c = Entry(pkt, sn)
    BY <1>2 DEF Contents
  <2>2. c.pkt = pkt /\ c.size = SizeOf[pkt] /\ c.size # InvalidPktSize
    BY <2>1, EntryFacts DEF Entry
  <2>3. pkt # NoPacket
    BY PacketAssumption
  <2> QED BY <2>2, <2>3
<1> QED BY <1>1, <1>2

\* The window at an age, and whether it is a hole.
LEMMA WindowAt ==
  ASSUME IInv, NEW a \in 0 .. maxSteps - 1
  PROVE  /\ Window[a] = mem[slots[SlotAt(a)]].pkt
         /\ Valid(mem, slots[SlotAt(a)]) <=> Window[a] # NoPacket
<1>1. Window[a] = mem[slots[SlotAt(a)]].pkt
  BY DEF Window
<1>2. mem[slots[SlotAt(a)]] \in Contents
  BY RingTypes
<1> QED BY <1>1, <1>2, ContentPacket DEF Valid

\* The next window, from what the next state has at each age.
LEMMA NextWindow ==
  ASSUME maxSteps' \in Nat,
         NEW f, f = [a \in 0 .. maxSteps' - 1 |-> f[a]],
         \A a \in 0 .. maxSteps' - 1 : mem'[slots'[NextSlot(a)]].pkt = f[a]
  PROVE  Window' = f
<1> DEFINE D == 0 .. maxSteps' - 1
           v == [a \in D |-> mem'[slots'[NextSlot(a)]].pkt]
<1>1. Window' = v
  BY DEF Window, SlotAt, Wrap, NextSlot
<1>2. \A a \in D : v[a] = f[a]
  OBVIOUS
<1>3. v = [a \in D |-> v[a]]
  OBVIOUS
<1>4. f = [a \in D |-> f[a]]
  OBVIOUS
<1> HIDE DEF D, v
<1> QED BY <1>1, <1>2, <1>3, <1>4

\* The fields of PacketWindow that are numbers of the ring.
LEMMA BehindIsMinus == \A x, y : W!Behind(x, y) = Minus(x, y)
BY DEF W!Behind, Minus

\* A push onto the ring restarts the window or slides it.
LEMMA PushIsWindow ==
  ASSUME IInv, NEW pkt \in Packets, NEW sn \in SN, addPacket(pkt, sn),
         IsNewer(Minus(sn, HeadFor(sn))), Push(pkt, sn, Minus(sn, HeadFor(sn)) - 1)
  PROVE  W!Restart(pkt, sn) \/ W!Newer(pkt, sn)
<1> DEFINE diff == Minus(sn, HeadFor(sn))
           H == HalfRange
<1>0. /\ maxSteps \in Nat \ {0} /\ maxSteps' = maxSteps /\ slots' = slots
      /\ init' = TRUE /\ resyncOnNextPacket' = FALSE /\ ~TooLarge(pkt)
      /\ headSN' = sn /\ ret' = "ok"
      /\ init \in BOOLEAN /\ resyncOnNextPacket \in BOOLEAN /\ headSN \in SN
  BY DEF addPacket, Push, IInv, TypeOK
<1>1. diff \in SN /\ H \in Nat /\ Range \in Nat
  BY Rebased, MinusFacts, RangeAssumption DEF HalfRange
<1>2. PICK g \in Nat : /\ g = diff - 1 /\ diff \in 1 .. H /\ g + 1 = diff
                       /\ Push(pkt, sn, g)
  <2>1. diff - 1 \in Nat /\ diff \in 1 .. H /\ (diff - 1) + 1 = diff
    BY <1>1, RangeAssumption DEF IsNewer, SN
  <2>2. Push(pkt, sn, diff - 1)
    OBVIOUS
  <2> HIDE DEF diff, H
  <2> QED BY <2>1, <2>2
<1> HIDE DEF diff, H
<1>3. \A a \in 0 .. maxSteps - 1 :
        LET b == slots[(step' - a - 1) % maxSteps] IN
        /\ a = 0 => mem'[b] = Entry(pkt, sn)
        /\ a \in 1 .. g => mem'[b] = Empty
        /\ a > g => b = slots[SlotAt(a - g - 1)] /\ mem'[b] = MemFor[b]
  <2>1. IInv /\ pkt \in Packets /\ sn \in SN /\ ~TooLarge(pkt) /\ g \in Nat /\ Push(pkt, sn, g)
    BY <1>0, <1>2
  <2> QED BY ONLY <2>1, PushRing
<1>4. SizeOf[pkt] <= MaxStored
  <2>1. SizeOf[pkt] \in Nat /\ MaxStored \in Int
    BY SizeTypes, SMT DEF MaxStored, PktSizeHeader
  <2> QED BY <1>0, <2>1 DEF TooLarge
<1>5. ASSUME NEW a \in 0 .. maxSteps - 1
      PROVE  mem'[slots'[NextSlot(a)]].pkt =
               IF a = 0 THEN pkt ELSE IF a < diff THEN NoPacket ELSE MemFor[slots[SlotAt(a - diff)]].pkt
  <2> DEFINE b == slots[(step' - a - 1) % maxSteps]
  <2>1. /\ a = 0 => mem'[b] = Entry(pkt, sn)
        /\ a \in 1 .. g => mem'[b] = Empty
        /\ a > g => b = slots[SlotAt(a - g - 1)] /\ mem'[b] = MemFor[b]
    BY <1>3
  <2>2. slots'[NextSlot(a)] = b
    BY <1>0 DEF NextSlot
  <2> HIDE DEF b
  <2>3. CASE a = 0
    BY <2>1, <2>2, <2>3 DEF Entry
  <2>4. CASE a # 0 /\ a < diff
    <3>1. a \in 1 .. g
      BY <1>0, <1>2, <2>4
    <3> QED BY <2>1, <2>2, <2>4, <3>1 DEF Empty
  <2>5. CASE a # 0 /\ ~(a < diff)
    <3>1. a > g /\ a - g - 1 = a - diff
      BY <1>0, <1>2, <2>5
    <3> QED BY <2>1, <2>2, <2>5, <3>1
  <2> QED BY <2>3, <2>4, <2>5
<1>6. CASE init /\ ~resyncOnNextPacket
  <2>1. MemFor = mem /\ diff = Minus(sn, headSN)
    BY <1>6 DEF MemFor, HeadFor, diff
  <2> DEFINE f == [a \in 0 .. maxSteps - 1 |->
                     IF a = 0 THEN pkt ELSE IF a < diff THEN NoPacket ELSE Window[a - diff]]
  <2>2. ASSUME NEW a \in 0 .. maxSteps - 1 PROVE mem'[slots'[NextSlot(a)]].pkt = f[a]
    <3>1. CASE a = 0 \/ a < diff
      BY <1>5, <3>1
    <3>2. CASE ~(a = 0 \/ a < diff)
      <4>1. a - diff \in 0 .. maxSteps - 1
        BY <1>0, <1>2, <3>2
      <4>2. Window[a - diff] = mem[slots[SlotAt(a - diff)]].pkt
        BY <4>1, WindowAt
      <4> QED BY <1>5, <2>1, <3>2, <4>2
    <3> QED BY <3>1, <3>2
  <2>3. f = [a \in 0 .. maxSteps - 1 |-> f[a]]
    OBVIOUS
  <2> HIDE DEF f
  <2>4. Window' = f
    BY <1>0, <2>2, <2>3, NextWindow
  <2>5. f = W!Slide(Window, diff, pkt)
    BY DEF f, W!Slide
  <2>6. W!Behind(sn, headSN) = diff
    BY <2>1, BehindIsMinus
  <2>7. diff \in 1 .. HalfRange
    BY <1>2 DEF H
  <2>8. W!Newer(pkt, sn)
    BY <1>0, <1>4, <1>6, <2>4, <2>5, <2>6, <2>7 DEF W!Newer
  <2> QED BY <2>8
<1>7. CASE ~init \/ resyncOnNextPacket
  <2>1. diff = 1
    <3>1. HeadFor(sn) = Minus(sn, 1)
      BY <1>7 DEF HeadFor
    <3>2. 1 \in SN
      BY RangeAssumption DEF SN
    <3> QED BY <3>1, <3>2, MinusFacts DEF diff
  <2> DEFINE f == [[a \in 0 .. maxSteps - 1 |-> NoPacket] EXCEPT ![0] = pkt]
  <2>2. \A a \in 0 .. maxSteps - 1 : f[a] = IF a = 0 THEN pkt ELSE NoPacket
    BY <1>0
  <2>3. ASSUME NEW a \in 0 .. maxSteps - 1 PROVE mem'[slots'[NextSlot(a)]].pkt = f[a]
    <3>1. CASE a = 0
      BY <1>5, <2>2, <3>1
    <3>2. CASE a # 0
      <4>1. a - diff \in 0 .. maxSteps - 1 /\ ~(a < diff)
        BY <1>0, <2>1, <3>2
      <4> DEFINE c == a - diff
      <4>2. MemFor[slots[SlotAt(c)]].pkt = NoPacket
        <5> HIDE DEF c
        <5>1. ~Valid(MemFor, slots[SlotAt(c)])
          BY <1>7, <4>1, RebasedIsEmpty DEF c
        <5>2. MemFor[slots[SlotAt(c)]] \in Contents
          BY <4>1, Rebased, RingTypes DEF c
        <5> QED BY <5>1, <5>2, ContentPacket DEF Valid
      <4> QED BY <1>5, <2>2, <3>2, <4>1, <4>2
    <3> QED BY <3>1, <3>2
  <2>4. f = [a \in 0 .. maxSteps - 1 |-> f[a]]
    OBVIOUS
  <2> HIDE DEF f
  <2>5. Window' = f
    BY <1>0, <2>3, <2>4, NextWindow
  <2>6. f = [W!Holes(maxSteps) EXCEPT ![0] = pkt]
    BY DEF f, W!Holes
  <2>7. W!Restart(pkt, sn)
    BY <1>0, <1>4, <1>7, <2>5, <2>6 DEF W!Restart
  <2> QED BY <2>7
<1> QED BY <1>0, <1>6, <1>7

\* set is what the window does with an older number.
LEMMA SetOldIsWindow ==
  ASSUME IInv, NEW pkt \in Packets, NEW sn \in SN, addPacket(pkt, sn),
         ~IsNewer(Minus(sn, HeadFor(sn))), SetOld(pkt, sn, Minus(HeadFor(sn), sn))
  PROVE  W!Older(pkt, sn)
<1> DEFINE age == Minus(headSN, sn)
           idx == SlotAt(age)
<1>0. /\ maxSteps \in Nat \ {0} /\ maxSteps' = maxSteps /\ slots' = slots
      /\ init' = TRUE /\ resyncOnNextPacket' = FALSE /\ ~TooLarge(pkt)
      /\ init \in BOOLEAN /\ resyncOnNextPacket \in BOOLEAN /\ headSN \in SN
      /\ HalfRange \in Nat /\ HalfRange >= 2
  BY RangeAssumption DEF addPacket, IInv, TypeOK, HalfRange
<1>1. init /\ ~resyncOnNextPacket
  <2> SUFFICES ASSUME ~init \/ resyncOnNextPacket PROVE FALSE
    BY <1>0
  <2>1. HeadFor(sn) = Minus(sn, 1)
    BY DEF HeadFor
  <2>2. 1 \in SN
    BY RangeAssumption DEF SN
  <2>3. Minus(sn, HeadFor(sn)) = 1
    BY <2>1, <2>2, MinusFacts
  <2> QED BY <1>0, <2>3 DEF IsNewer
<1>2. HeadFor(sn) = headSN /\ MemFor = mem
  BY <1>1 DEF HeadFor, MemFor
<1>3. headSN' = headSN /\ step' = step
  BY <1>2 DEF SetOld
<1>4. SizeOf[pkt] <= MaxStored
  <2>1. SizeOf[pkt] \in Nat /\ MaxStored \in Int
    BY SizeTypes, SMT DEF MaxStored, PktSizeHeader
  <2> QED BY <1>0, <2>1 DEF TooLarge
<1>5. W!Behind(sn, headSN) \notin 1 .. HalfRange /\ W!Behind(headSN, sn) = age
  <2>1. Minus(sn, headSN) \in SN
    BY <1>0, MinusFacts
  <2> QED BY <1>0, <1>2, <2>1, BehindIsMinus DEF IsNewer
<1>6. age \in SN /\ age \in Nat /\ age < Range /\ Minus(headSN, age) = sn
  BY <1>0, MinusFacts, RangeAssumption DEF SN
<1>7. SetOld(pkt, sn, age)
  BY <1>2
<1>8. \A a \in 0 .. maxSteps - 1 : slots'[NextSlot(a)] = slots[SlotAt(a)]
  BY <1>0, <1>3 DEF NextSlot, SlotAt, Wrap
<1>9. ASSUME mem' = mem PROVE Window' = Window
  BY <1>0, <1>3, <1>9 DEF Window, SlotAt, Wrap
<1> HIDE DEF age
<1>10. CASE age >= maxSteps
  <2>1. mem' = mem /\ ret' = "tooOld"
    BY <1>0, <1>2, <1>6, <1>7, <1>10 DEF SetOld
  <2> QED BY <1>0, <1>1, <1>3, <1>4, <1>5, <1>9, <1>10, <2>1 DEF W!Older
<1>11. CASE age < maxSteps /\ Valid(mem, slots[idx])
  <2>1. mem' = mem /\ ret' = IF mem[slots[idx]].size # SizeOf[pkt] THEN "rtxSize"
                             ELSE IF mem[slots[idx]].sn = Low(sn) THEN "rtx" ELSE "mismatch"
    BY <1>0, <1>2, <1>6, <1>7, <1>11 DEF SetOld
  <2>2. age \in 0 .. maxSteps - 1
    BY <1>0, <1>6, <1>11
  <2>3. mem[slots[idx]].esn = sn
    BY <1>6, <1>11, <2>2 DEF IInv, WindowOrder
  <2>4. mem[slots[idx]] \in Contents
    BY <2>2, RingTypes
  <2>5. mem[slots[idx]].sn = Low(sn)
    BY <1>11, <2>3, <2>4, ContentFacts DEF Valid
  <2>6. Window[age] # NoPacket /\ mem[slots[idx]].size = SizeOf[Window[age]]
    BY <1>11, <2>2, <2>4, WindowAt, ContentPacket DEF Valid
  <2>7. ret' = IF SizeOf[Window[age]] = SizeOf[pkt] THEN "rtx" ELSE "rtxSize"
    BY <2>1, <2>5, <2>6
  <2> QED BY <1>0, <1>1, <1>3, <1>4, <1>5, <1>9, <1>11, <2>1, <2>6, <2>7 DEF W!Older
<1>12. CASE age < maxSteps /\ ~Valid(mem, slots[idx])
  <2>1. mem' = [mem EXCEPT ![slots[idx]] = Entry(pkt, sn)] /\ ret' = "ok"
    BY <1>0, <1>2, <1>6, <1>7, <1>12 DEF SetOld, Store
  <2>2. age \in 0 .. maxSteps - 1
    BY <1>0, <1>6, <1>12
  <2>3. Window[age] = NoPacket
    BY <1>12, <2>2, WindowAt
  <2> DEFINE f == [Window EXCEPT ![age] = pkt]
  <2>4. Window = [a \in 0 .. maxSteps - 1 |-> Window[a]]
    BY DEF Window
  <2>5. ASSUME NEW a \in 0 .. maxSteps - 1 PROVE mem'[slots'[NextSlot(a)]].pkt = f[a]
    <3> DEFINE b == slots[SlotAt(a)]
    <3>1. f[a] = IF a = age THEN pkt ELSE Window[a]
      BY <2>4
    <3>2. b \in 0 .. maxSteps - 1 /\ slots[idx] \in 0 .. maxSteps - 1 /\ mem \in [0 .. maxSteps - 1 -> Contents]
      BY <2>2, RingTypes
    <3>3. CASE a = age
      <4>1. b = slots[idx]
        BY <3>3
      <4>2. mem'[b] = Entry(pkt, sn)
        <5> HIDE DEF b, idx
        <5> QED BY <2>1, <3>2, <4>1
      <4> QED BY <1>8, <3>1, <3>3, <4>2 DEF Entry
    <3>4. CASE a # age
      <4>1. SlotAt(a) \in 0 .. maxSteps - 1 /\ idx \in 0 .. maxSteps - 1
        <5>1. a \in Int /\ age \in Int
          BY <1>0, <1>6
        <5> QED BY <1>0, <5>1, RingTypes, SlotAtRange
      <4>2. b # slots[idx]
        BY <2>2, <3>4, <4>1, RingTypes, SlotAtInjective DEF IInv, OwnBuffer
      <4>3. mem'[b] = mem[b]
        <5> HIDE DEF b, idx
        <5> QED BY <2>1, <3>2, <4>2
      <4> QED BY <1>8, <3>1, <3>4, <4>3, WindowAt
    <3> QED BY <3>3, <3>4
  <2>6. f = [a \in 0 .. maxSteps - 1 |-> f[a]]
    BY <2>4
  <2> HIDE DEF f
  <2>7. Window' = f
    BY <1>0, <2>5, <2>6, NextWindow
  <2> QED BY <1>0, <1>1, <1>3, <1>4, <1>5, <1>12, <2>1, <2>3, <2>7 DEF W!Older, f
<1> QED BY <1>0, <1>6, <1>10, <1>11, <1>12

\* Grow adds holes at the old end of the window.
LEMMA GrowIsWindow ==
  ASSUME IInv, Grow
  PROVE  W!Grow
<1> DEFINE M == maxSteps + InitCapacity
           f == [a \in 0 .. M - 1 |-> IF a < maxSteps THEN Window[a] ELSE NoPacket]
<1>0. /\ maxSteps \in Nat \ {0} /\ InitCapacity \in Nat \ {0} /\ maxSteps' = M /\ M <= MaxCapacity
      /\ UNCHANGED <<init, resyncOnNextPacket, step, headSN>> /\ ret' = "none"
  BY RingTypes, CapacityAssumption DEF Grow
<1>1. mem' \in [0 .. M - 1 -> Contents] /\ \A a \in 0 .. M - 1 : slots'[NextSlot(a)] \in 0 .. M - 1
  <2>1. IInv'
    BY GrowPreserves
  <2>2. mem' \in [0 .. M - 1 -> Contents] /\ \A a \in 0 .. M - 1 : slots'[SlotAt(a)'] \in 0 .. M - 1
    <3>1. /\ mem' \in [0 .. maxSteps' - 1 -> Contents] /\ maxSteps' \in Nat \ {0} /\ step' \in 0 .. maxSteps' - 1
          /\ slots' \in [0 .. maxSteps' - 1 -> 0 .. maxSteps' - 1]
      BY <2>1 DEF IInv, TypeOK
    <3>2. ASSUME NEW a \in 0 .. M - 1 PROVE slots'[SlotAt(a)'] \in 0 .. M - 1
      <4>1. step' - a - 1 \in Int
        BY <1>0, <3>1
      <4>2. (step' - a - 1) % maxSteps' \in 0 .. maxSteps' - 1
        BY <3>1, <4>1, ModRange
      <4> QED BY <1>0, <3>1, <4>2 DEF SlotAt, Wrap
    <3> QED BY <1>0, <3>1, <3>2
  <2> QED BY <2>2 DEF NextSlot, SlotAt, Wrap
<1> HIDE DEF M
<1>2. ASSUME NEW a \in 0 .. M - 1 PROVE mem'[slots'[NextSlot(a)]].pkt = f[a]
  <2> DEFINE b == slots'[NextSlot(a)]
             c == slots[SlotAt(a)]
  <2>1. /\ Valid(mem', b) => a < maxSteps /\ b = c
        /\ a < maxSteps =>
             c \in 0 .. maxSteps - 1 /\ mem'[c] = mem[c] /\ (Valid(mem, c) => b = c)
    BY <1>0, GrowRing DEF NextSlot, M
  <2>2. f[a] = IF a < maxSteps THEN Window[a] ELSE NoPacket
    OBVIOUS
  <2>3. a < maxSteps => Window[a] = mem[c].pkt /\ (Valid(mem, c) <=> Window[a] # NoPacket)
    <3> SUFFICES ASSUME a < maxSteps PROVE Window[a] = mem[c].pkt /\ (Valid(mem, c) <=> Window[a] # NoPacket)
      OBVIOUS
    <3>1. a \in 0 .. maxSteps - 1
      BY <1>0 DEF M
    <3> QED BY <3>1, WindowAt
  <2>4. mem'[b] \in Contents
    BY <1>1
  <2> HIDE DEF b, c, f
  <2>5. CASE Valid(mem', b)
    BY <2>1, <2>2, <2>3, <2>5 DEF b
  <2>6. CASE ~Valid(mem', b)
    <3>1. mem'[b].pkt = NoPacket
      BY <2>4, <2>6, ContentPacket DEF Valid
    <3>2. a < maxSteps => ~Valid(mem, c)
      BY <2>1, <2>6 DEF Valid
    <3> QED BY <2>2, <2>3, <3>1, <3>2 DEF b
  <2> QED BY <2>5, <2>6
<1>3. f = [a \in 0 .. M - 1 |-> f[a]]
  OBVIOUS
<1> HIDE DEF f
<1>4. Window' = f
  BY <1>0, <1>2, <1>3, NextWindow DEF M
<1> QED BY <1>0, <1>4 DEF W!Grow, f, M

\* The whole bucket, operation by operation, is the window of PacketWindow: its ring
\* of slots, its buffers and its size fields show in nothing but when a packet is too
\* large (bucket.go:113-305), for every capacity, number width and set of packets.
THEOREM RingImplementsWindow == Spec => ImplementsWindow
<1>1. Init => W!Init
  <2> SUFFICES ASSUME Init PROVE W!Init
    OBVIOUS
  <2>1. IInv
    BY InitIInv
  <2>2. \A a \in 0 .. maxSteps - 1 : mem[slots[SlotAt(a)]] = Empty
    BY <2>1, RingTypes DEF Init
  <2>3. Window = [a \in 0 .. maxSteps - 1 |-> NoPacket]
    BY <2>2 DEF Window, Empty
  <2> QED BY <2>3 DEF Init, W!Init, W!Holes
<1>2. IInv /\ [Next]_vars => [W!Next]_(W!vars)
  <2> SUFFICES ASSUME IInv, [Next]_vars PROVE [W!Next]_(W!vars)
    OBVIOUS
  <2>1. ASSUME UNCHANGED <<step, maxSteps, slots, mem>> PROVE Window' = Window
    BY <2>1 DEF Window, SlotAt, Wrap
  <2>2. ASSUME NEW pkt \in Packets, NEW sn \in SN, Reject(pkt) PROVE W!Reject(pkt)
    <3>1. SizeOf[pkt] > MaxStored
      BY <2>2 DEF Reject, TooLarge
    <3> QED BY <2>1, <2>2, <3>1 DEF Reject, W!Reject
  <2>3. ASSUME NEW pkt \in Packets, NEW sn \in SN, addPacket(pkt, sn)
        PROVE  W!Restart(pkt, sn) \/ W!Newer(pkt, sn) \/ W!Older(pkt, sn)
    BY <2>3, PushIsWindow, SetOldIsWindow DEF addPacket
  <2>4. CASE \E pkt \in Packets, sn \in SN :
               AddPacket(pkt, sn) \/ AddPacketWithSequenceNumber(pkt, sn)
    <3>1. SN = W!SN
      BY DEF SN, W!SN
    <3> QED BY <2>2, <2>3, <2>4, <3>1 DEF AddPacket, AddPacketWithSequenceNumber, W!Next
  <2>5. CASE ResyncOnNextPacket
    BY <2>1, <2>5 DEF ResyncOnNextPacket, W!RequestResync, W!Next
  <2>6. CASE Grow
    BY <2>6, GrowIsWindow DEF W!Next
  <2>7. CASE UNCHANGED vars
    BY <2>1, <2>7 DEF vars, W!vars
  <2> QED BY <2>4, <2>5, <2>6, <2>7 DEF Next
<1> QED BY <1>1, <1>2, IInvHolds, PTL DEF Spec, ImplementsWindow, W!Spec
=============================================================================
