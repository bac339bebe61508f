---------------------------- MODULE PacketWindow ----------------------------
(***************************************************************************)
(* What a packet bucket promises its users, with no ring, no slots and no  *)
(* buffers: a window over the newest cap sequence numbers, indexed by age, *)
(* the distance behind the highest number accepted so far (head, age 0).   *)
(* A newer packet slides the window, an older one fills a hole of it, and  *)
(* growing the window adds holes at its old end.                           *)
(***************************************************************************)
EXTENDS Integers

CONSTANTS
  Range,        \* number of extended sequence numbers, 2^w for a w-bit ET
  Half,         \* Range / 2
  InitCapacity, \* slots at creation, and added by each Grow
  MaxCapacity,  \* bound: Grow stops here
  Packets,      \* packets a caller can offer
  SizeOf,       \* their lengths
  MaxSize,      \* the longest length a slot takes
  NoPacket      \* a hole of the window

VARIABLES started, resync, head, cap, stored, ret

vars == <<started, resync, head, cap, stored, ret>>

SN == 0 .. Range - 1

\* a - b and a + 1 in the unsigned type of width Range.
Behind(a, b) == IF a >= b THEN a - b ELSE a - b + Range
Pred(a) == IF a = 0 THEN Range - 1 ELSE a - 1

Holes(n) == [a \in 0 .. n - 1 |-> NoPacket]

Init ==
  /\ started = FALSE
  /\ resync = FALSE
  /\ head = 0
  /\ cap = InitCapacity
  /\ stored = Holes(InitCapacity)
  /\ ret = "none"

\* The window after head has moved d >= 1 ahead and pkt is at its front.
Slide(window, d, pkt) ==
  [a \in 0 .. cap - 1 |->
     IF a = 0 THEN pkt
     ELSE IF a < d THEN NoPacket ELSE window[a - d]]

Reject(pkt) ==
  /\ SizeOf[pkt] > MaxSize
  /\ ret' = "tooLarge"
  /\ UNCHANGED <<started, resync, head, cap, stored>>

\* The first packet ever, or the first after a resync, restarts the window.
Restart(pkt, sn) ==
  /\ SizeOf[pkt] <= MaxSize
  /\ ~started \/ resync
  /\ started' = TRUE
  /\ resync' = FALSE
  /\ head' = sn
  /\ stored' = [Holes(cap) EXCEPT ![0] = pkt]
  /\ ret' = "ok"
  /\ UNCHANGED cap

Newer(pkt, sn) ==
  /\ SizeOf[pkt] <= MaxSize
  /\ started /\ ~resync
  /\ Behind(sn, head) \in 1 .. Half
  /\ head' = sn
  /\ stored' = Slide(stored, Behind(sn, head), pkt)
  /\ ret' = "ok"
  /\ UNCHANGED <<started, resync, cap>>

Older(pkt, sn) ==
  LET age == Behind(head, sn) IN
  /\ SizeOf[pkt] <= MaxSize
  /\ started /\ ~resync
  /\ Behind(sn, head) \notin 1 .. Half
  /\ \/ /\ age >= cap
        /\ ret' = "tooOld"
        /\ UNCHANGED stored
     \/ /\ age < cap /\ stored[age] # NoPacket
        /\ ret' = IF SizeOf[stored[age]] = SizeOf[pkt] THEN "rtx" ELSE "rtxSize"
        /\ UNCHANGED stored
     \/ /\ age < cap /\ stored[age] = NoPacket
        /\ stored' = [stored EXCEPT ![age] = pkt]
        /\ ret' = "ok"
  /\ UNCHANGED <<started, resync, head, cap>>

RequestResync ==
  /\ resync' = TRUE
  /\ ret' = "none"
  /\ UNCHANGED <<started, head, cap, stored>>

Grow ==
  /\ cap' = cap + InitCapacity
  /\ cap' <= MaxCapacity
  /\ stored' = [a \in 0 .. cap' - 1 |-> IF a < cap THEN stored[a] ELSE NoPacket]
  /\ ret' = "none"
  /\ UNCHANGED <<started, resync, head>>

Next ==
  \/ \E pkt \in Packets, sn \in SN :
       Reject(pkt) \/ Restart(pkt, sn) \/ Newer(pkt, sn) \/ Older(pkt, sn)
  \/ RequestResync
  \/ Grow

Spec == Init /\ [][Next]_vars

\* What a lookup of sn returns: a packet of the window, or why there is none.
Lookup(sn) ==
  LET age == Behind(head, sn) IN
  IF age > Half THEN "tooNew"
  ELSE IF age >= cap THEN "tooOld"
  ELSE IF stored[age] = NoPacket THEN "invalid" ELSE stored[age]
=============================================================================
