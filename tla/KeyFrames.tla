------------------------------ MODULE KeyFrames ------------------------------
(***************************************************************************)
(* pkg/codec/keyframe.go and the finders of pkg/codec/h26xhelper.go: is    *)
(* there a key frame in an RTP payload, and which of its NAL units is the  *)
(* sequence parameter set its size is read from?  A payload is a sequence  *)
(* of bytes; no byte outside it may be read.  VP9 is parsed by the library *)
(* and left out.                                                           *)
(***************************************************************************)
EXTENDS Vp8Header

From(p, i) == SubSeq(p, i, Len(p))
Uint16(p, i) == (p[i] * 256) + p[i + 1]

\* The units of an aggregation, each behind its size, from byte i on; the first one
\* that is not all there ends them.
Units(p, i) ==
  LET at[j \in Nat \ {0}] ==
        IF Len(p) < j + 1 \/ Len(p) < j + 1 + Uint16(p, j) THEN <<>>
        ELSE LET next == j + 2 + Uint16(p, j) IN <<SubSeq(p, j + 2, next - 1)>> \o at[next]
  IN at[i]

\* The first of the units at places ks.
FirstOf(units, ks) == IF ks = {} THEN <<>> ELSE units[Min(ks)]

-----------------------------------------------------------------------------
(* H.264: STAP-A is 24, STAP-B 25, MTAP16 26, MTAP24 27, FU-A 28, FU-B 29. *)

H264Type(p) == p[1] % 32

\* Mutant: a payload of STAP-B begins like one of STAP-A.
MutFirstUnit(type) == 2

\* After STAP-B and both MTAPs comes a decoding order number.
FirstUnit(type) == IF type = 24 THEN 2 ELSE 4

UnitOffset(type) == CASE type = 26 -> 3 [] type = 27 -> 4 [] OTHER -> 0

IsH264KeyFrame(p) ==
  /\ p # <<>>
  /\ LET type == H264Type(p)
         units == Units(p, FirstUnit(type))
         offset == UnitOffset(type)
     IN CASE type <= 23 -> type = 7
          [] type \in 24 .. 27 ->
               \E k \in DOMAIN units :
                 /\ \A j \in 1 .. k : Len(units[j]) > offset
                 /\ units[k][offset + 1] % 32 = 7
          [] type \in {28, 29} -> Len(p) >= 2 /\ p[2] >= 128 /\ p[2] % 32 = 7
          [] OTHER -> FALSE

\* The unit ExtractH264VideoSize parses, or <<>>.  Of a fragmented one it is the first
\* fragment, with the unit's own header put back.
H264Sps(p) ==
  IF p = <<>> THEN <<>> ELSE
  LET type == H264Type(p)
      units == Units(p, 2 + (IF type = 25 THEN 2 ELSE UnitOffset(type)))
  IN CASE type = 7 -> p
       [] type = 28 /\ Len(p) >= 2 /\ p[2] >= 128 /\ p[2] % 32 = 7 ->
            <<((p[1] \div 32) * 32) + 7>> \o From(p, 3)
       [] type \in 24 .. 27 ->
            FirstOf(units, {k \in DOMAIN units : units[k] # <<>> /\ H264Type(units[k]) = 7})
       [] OTHER -> <<>>

-----------------------------------------------------------------------------
(* H.265: an aggregation is 48, a fragment 49, the SPS 33 and the PPS 34.  *)

H265Type(byte) == (byte \div 2) % 64

\* Where the units of an aggregation begin, from byte i on: one is looked at if its
\* type is there, whether the rest of it is or not.
H265Starts(p, i) ==
  LET from[j \in Nat \ {0}] ==
        IF Len(p) < j + 2 THEN {} ELSE {j} \cup from[j + 2 + Uint16(p, j)]
  IN from[i]

IsH265KeyFrame(p) ==
  LET isSet(byte) == H265Type(byte) \in {33, 34} IN
  /\ Len(p) >= 2
  /\ \/ isSet(p[1])
     \/ H265Type(p[1]) = 48 /\ \E j \in H265Starts(p, 3) : isSet(p[j + 2])
     \/ H265Type(p[1]) = 49 /\ Len(p) >= 3 /\ isSet(p[3])

IsH265Sps(u) == u # <<>> /\ H265Type(u[1]) = 33

\* The unit ExtractH265VideoSize parses, or <<>>.
H265Sps(p) ==
  LET units == Units(p, 3)
  IN IF Len(p) < 2 THEN <<>>
     ELSE IF IsH265Sps(p) THEN p
     ELSE IF H265Type(p[1]) = 48 THEN FirstOf(units, {k \in DOMAIN units : IsH265Sps(units[k])})
     ELSE <<>>

-----------------------------------------------------------------------------
(* AV1.                                                                    *)

\* The next unit of data, the bytes it takes and whether it is cut short; all but the
\* last have their length in front, seven bits to the byte.
GetObu(data, last) ==
  LET ends == { k \in 1 .. 4 : k <= Len(data) /\ data[k] < 128 /\ \A j \in 1 .. k - 1 : data[j] >= 128 }
      k == CHOOSE e \in ends : TRUE
      bits(j) == IF j <= k THEN data[j] % 128 ELSE 0
      length == bits(1) + 128 * (bits(2) + 128 * (bits(3) + 128 * bits(4)))
  IN IF last THEN [obu |-> data, used |-> Len(data), truncated |-> FALSE]
     ELSE IF ends = {} THEN [obu |-> <<>>, used |-> 0, truncated |-> TRUE]
     ELSE IF Len(data) < k + length THEN [obu |-> From(data, k + 1), used |-> Len(data), truncated |-> TRUE]
     ELSE [obu |-> SubSeq(data, k + 1, k + length), used |-> k + length, truncated |-> FALSE]

ObuType(obu) == (obu[1] \div 8) % 8

\* The number of units, or 0 when a sender leaves it out, and then nothing is found.
ObuCount(p) == (p[1] \div 16) % 4

\* The i-th unit, counted from 0, is at byte ObuStart(p)[i].
ObuStart(p) ==
  LET at[i \in 0 .. ObuCount(p)] ==
        IF i = 0 THEN 2 ELSE at[i - 1] + GetObu(From(p, at[i - 1]), ObuCount(p) = i).used
  IN at

ObuAt(p, i) == GetObu(From(p, ObuStart(p)[i]), ObuCount(p) = i + 1)

IsFrame(obu) == obu # <<>> /\ ObuType(obu) \in {3, 6}

\* A sequence header, and then a frame or its header that is shown and intra-coded;
\* no unit before that may be empty or cut short.
IsAV1KeyFrame(p) ==
  /\ Len(p) >= 2 /\ ~Bit(p[1], 128) /\ Bit(p[1], 8)
  /\ \E k \in 1 .. ObuCount(p) :
       LET obu == ObuAt(p, k).obu IN
       /\ \A i \in 0 .. k - 1 : ObuAt(p, i).obu # <<>> /\ ~ObuAt(p, i).truncated
       /\ ObuType(ObuAt(p, 0).obu) = 1
       /\ \A i \in 1 .. k - 1 : ~IsFrame(ObuAt(p, i).obu)
       /\ IsFrame(obu) /\ Len(obu) >= 2 /\ obu[2] < 32

IsKeyFrame(codec, p) ==
  CASE codec = "h264" -> IsH264KeyFrame(p)
    [] codec = "h265" -> IsH265KeyFrame(p)
    [] codec = "vp8" -> IsVP8KeyFrame(p)
    [] codec = "av1" -> IsAV1KeyFrame(p)
    [] OTHER -> FALSE

-----------------------------------------------------------------------------
(* Correctness, against a sender's packets: [codec, form, units], where    *)
(* form is the first byte's type, or AV1's number of units.                *)

SizeBytes(u) == <<Len(u) \div 256, Len(u) % 256>>
Sized(u) == SizeBytes(u) \o u
Leb128(n) == IF n < 128 THEN <<n>> ELSE <<128 + (n % 128), n \div 128>>

\* What an MTAP has between the size of a unit, which does not count it, and the unit:
\* the difference in decoding order and a time of two or three bytes.
Times(form) == CASE form = 26 -> <<1, 1, 1>> [] form = 27 -> <<1, 1, 1, 1>> [] OTHER -> <<>>

\* A single unit; aggregations; the start of a fragmented unit; AV1's counted units.
Packet(s) ==
  LET u == s.units
      h264 == <<96 + s.form>> \o (IF s.form = 24 THEN <<>> ELSE <<7, 7>>)
      timed == [k \in DOMAIN u |-> SizeBytes(u[k]) \o Times(s.form) \o u[k]]
  IN CASE s.codec = "h264" /\ s.form \in 24 .. 27 -> h264 \o FlattenSeq(timed)
       [] s.codec = "h264" /\ s.form = 28 -> <<((u[1][1] \div 32) * 32) + 28, 128 + H264Type(u[1])>> \o Tail(u[1])
       [] s.codec = "h265" /\ s.form = 48 -> <<96, 1>> \o FlattenSeq([k \in DOMAIN u |-> Sized(u[k])])
       [] s.codec = "av1" ->
            <<(s.form * 16) + 8>> \o FlattenSeq([k \in 1 .. Len(u) - 1 |-> Leb128(Len(u[k])) \o u[k]]) \o Last(u)
       [] OTHER -> u[1]

\* Has the sender put in what a key frame begins with?
Carries(s) ==
  CASE s.codec = "h264" -> \E k \in DOMAIN s.units : H264Type(s.units[k]) = 7
    [] s.codec = "h265" -> \E k \in DOMAIN s.units : H265Type(s.units[k][1]) \in {33, 34}
    [] s.codec = "av1" ->
         LET frames == { k \in 2 .. Len(s.units) : ObuType(s.units[k]) \in {3, 6} } IN
         /\ ObuType(s.units[1]) = 1
         /\ \E k \in frames : (\A j \in frames : k <= j) /\ Len(s.units[k]) >= 2 /\ s.units[k][2] < 32

\* The unit the size is to be read from: the first SPS.
FirstSps(s) ==
  LET isSps(u) == IF s.codec = "h264" THEN H264Type(u) = 7 ELSE IsH265Sps(u)
  IN FirstOf(s.units, {k \in DOMAIN s.units : isSps(s.units[k])})

\* An MTAP16 or MTAP24.  The code takes the size in it to count what is between the size
\* and the unit, too (keyframe.go:75-92), and so loses its place after the first unit.
HasTimes(s) == s.codec = "h264" /\ s.form \in {26, 27}

\* A key frame is found exactly in the packets that carry one, wherever in the packet
\* it is.  Packets with times are the exception: of them it is only said that an SPS is
\* found that comes first and is longer than what is in front of it.  In a packet that
\* was cut short a key frame is found only if it is in the whole one, and no byte past the
\* cut is read (lines 66, 72, 122, 216).  In H.264 the size is looked for in the same
\* unit, the one that made the packet a key frame, again except in packets with times
\* (h26xhelper.go:532-537); in H.265 it is whole.
KeyFramesFound(s) ==
  LET p == Packet(s)
      cuts == { SubSeq(p, 1, n) : n \in 0 .. Len(p) }
  IN /\ ~HasTimes(s) => (IsKeyFrame(s.codec, p) <=> Carries(s))
     /\ HasTimes(s) /\ H264Type(s.units[1]) = 7 /\ Len(s.units[1]) > Len(Times(s.form)) => IsH264KeyFrame(p)
     /\ \A q \in cuts : IsKeyFrame(s.codec, q) => IsKeyFrame(s.codec, p)
     /\ s.codec = "h264" /\ ~HasTimes(s) =>
          H264Sps(p) = FirstSps(s) /\ \A q \in cuts : IsH264KeyFrame(q) <=> H264Sps(q) # <<>>
     /\ s.codec = "h265" =>
          H265Sps(p) = FirstSps(s) /\ \A q \in cuts : H265Sps(q) # <<>> => IsH265KeyFrame(q)
=============================================================================
