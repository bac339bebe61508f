------------------------------ MODULE Vp8Header ------------------------------
(***************************************************************************)
(* pkg/codec/vp8.go: the VP8 payload descriptor, parsed, given another     *)
(* picture id as a forwarder does, and written again.  A payload is a      *)
(* sequence of bytes.                                                      *)
(***************************************************************************)
EXTENDS Integers, SequencesExt

\* Of a byte and a mask of one bit.
Bit(byte, mask) == (byte \div mask) % 2 = 1
Flag(set, mask) == IF set THEN mask ELSE 0
Size(set) == IF set THEN 1 ELSE 0
Optional(set, bytes) == IF set THEN bytes ELSE <<>>

\* The descriptor at the start of p.  Every byte is checked to be there before it is
\* read, and so is one more after the descriptor; a descriptor that is wrong in
\* its second byte is wrong however short it is.
Unmarshal(p) ==
  LET X == Bit(p[1], 128)
      has(mask) == X /\ Len(p) >= 2 /\ Bit(p[2], mask)
      I == has(128)
      L == has(64)
      T == has(32)
      K == has(16)
      M == I /\ Len(p) >= 3 /\ Bit(p[3], 128)
      afterX == 1 + Size(X)
      afterI == afterX + Size(I) + Size(M)
      afterL == afterI + Size(L)
      idx == afterL + Size(T \/ K)
  IN IF p = <<>> THEN [err |-> "short"]
     ELSE IF L /\ ~T THEN [err |-> "invalid"]
     ELSE IF Len(p) < idx + 1 THEN [err |-> "short"]
     ELSE [err |-> "none", FirstByte |-> p[1], S |-> Bit(p[1], 16), I |-> I, M |-> M, L |-> L, T |-> T, K |-> K,
           PictureID |-> IF M THEN ((p[3] % 128) * 256) + p[4] ELSE IF I THEN p[3] % 128 ELSE 0,
           TL0PICIDX |-> IF L THEN p[afterI + 1] ELSE 0,
           TID |-> IF T THEN p[idx] \div 64 ELSE 0, Y |-> T /\ Bit(p[idx], 32),
           KEYIDX |-> IF K THEN p[idx] % 32 ELSE 0,
           HeaderSize |-> idx,
           IsKeyFrame |-> ~Bit(p[idx + 1], 1) /\ Bit(p[1], 16)]

IsVP8KeyFrame(p) == Unmarshal(p).err = "none" /\ Unmarshal(p).IsKeyFrame

\* Mutant: a picture id of one byte may keep its second one.
MutVPxPictureIdSizeDiff(mBit1, mBit2) == IF mBit1 /\ ~mBit2 THEN 1 ELSE 0

VPxPictureIdSizeDiff(mBit1, mBit2) == Size(mBit1) - Size(mBit2)

\* What is written, into a buffer of at least HeaderSize bytes.
MarshalTo(v) ==
  LET extended == v.I \/ v.L \/ v.T \/ v.K
      xval == Flag(v.I, 128) + Flag(v.L, 64) + Flag(v.T, 32) + Flag(v.K, 16)
      pictureID == IF v.M THEN <<128 + ((v.PictureID \div 256) % 128), v.PictureID % 256>>
                   ELSE <<v.PictureID % 256>>
      tk == IF v.T THEN ((v.TID * 64) % 256) + Flag(v.Y, 32) ELSE 0
  IN <<(v.FirstByte % 128) + Flag(extended, 128)>>
     \o Optional(extended, <<xval>>)
     \o Optional(v.I, pictureID)
     \o Optional(v.L, <<v.TL0PICIDX>>)
     \o Optional(v.T \/ v.K, <<tk + (IF v.K THEN v.KEYIDX % 32 ELSE 0)>>)

\* A forwarder's picture id, in as many bytes as it takes or in two.
Rewritten(v, m, id) ==
  [v EXCEPT !.M = m, !.PictureID = id, !.HeaderSize = @ + VPxPictureIdSizeDiff(m, v.M)]

\* A descriptor parsed, rewritten, written into a buffer of its HeaderSize in front
\* of the rest of its packet, and parsed again is the one that was meant, in
\* exactly that many bytes: no field moves, and nothing is written past the buffer,
\* which is what MarshalTo relies on (lines 171-173).  A descriptor that is extended
\* by nothing is written without the extension.
Vp8RoundTrip(p, ids) ==
  LET v == Unmarshal(p) IN
  v.err = "none" =>
    \A m \in BOOLEAN, id \in ids :
      v.I /\ (m \/ id < 128) =>
        LET w == Rewritten(v, m, id)
            written == MarshalTo(w)
            rest == SubSeq(p, v.HeaderSize + 1, Len(p))
            u == Unmarshal(written \o rest)
        IN Len(written) = w.HeaderSize /\ u = w
=============================================================================
