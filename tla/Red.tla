--------------------------------- MODULE Red ---------------------------------
(***************************************************************************)
(* pkg/red/red.go: packets with redundant copies of the ones before them   *)
(* (RFC 2198).  A history of the last Width numbers says which of the      *)
(* copies are worth extracting.  A payload is the lengths its block        *)
(* headers announce and the bytes it really has; what is extracted is a    *)
(* stretch of those bytes.                                                 *)
(***************************************************************************)
EXTENDS Integers, Sequences, SequencesExt

CONSTANTS
  SeqRange,   \* how many sequence numbers there are (2^16)
  Width,      \* bits of the history (8)
  MaxRecover, \* copies that are looked for (maxRecoverCount)
  Payloads    \* the payloads that arrive: [lengths, size]

ASSUME RedAssumption ==
  /\ Width \in Nat \ {0} /\ MaxRecover \in Nat
  /\ SeqRange \in Nat /\ SeqRange % 2 = 0 /\ Width + MaxRecover < SeqRange \div 2

ASSUME PayloadsAssumption ==
  \A p \in Payloads : p.lengths \in Seq(Nat) /\ p.size \in Nat

VARIABLES started, lastSeq, pktHistory,
          arrived, \* history: the numbers received, of those behind lastSeq by
                   \* less than half the range, and lastSeq
          result   \* the last call: [sn, payload, fresh, bits, primary, pkts, err]

vars == <<started, lastSeq, pktHistory, arrived, result>>

SeqNums == 0 .. SeqRange - 1
Half == SeqRange \div 2
Minus(a, b) == (a - b) % SeqRange
Bits == 0 .. Width - 1

-----------------------------------------------------------------------------
(* Blocks.                                                                 *)

\* Four bytes for each redundant block, one for the primary.
HeaderBytes(p) == 4 * Len(p.lengths) + 1

\* The totals as one block after the other is counted or cut off, from a first value.
Running(first, lengths) ==
  LET total[i \in 0 .. Len(lengths)] == IF i = 0 THEN first ELSE total[i - 1] + lengths[i]
  IN  total

\* Where each block ends; the headers are block 0.
BlockEnd(p) == Running(HeaderBytes(p), p.lengths)

\* Where block i begins; the primary one is the last.
Offset(p, i) == BlockEnd(p)[i - 1]

ErrorOf(p) ==
  CASE p.size < HeaderBytes(p) -> "incomplete header"
    [] p.size >= HeaderBytes(p) /\ p.size < Offset(p, Len(p.lengths) + 1) -> "incomplete block"
    [] OTHER -> "none"

\* Mutant: the first block is one before the primary.
MutDistance(p, i) == i

\* How many packets before the primary block i is.
Distance(p, i) == Len(p.lengths) - i + 1

Primary(sn, p) ==
  LET from == Offset(p, Len(p.lengths) + 1) IN
  [sn |-> sn, from |-> from, length |-> p.size - from]

\* Block by block, the chosen ones are packets.
ExtractPackets(sn, p, bits) ==
  LET block(i) == [sn |-> Minus(sn, Distance(p, i)), from |-> Offset(p, i), length |-> p.lengths[i]]
      pkts[i \in 0 .. Len(p.lengths)] ==
        IF i = 0 THEN <<>>
        ELSE IF Distance(p, i) - 1 \in bits THEN Append(pkts[i - 1], block(i)) ELSE pkts[i - 1]
  IN  IF ErrorOf(p) # "none" THEN <<>> ELSE Append(pkts[Len(p.lengths)], Primary(sn, p))

\* All lengths together.
BlockLength(p) == Running(0, p.lengths)[Len(p.lengths)]

\* The other way to the primary block: skip the headers, then all blocks at once.
ExtractPrimaryEncoding(p) ==
  IF ErrorOf(p) # "none" THEN <<>>
  ELSE LET from == HeaderBytes(p) + BlockLength(p) IN <<from, p.size - from>>

-----------------------------------------------------------------------------
(* Depacketize.                                                            *)

Init ==
  /\ started = FALSE /\ lastSeq = 0 /\ pktHistory = {}
  /\ arrived = {}
  /\ result = [err |-> "no call"]

Shifted(h, n) == ({ k + n : k \in h } \cap Bits) \cup {n - 1}

\* Mutant: a late number is off by one bit.
MutLateBit(diff) == SeqRange - diff

LateBit(diff) == SeqRange - 1 - diff

\* What a number does to <<lastSeq, pktHistory>>, and whether it may tell of others.
Track(sn) ==
  LET diff == Minus(sn, lastSeq) IN
  CASE ~started                       -> <<sn, {}, FALSE>>
    [] started /\ diff = 0            -> <<lastSeq, pktHistory, FALSE>>
    [] started /\ diff > Half         ->
         IF LateBit(diff) < Width
         THEN <<lastSeq, pktHistory \cup {LateBit(diff)}, TRUE>>
         ELSE <<lastSeq, pktHistory, FALSE>>
    [] started /\ diff \in Width + 1 .. Half -> <<sn, {}, TRUE>>
    [] started /\ diff \in 1 .. Width -> <<sn, Shifted(pktHistory, diff), TRUE>>

\* Mutant: the copies are looked for behind the newest packet, not behind this one.
MutRecoverBits(behind, h) == { i \in 0 .. MaxRecover - 1 : i \in Bits \ h }

\* Bit i is for the copy of the packet i + 1 before the primary one.
RecoverBits(behind, h) == { i \in 0 .. MaxRecover - 1 : behind + i \in Bits \ h }

Depacketize(sn, p) ==
  LET t == Track(sn)
      bits == IF t[3] THEN RecoverBits(Minus(t[1], sn), t[2]) ELSE {}
  IN
  /\ started' = TRUE /\ lastSeq' = t[1] /\ pktHistory' = t[2]
  /\ arrived' = { s \in arrived \cup {sn} : Minus(lastSeq', s) < Half }
  /\ result' = [sn |-> sn, payload |-> p, fresh |-> ~started \/ sn = lastSeq,
                primary |-> ExtractPrimaryEncoding(p),
                pkts |-> ExtractPackets(sn, p, bits), err |-> ErrorOf(p)]

Next == \E sn \in SeqNums, p \in Payloads : Depacketize(sn, p)

Spec == Init /\ [][Next]_vars

-----------------------------------------------------------------------------
(* Correctness.                                                            *)

Called == result.err # "no call"

\* Every variable has its type: the history is a byte.
TypeOK ==
  /\ started \in BOOLEAN /\ lastSeq \in SeqNums /\ pktHistory \subseteq Bits
  /\ arrived \subseteq SeqNums
  /\ Called => result.sn \in SeqNums /\ result.payload \in Payloads

\* Types, and: "bit k set means lastSeq-1-k was received" (line 37), and the other way round,
\* for any order of numbers, with wraps, jumps and late ones.
HistoryExact ==
  TypeOK /\ \A k \in Bits : k \in pktHistory <=> Minus(lastSeq, k + 1) \in arrived

\* What is recovered is what was lost: the copies a packet has of the numbers
\* just before it that were never received and that the history reaches, and
\* no others (lines 74-85, 150-155).
RecoversTheLost ==
  Called /\ result.err = "none" =>
    LET n == Len(result.payload.lengths)
        recovered == { result.pkts[i].sn : i \in 1 .. Len(result.pkts) - 1 }
        lost == { s \in { Minus(result.sn, d) : d \in 1 .. (IF n < MaxRecover THEN n ELSE MaxRecover) } :
                    s \notin arrived /\ Minus(lastSeq, s) \in 1 .. Width }
        late == Minus(lastSeq, result.sn) > Width
    IN  recovered = IF result.fresh \/ late THEN {} ELSE lost

\* Recovered packets come oldest first, then the primary (line 41), and no two of
\* them share bytes or reach out of the payload (lines 137, 153, 161).
\* ExtractPrimaryEncoding cuts out the same primary block (line 170).
BlocksApart ==
  Called /\ result.err = "none" =>
    /\ result.primary = <<Last(result.pkts).from, Last(result.pkts).length>>
    /\ result.pkts # <<>> /\ Last(result.pkts).sn = result.sn
    /\ \A i \in DOMAIN result.pkts :
         LET b == result.pkts[i] IN
         /\ b.length >= 0 /\ b.from + b.length <= result.payload.size
         /\ \A j \in i + 1 .. Len(result.pkts) :
              /\ b.from + b.length <= result.pkts[j].from
              /\ Minus(result.sn, b.sn) > Minus(result.sn, result.pkts[j].sn)
=============================================================================
