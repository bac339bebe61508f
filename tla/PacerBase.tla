------------------------------ MODULE PacerBase ------------------------------
(***************************************************************************)
(* pkg/pacer/base.go: what every pacer does with a packet in the end.      *)
(* A packet is its number in the order of acceptance.                      *)
(***************************************************************************)
EXTENDS Integers, Sequences

VARIABLES wire,    \* what the packets' Writer took, in order
          returned \* the packets whose buffer went back to its pool, in order

BaseInit == wire = <<>> /\ returned = <<>>

\* Mutant: a packet that cannot be written keeps its buffer.
MutSendPacket(p) ==
  \/ returned' = Append(returned, p) /\ wire' = Append(wire, p)
  \/ UNCHANGED <<wire, returned>>

\* The buffer goes back whether the header extensions fail, the writer fails, or
\* the packet is written.
SendPacket(p) ==
  /\ returned' = Append(returned, p)
  /\ wire' = wire \/ wire' = Append(wire, p)
=============================================================================
