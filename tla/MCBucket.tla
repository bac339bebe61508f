------------------------------ MODULE MCBucket ------------------------------
(***************************************************************************)
(* Small buckets for TLC.  With maxPktSize 255 the size field has one byte *)
(* and 255 is the invalid marker: the packets lie on both sides of the     *)
(* longest length a slot takes, 254.                                       *)
(***************************************************************************)
EXTENDS Bucket

MCPackets == {"short", "full", "over"}
MCSizeOf == [p \in MCPackets |-> CASE p = "short" -> 2 [] p = "full" -> 254 [] OTHER -> 255]
=============================================================================
