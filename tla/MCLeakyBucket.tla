---------------------------- MODULE MCLeakyBucket ----------------------------
(* LeakyBucket with packets of one and of three bytes.                     *)
EXTENDS LeakyBucket

MCSizes == [p \in 1 .. MaxPackets |-> IF p % 2 = 1 THEN 3 ELSE 1]
=============================================================================
