----------------------------- MODULE MCStunLookup -----------------------------
(* StunLookup of two servers that validates, and of one over both families. *)
EXTENDS StunLookup, TLC

CONSTANTS s1, s2, a4, b4, c6

MCFamilyOf == (a4 :> 4) @@ (b4 :> 4) @@ (c6 :> 6)
MCCalls ==
  { [servers |-> {s1, s2}, families |-> {4}, validate |-> TRUE],
    [servers |-> {s1}, families |-> {4, 6}, validate |-> FALSE] }
=============================================================================
