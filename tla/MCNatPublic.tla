----------------------------- MODULE MCNatPublic ------------------------------
(* NatMapping for a host with two IPv4 addresses, one of which is public.  *)
EXTENDS NatMapping

CONSTANTS p4, q4, x4

MCPublicIPs == <<p4, q4>>
MCFamilyOf == [ip \in {p4, q4, x4} |-> 4]
=============================================================================
