------------------------------ MODULE NatMapping ------------------------------
(***************************************************************************)
(* pkg/rtcconfig/webrtc_config.go, getNAT1to1IPsForConf: one external-IP   *)
(* lookup per local address, all reporting once to a channel that the      *)
(* caller drains until everyone reported or a timer fires.  The timer is   *)
(* the budget of a lookup, and a short grace period once every address     *)
(* family is settled.  A lookup is what StunLookup models: here it may     *)
(* find any address of its family or fail, and it ends once cancelled.     *)
(***************************************************************************)
EXTENDS Naturals, Sequences, FiniteSets, SequencesExt

CONSTANTS
  LocalIPs,  \* the local addresses, in the order of their interfaces
  External,  \* the addresses a lookup may report; some may be local ones
  FamilyOf,  \* 4 or 6
  Ports,     \* how many ports a lookup may try
  None

Local == ToSet(LocalIPs)

ASSUME MappingAssumption ==
  /\ LocalIPs \in Seq(DOMAIN FamilyOf) /\ LocalIPs # <<>> /\ IsInjective(LocalIPs)
  /\ External \subseteq DOMAIN FamilyOf /\ Range(FamilyOf) \subseteq {4, 6} /\ Ports \in Nat \ {0}
  /\ None \notin Local \cup External

VARIABLES
  lookup,            \* per local address: at, the port it tries, the address it found
  addrCh,            \* reports not yet read: local addresses
  main, cancelled,
  pending, mapped,   \* per family: lookups left, whether an address was mapped
  firstResolved, remaining,
  timer, timeUp,     \* timer: what it was last set to
  natMapping,        \* external -> local
  mappedIPs,         \* what the filter of ExternalIPOnly lets through
  result             \* the mappings returned; nothing resolved is the empty one

collected == <<pending, mapped, firstResolved, remaining, timer, natMapping, mappedIPs>>
vars == <<lookup, addrCh, main, cancelled, collected, timeUp, result>>

Families == {FamilyOf[l] : l \in Local}
OfFamily(f) == {l \in Local : FamilyOf[l] = f}

Init ==
  /\ lookup = [l \in Local |-> [at |-> "try", port |-> 1, ip |-> None]]
  /\ addrCh = <<>> /\ main = "collect" /\ cancelled = FALSE
  /\ pending = [f \in Families |-> Cardinality(OfFamily(f))]
  /\ mapped = [f \in Families |-> FALSE] /\ firstResolved = FALSE
  /\ remaining = Len(LocalIPs)
  /\ timer = "budget" /\ timeUp = FALSE
  /\ natMapping = <<>> /\ mappedIPs = {} /\ result = <<>>

-----------------------------------------------------------------------------
(* The lookups.                                                            *)

Trying(l) == lookup[l].at = "try"

\* "address already in use": the next port, or none is left.
PortInUse(l) ==
  /\ Trying(l)
  /\ lookup' = IF lookup[l].port < Ports THEN [lookup EXCEPT ![l].port = @ + 1]
               ELSE [lookup EXCEPT ![l].at = "report"]
  /\ UNCHANGED <<addrCh, main, cancelled, collected, timeUp, result>>

Found(l, e) ==
  /\ Trying(l) /\ FamilyOf[e] = FamilyOf[l]
  /\ lookup' = [lookup EXCEPT ![l].at = "report", ![l].ip = e]
  /\ UNCHANGED <<addrCh, main, cancelled, collected, timeUp, result>>

Fails(l) ==
  /\ Trying(l)
  /\ lookup' = [lookup EXCEPT ![l].at = "report"]
  /\ UNCHANGED <<addrCh, main, cancelled, collected, timeUp, result>>

\* Mutant: the channel holds a single report.
MutRoom == Len(addrCh) < 1

\* The channel has room for a report of everyone.
Room == Len(addrCh) < Len(LocalIPs)

\* The deferred report, then wg.Done.
Report(l) ==
  /\ lookup[l].at = "report" /\ Room
  /\ lookup' = [lookup EXCEPT ![l].at = "done"]
  /\ addrCh' = Append(addrCh, l)
  /\ UNCHANGED <<main, cancelled, collected, timeUp, result>>

-----------------------------------------------------------------------------
(* The loop that collects reports.                                         *)

\* Mutant: one family is enough.
MutSettled(left, done) == \E f \in Families : left[f] = 0 \/ done[f]

Settled(left, done) == \A f \in Families : left[f] = 0 \/ done[f]

Put(m, e, l) == [x \in DOMAIN m \cup {e} |-> IF x = e THEN l ELSE m[x]]

Fresh(ip) == ip # None /\ ip \notin DOMAIN natMapping

Collect ==
  LET l == Head(addrCh)
      ip == lookup[l].ip
      left == [pending EXCEPT ![FamilyOf[l]] = @ - 1]
      done == [mapped EXCEPT ![FamilyOf[l]] = @ \/ ip # None]
      settles == ~firstResolved /\ Settled(left, done)
  IN /\ main = "collect" /\ remaining > 0 /\ addrCh # <<>>
     /\ addrCh' = Tail(addrCh) /\ remaining' = remaining - 1
     /\ pending' = left /\ mapped' = done
     /\ natMapping' = IF Fresh(ip) THEN Put(natMapping, ip, l) ELSE natMapping
     /\ mappedIPs' = IF Fresh(ip) THEN mappedIPs \cup {l} ELSE mappedIPs
     /\ firstResolved' = (firstResolved \/ settles)
     /\ timer' = IF settles THEN "grace" ELSE timer
     /\ timeUp' = (timeUp /\ ~settles)
     /\ UNCHANGED <<lookup, main, cancelled, result>>

TimerFires ==
  /\ main = "collect" /\ ~timeUp
  /\ timeUp' = TRUE
  /\ UNCHANGED <<lookup, addrCh, main, cancelled, collected, result>>

Leaves == main = "collect" /\ main' = "wait" /\ cancelled' = TRUE

TimedOut ==
  /\ remaining > 0 /\ timeUp /\ Leaves
  /\ UNCHANGED <<lookup, addrCh, collected, timeUp, result>>

AllReported ==
  /\ remaining = 0 /\ Leaves
  /\ UNCHANGED <<lookup, addrCh, collected, timeUp, result>>

-----------------------------------------------------------------------------
(* What is returned.                                                       *)

\* "Mapping unresolved local ip to itself", one after the other.
Covered(m, l) == IF l \in Range(m) THEN m ELSE Put(m, l, l)

MapRest ==
  LET m[i \in 0 .. Len(LocalIPs)] == IF i = 0 THEN natMapping ELSE Covered(m[i - 1], LocalIPs[i])
  IN m[Len(LocalIPs)]

Finish ==
  /\ main = "wait" /\ \A l \in Local : lookup[l].at = "done"
  /\ main' = "done"
  /\ result' = IF natMapping = <<>> THEN <<>> ELSE MapRest
  /\ UNCHANGED <<lookup, addrCh, cancelled, collected, timeUp>>

\* The filter of ExternalIPOnly, where ipFilter lets everything through.
PassesFilter(l) == FamilyOf[l] = 6 \/ l \in mappedIPs

Lookup(l) == PortInUse(l) \/ Fails(l) \/ Report(l) \/ \E e \in External : Found(l, e)

Next ==
  \/ \E l \in Local : Lookup(l)
  \/ Collect \/ TimerFires \/ TimedOut \/ AllReported \/ Finish

Spec == Init /\ [][Next]_vars

-----------------------------------------------------------------------------
(* Correctness.                                                            *)

IsMapping(m) == m \in [DOMAIN m -> Local] /\ DOMAIN m \subseteq External \cup Local

TypeOK ==
  /\ lookup \in [Local -> [at : {"try", "report", "done"}, port : 1 .. Ports, ip : External \cup {None}]]
  /\ ToSet(addrCh) \subseteq Local /\ Len(addrCh) <= Len(LocalIPs)
  /\ main \in {"collect", "wait", "done"} /\ timer \in {"budget", "grace"}
  /\ remaining \in 0 .. Len(LocalIPs) /\ pending \in [Families -> 0 .. Len(LocalIPs)]
  /\ mapped \in [Families -> BOOLEAN] /\ {firstResolved, timeUp, cancelled} \subseteq BOOLEAN
  /\ IsMapping(natMapping) /\ IsMapping(result) /\ mappedIPs \subseteq Local

Read(l) == lookup[l].at = "done" /\ l \notin ToSet(addrCh)

\* Types, and: "The grace period starts once every local address family has a mapping or no
\* lookup left" (lines 356-358), and no later: a fast family never cuts off the
\* lookups of a slow one, and a family that failed holds up nobody.
GraceWhenSettled ==
  /\ TypeOK
  /\ timer = "grace" <=>
       \A f \in Families :
         \/ \A l \in OfFamily(f) : Read(l)
         \/ \E l \in OfFamily(f) : Read(l) /\ lookup[l].ip # None

\* "ExternalIPOnly drops any IPv4 that is not mapped" (line 358), and no other: an
\* IPv4 address passes the filter when it is returned with an address it found.
OnlyMappedPass ==
  main = "done" /\ result # <<>> =>
    \A l \in OfFamily(4) :
      PassesFilter(l) <=> \E e \in DOMAIN result : result[e] = l /\ lookup[l].ip = e
=============================================================================
