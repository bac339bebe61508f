------------------------- MODULE WebRTCConfigProofs -------------------------
(***************************************************************************)
(* For any host, any configurations and any network: what the mapping      *)
(* returns and when its grace period starts, which sockets are open, which *)
(* addresses are announced, and that ports are taken in turn.              *)
(***************************************************************************)
EXTENDS WebRTCConfig, FiniteSetTheorems, WellFoundedInduction, TLAPS

-----------------------------------------------------------------------------
(* The mapping: what is counted of the lookups, and what is kept of them.  *)

\* The reports wait in the channel once each, of lookups that are over.
Reports ==
  /\ addrCh \in Seq(Local) /\ IsInjective(addrCh)
  /\ \A l \in ToSet(addrCh) : lookup[l].at = "done"

\* What the loop counts is what it has read.
Counted ==
  /\ \A f \in Families : pending[f] = Cardinality({l \in OfFamily(f) : ~Read(l)})
  /\ \A f \in Families : mapped[f] <=> \E l \in OfFamily(f) : Read(l) /\ lookup[l].ip # None
  /\ firstResolved <=> timer = "grace"
  /\ firstResolved <=> Settled(pending, mapped)

\* What was read and kept: the address a lookup found leads to it.
Kept ==
  /\ \A e \in DOMAIN natMapping : lookup[natMapping[e]].ip = e /\ lookup[natMapping[e]].at # "try"
  /\ mappedIPs = Range(natMapping)

\* What is returned.
Returns ==
  /\ main # "done" => result = <<>>
  /\ main = "done" => \A l \in Local : lookup[l].at = "done"

\* The mapping m covers the local addresses of D: it has what was found, and maps
\* the others to themselves.
Completes(m, D) ==
  /\ \A e \in DOMAIN natMapping : e \in DOMAIN m /\ m[e] = natMapping[e]
  /\ \A e \in DOMAIN m \ DOMAIN natMapping : e \in Local /\ m[e] = e
  /\ D \subseteq Range(m)

\* Where no lookup finds a local address, nothing that was found is overwritten.
Announced ==
  External \cap Local = {} /\ main = "done" /\ result # <<>> => Completes(result, Local)

MappingInv == TypeOK /\ Reports /\ Counted /\ Kept /\ Returns /\ Announced

-----------------------------------------------------------------------------
(* The sockets.                                                            *)

Before == {"start", "resolve", "ready", "failed"}
Creating == {"create", "listen"}
Opened == {"tcp", "net", "done", "error"}

NodeTyped ==
  /\ conf \in RTCConfig
  /\ nodeIP \subseteq {4, 6} /\ auto \in BOOLEAN /\ stunServers \in BOOLEAN /\ tries \in 0 .. Tries
  /\ at \in Before \cup {"nat", "udp"} \cup Creating \cup Opened
  /\ batch \in {"ports", "stun"} /\ rules \in {"none", "node", "mapping"}

\* How far the call is, and what it has settled by then.
Progress ==
  /\ at = "resolve" => tries < Tries
  /\ at = "start" => ~auto /\ tries = 0
  /\ auto /\ conf.requireIPv4 => 4 \in nodeIP
  /\ at \in Before => rules = "none"
  /\ at = "nat" => rules = "none" /\ conf.useExternalIP /\ nodeIP # {}
  /\ at \notin Before \cup {"nat"} => rules # "none" <=> nodeIP # {} /\ (conf.useExternalIP \/ ~auto)
  /\ conf.useExternalIP /\ rules # "none" => main = "done"
  /\ rules = "mapping" => main = "done" /\ result # <<>>
  /\ at = "done" => stunServers = UsesStunServers

\* Sockets are on addresses that pass the filters.
IPs == DOMAIN FamilyOf \ {"tcp"}
Places == IPs \X Int
Sockets == {s \in Places : Passes(s[1])}
Listener == <<"tcp", 0>>

Allowed ==
  /\ at \in Before \cup {"nat", "udp"} => work = <<>> /\ conns = <<>>
  /\ {work, conns, muxes, standalone} \subseteq Seq(Sockets)

\* Every open socket has one owner.
Owned ==
  /\ at \in Before \cup {"nat", "udp"} => batch = "ports" /\ open = {}
  /\ at \in Before \cup {"nat", "udp"} \cup Creating => standalone = <<>>
  /\ at \in Before \cup {"nat", "udp"} \cup Creating /\ batch = "ports" => muxes = <<>>
  /\ open \ {Listener} = ToSet(muxes) \cup ToSet(standalone) \cup (IF at = "listen" THEN ToSet(conns) ELSE {})
  /\ IsInjective(muxes) /\ IsInjective(standalone) /\ ToSet(muxes) \cap ToSet(standalone) = {}
  /\ at = "listen" => IsInjective(conns) /\ ToSet(conns) \cap (ToSet(muxes) \cup ToSet(standalone)) = {}

\* Ports are taken in turn, while the counter has not wrapped.
Turns ==
  /\ taken \in [{Addresses[i].ip : i \in DOMAIN Addresses} -> Seq(Places \cup {"panic"})]
  /\ at # "done" => \A ip \in DOMAIN taken : taken[ip] = <<>>
  /\ \A ip \in DOMAIN taken :
       LET addrs == addresseMuxes(ip) IN
       /\ taken[ip] # <<>> => addrs # <<>>
       /\ Len(taken[ip]) < CounterHalf =>
            \A i \in 1 .. Len(taken[ip]) : taken[ip][i] = addrs[(i % Len(addrs)) + 1]

\* No IP has had 2^31 of its addresses taken.
Unwrapped == \A ip \in DOMAIN taken : Len(taken[ip]) < CounterHalf

-----------------------------------------------------------------------------
(* Loops that count up: induction and recursion over 0 .. n, with sets in  *)
(* place of predicates.                                                    *)

\* A nonempty set of naturals has a least element.
LEMMA LeastElement ==
  ASSUME NEW T \in SUBSET Nat, T # {}
  PROVE  \E x \in T : \A y \in T : x <= y
<1> DEFINE Less == { ss \in Nat \X Nat : ss[1] < ss[2] }
<1>1. IsWellFoundedOn(Less, Nat)
  BY NatLessThanWellFounded DEF OpToRel
<1>2. PICK x \in T : \A y \in T : ~(<<y, x>> \in Less)
  <2> HIDE DEF Less
  <2> QED BY <1>1, WFMin
<1>3. \A y \in T : ~(y < x)
  BY <1>2
<1> QED BY <1>3

\* A set that holds 0, and i + 1 whenever it holds i, holds 0 .. hi.
LEMMA UpwardInduction ==
  ASSUME NEW hi \in Nat, NEW P \in SUBSET (0 .. hi), 0 \in P,
         \A i \in 0 .. hi - 1 : i \in P => i + 1 \in P
  PROVE  \A i \in 0 .. hi : i \in P
<1> DEFINE T == (0 .. hi) \ P
<1> SUFFICES ASSUME T # {} PROVE FALSE
  OBVIOUS
<1>1. PICK x \in T : \A y \in T : x <= y
  <2>1. T \in SUBSET Nat
    OBVIOUS
  <2> HIDE DEF T
  <2> QED BY <2>1, LeastElement
<1>2. x \in 0 .. hi /\ x \notin P /\ x # 0
  OBVIOUS
<1>3. x - 1 \in 0 .. hi - 1 /\ (x - 1) + 1 = x /\ ~(x <= x - 1)
  BY <1>2
<1>4. x - 1 \in P
  BY <1>1, <1>3
<1> QED BY <1>2, <1>3, <1>4

\* f[i] is the value after the body G[1], ..., G[i] ran on base.
CountsUp(f, n, V, base, G) ==
  /\ f \in [0 .. n -> V]
  /\ f[0] = base
  /\ \A i \in 1 .. n : f[i] = G[i][f[i - 1]]

LEMMA UpwardRecursion ==
  ASSUME NEW n \in Nat, NEW V, NEW base \in V, NEW G \in [1 .. n -> [V -> V]]
  PROVE  \E f : CountsUp(f, n, V, base, G)
<1> DEFINE P == { k \in 0 .. n : \E f : CountsUp(f, k, V, base, G) }
<1>1. 0 \in P
  <2>1. CountsUp([i \in 0 .. 0 |-> base], 0, V, base, G)
    BY DEF CountsUp
  <2> QED BY <2>1
<1>2. ASSUME NEW k \in 0 .. n - 1, k \in P PROVE k + 1 \in P
  <2>1. PICK f : CountsUp(f, k, V, base, G)
    BY <1>2
  <2> DEFINE v == G[k + 1][f[k]]
             g == [i \in 0 .. k + 1 |-> IF i = k + 1 THEN v ELSE f[i]]
  <2>2. v \in V
    BY <2>1 DEF CountsUp
  <2>3. g \in [0 .. k + 1 -> V] /\ g[0] = base
    BY <2>1, <2>2 DEF CountsUp
  <2>4. g[k + 1] = v /\ \A i \in 0 .. k : g[i] = f[i]
    OBVIOUS
  <2> HIDE DEF g
  <2>5. ASSUME NEW i \in 1 .. k + 1 PROVE g[i] = G[i][g[i - 1]]
    <3>1. i - 1 \in 0 .. k /\ g[i - 1] = f[i - 1]
      BY <2>4
    <3>2. CASE i = k + 1
      BY <2>4, <3>1, <3>2
    <3>3. CASE i \in 1 .. k
      BY <2>1, <2>4, <3>1, <3>3 DEF CountsUp
    <3> QED BY <3>2, <3>3
  <2>6. CountsUp(g, k + 1, V, base, G)
    BY <2>3, <2>5 DEF CountsUp
  <2> QED BY <2>6
<1>3. n \in P
  <2>1. P \in SUBSET (0 .. n)
    OBVIOUS
  <2> HIDE DEF P
  <2>2. \A i \in 0 .. n : i \in P
    BY <1>1, <1>2, <2>1, UpwardInduction
  <2> QED BY <2>2
<1> QED BY <1>3

-----------------------------------------------------------------------------
(* Sequences without repetition.                                           *)

LEMMA AppendNew ==
  ASSUME NEW S, NEW q \in Seq(S), IsInjective(q), NEW x \in S, x \notin ToSet(q)
  PROVE  /\ Append(q, x) \in Seq(S) /\ IsInjective(Append(q, x))
         /\ ToSet(Append(q, x)) = ToSet(q) \cup {x}
         /\ Len(Append(q, x)) = Len(q) + 1
<1> DEFINE r == Append(q, x)
<1>1. /\ r \in Seq(S) /\ Len(r) = Len(q) + 1 /\ Len(q) \in Nat
      /\ DOMAIN q = 1 .. Len(q) /\ DOMAIN r = 1 .. Len(q) + 1
      /\ \A i \in 1 .. Len(q) : r[i] = q[i]
      /\ r[Len(q) + 1] = x
  OBVIOUS
<1>2. \A i \in 1 .. Len(q) : q[i] # x
  BY <1>1 DEF ToSet
<1> HIDE DEF r
<1>3. IsInjective(r)
  <2> SUFFICES ASSUME NEW i \in DOMAIN r, NEW j \in DOMAIN r, r[i] = r[j] PROVE i = j
    BY DEF IsInjective
  <2>1. CASE i \in 1 .. Len(q) /\ j \in 1 .. Len(q)
    BY <1>1, <2>1 DEF IsInjective
  <2>2. CASE i = Len(q) + 1 \/ j = Len(q) + 1
    <3>1. i \in 1 .. Len(q) + 1 /\ j \in 1 .. Len(q) + 1
      BY <1>1
    <3>2. i = Len(q) + 1 \/ i \in 1 .. Len(q)
      BY <3>1, <1>1
    <3>3. j = Len(q) + 1 \/ j \in 1 .. Len(q)
      BY <3>1, <1>1
    <3> QED BY <1>1, <1>2, <2>2, <3>2, <3>3
  <2> QED BY <1>1, <2>1, <2>2
<1>4. ToSet(r) = ToSet(q) \cup {x}
  <2>1. ASSUME NEW y \in ToSet(r) PROVE y \in ToSet(q) \cup {x}
    <3>1. PICK i \in 1 .. Len(q) + 1 : y = r[i]
      BY <1>1 DEF ToSet
    <3>2. i \in 1 .. Len(q) \/ i = Len(q) + 1
      BY <1>1
    <3> QED BY <1>1, <3>1, <3>2 DEF ToSet
  <2>2. ToSet(q) \subseteq ToSet(r)
    BY <1>1 DEF ToSet
  <2>3. x \in ToSet(r)
    <3>1. Len(q) + 1 \in DOMAIN r
      BY <1>1
    <3> QED BY <1>1, <3>1 DEF ToSet
  <2> QED BY <2>1, <2>2, <2>3
<1> QED BY <1>1, <1>3, <1>4 DEF r

LEMMA TakeFirst ==
  ASSUME NEW S, NEW q \in Seq(S), IsInjective(q), q # <<>>
  PROVE  /\ Head(q) \in ToSet(q) /\ Head(q) \in S /\ Tail(q) \in Seq(S) /\ IsInjective(Tail(q))
         /\ ToSet(Tail(q)) = ToSet(q) \ {Head(q)}
         /\ Len(Tail(q)) = Len(q) - 1
<1> DEFINE r == Tail(q)
           h == Head(q)
<1>1. /\ r \in Seq(S) /\ Len(r) = Len(q) - 1 /\ Len(q) \in Nat /\ Len(q) > 0
      /\ DOMAIN q = 1 .. Len(q) /\ DOMAIN r = 1 .. Len(q) - 1
      /\ \A i \in 1 .. Len(q) - 1 : r[i] = q[i + 1]
      /\ h = q[1] /\ h \in S
  OBVIOUS
<1> HIDE DEF r, h
<1>2. IsInjective(r)
  <2> SUFFICES ASSUME NEW i \in DOMAIN r, NEW j \in DOMAIN r, r[i] = r[j] PROVE i = j
    BY DEF IsInjective
  <2>1. i \in Int /\ j \in Int /\ i + 1 \in DOMAIN q /\ j + 1 \in DOMAIN q /\ q[i + 1] = q[j + 1]
    BY <1>1
  <2>2. i + 1 = j + 1
    BY <2>1 DEF IsInjective
  <2> QED BY <2>1, <2>2
<1>3. 1 \in DOMAIN q
  BY <1>1
<1>4. ToSet(r) = ToSet(q) \ {h}
  <2>1. ASSUME NEW y \in ToSet(r) PROVE y \in ToSet(q) /\ y # h
    <3>1. PICK i \in DOMAIN r : y = r[i]
      BY DEF ToSet
    <3>2. i + 1 \in DOMAIN q /\ y = q[i + 1] /\ i + 1 # 1
      BY <1>1, <3>1
    <3> QED BY <1>1, <1>3, <3>2 DEF ToSet, IsInjective
  <2>2. ASSUME NEW y \in ToSet(q), y # h PROVE y \in ToSet(r)
    <3>1. PICK i \in DOMAIN q : y = q[i]
      BY DEF ToSet
    <3>2. i - 1 \in DOMAIN r /\ (i - 1) + 1 = i
      BY <1>1, <2>2, <3>1
    <3>3. r[i - 1] = y
      BY <1>1, <3>1, <3>2
    <3> QED BY <3>2, <3>3 DEF ToSet
  <2> QED BY <2>1, <2>2
<1> QED BY <1>1, <1>2, <1>3, <1>4 DEF r, h, ToSet
-----------------------------------------------------------------------------
(* Steps of the mapping.                                                   *)

LEMMA LocalFacts ==
  /\ IsFiniteSet(Local) /\ Cardinality(Local) <= Len(LocalIPs)
  /\ Len(LocalIPs) \in Nat /\ DOMAIN LocalIPs = 1 .. Len(LocalIPs)
  /\ LocalIPs \in [1 .. Len(LocalIPs) -> Local]
  /\ Local # {} /\ Families # {}
  /\ \A l \in Local : FamilyOf[l] \in Families /\ FamilyOf[l] \in {4, 6}
<1>1. /\ Len(LocalIPs) \in Nat /\ DOMAIN LocalIPs = 1 .. Len(LocalIPs) /\ Len(LocalIPs) # 0
  BY MappingAssumption
<1>2. LocalIPs \in [1 .. Len(LocalIPs) -> Local]
  BY <1>1, MappingAssumption DEF Local, ToSet
<1>3. LocalIPs \in Surjection(1 .. Len(LocalIPs), Local)
  BY <1>1, <1>2 DEF Surjection, Local, ToSet
<1>4. IsFiniteSet(1 .. Len(LocalIPs)) /\ Cardinality(1 .. Len(LocalIPs)) = Len(LocalIPs)
  <2>1. 1 \in Int /\ Len(LocalIPs) \in Int /\ Len(LocalIPs) >= 1
    BY <1>1
  <2> QED BY <2>1, FS_Interval
<1>5. IsFiniteSet(Local) /\ Cardinality(Local) <= Len(LocalIPs)
  BY <1>3, <1>4, FS_Surjection
<1>6. Local # {}
  <2>1. 1 \in 1 .. Len(LocalIPs)
    BY <1>1
  <2> QED BY <1>2, <2>1
<1>7. \A l \in Local : FamilyOf[l] \in Families /\ FamilyOf[l] \in {4, 6}
  <2>1. Local \subseteq DOMAIN FamilyOf
    BY <1>1, MappingAssumption DEF Local, ToSet
  <2> QED BY <2>1, MappingAssumption DEF Families, Range
<1> QED BY <1>1, <1>2, <1>5, <1>6, <1>7

LEMMA UnreadFinite ==
  ASSUME NEW S \in SUBSET Local
  PROVE  IsFiniteSet(S) /\ Cardinality(S) \in 0 .. Len(LocalIPs)
<1>1. IsFiniteSet(S) /\ Cardinality(S) <= Cardinality(Local)
  BY LocalFacts, FS_Subset
<1>2. Cardinality(S) \in Nat /\ Cardinality(Local) \in Nat
  BY <1>1, LocalFacts, FS_CardinalityType
<1> QED BY <1>1, <1>2, LocalFacts

LEMMA MappingInit == Init => MappingInv
<1> SUFFICES ASSUME Init PROVE MappingInv
  OBVIOUS
<1>1. IsMapping(<<>>) /\ DOMAIN <<>> = {}
  BY DEF IsMapping
<1>2. \A l \in Local : ~Read(l) /\ ~mapped[FamilyOf[l]]
  BY LocalFacts DEF Init, Read
<1>3. \A f \in Families : OfFamily(f) \subseteq Local /\ OfFamily(f) # {}
  BY DEF OfFamily, Families
<1>4. \A f \in Families : pending[f] \in 1 .. Len(LocalIPs)
  <2> SUFFICES ASSUME NEW f \in Families PROVE pending[f] \in 1 .. Len(LocalIPs)
    OBVIOUS
  <2>1. pending[f] = Cardinality(OfFamily(f))
    BY DEF Init
  <2>2. IsFiniteSet(OfFamily(f)) /\ Cardinality(OfFamily(f)) \in 0 .. Len(LocalIPs)
    BY <1>3, UnreadFinite
  <2>3. Cardinality(OfFamily(f)) # 0
    BY <1>3, <2>2, FS_EmptySet
  <2> QED BY <2>1, <2>2, <2>3
<1>5. TypeOK
  <2>1. pending \in [Families -> 0 .. Len(LocalIPs)] /\ mapped \in [Families -> BOOLEAN]
    BY <1>4 DEF Init
  <2>2. lookup \in [Local -> [at : {"try", "report", "done"}, port : 1 .. Ports, ip : External \cup {None}]]
    BY MappingAssumption DEF Init
  <2>3. ToSet(addrCh) = {} /\ Len(addrCh) = 0
    BY DEF Init, ToSet
  <2>4. Len(addrCh) <= Len(LocalIPs) /\ remaining \in 0 .. Len(LocalIPs)
    BY <2>3, LocalFacts DEF Init
  <2> QED BY <1>1, <2>1, <2>2, <2>3, <2>4 DEF Init, TypeOK
<1>6. Reports
  BY DEF Init, Reports, ToSet, IsInjective
<1>7. Counted
  <2>1. \A f \in Families : pending[f] = Cardinality({l \in OfFamily(f) : ~Read(l)})
    <3>1. \A f \in Families : OfFamily(f) = {l \in OfFamily(f) : ~Read(l)}
      BY <1>2, <1>3
    <3> QED BY <3>1 DEF Init
  <2>2. \A f \in Families : mapped[f] <=> \E l \in OfFamily(f) : Read(l) /\ lookup[l].ip # None
    BY <1>2, <1>3 DEF Init
  <2>3. ~Settled(pending, mapped)
    <3>1. \A f \in Families : pending[f] # 0 /\ ~mapped[f]
      BY <1>4 DEF Init
    <3> QED BY <3>1, LocalFacts DEF Settled
  <2>4. ~firstResolved /\ timer # "grace"
    BY DEF Init
  <2> QED BY <2>1, <2>2, <2>3, <2>4 DEF Counted
<1>8. Kept
  BY <1>1 DEF Init, Kept, Range
<1>9. Returns /\ Announced
  BY DEF Init, Returns, Announced
<1> QED BY <1>5, <1>6, <1>7, <1>8, <1>9 DEF MappingInv

\* What a lookup does before it reports.
Lookups == [at : {"try", "report", "done"}, port : 1 .. Ports, ip : External \cup {None}]

LEMMA LookupMoves ==
  ASSUME MappingInv, NEW l \in Local, NEW r \in Lookups, Trying(l), r.at # "done",
         lookup' = [lookup EXCEPT ![l] = r],
         UNCHANGED <<addrCh, main, cancelled, collected, timeUp, result>>
  PROVE  MappingInv'
<1> USE DEF MappingInv
<1>0. lookup \in [Local -> Lookups]
  BY DEF TypeOK, Lookups
<1>1. /\ lookup' \in [Local -> Lookups] /\ lookup'[l] = r
      /\ \A k \in Local : k # l => lookup'[k] = lookup[k]
  BY <1>0
<1>2. lookup[l].at # "done" /\ l \notin ToSet(addrCh)
  BY DEF Trying, Reports
<1>3. \A k \in Local : Read(k)' <=> Read(k)
  BY <1>1, <1>2 DEF Read
<1>4. \A k \in Local : Read(k) => lookup'[k] = lookup[k]
  BY <1>1, <1>2 DEF Read
<1>5. TypeOK'
  BY <1>1 DEF TypeOK, Lookups, collected, IsMapping
<1>6. Reports'
  BY <1>1, <1>2 DEF Reports, ToSet, IsInjective
<1>7. Counted'
  <2>1. \A f \in Families : OfFamily(f) \subseteq Local
    BY DEF OfFamily
  <2>2. \A f \in Families : {k \in OfFamily(f) : ~Read(k)'} = {k \in OfFamily(f) : ~Read(k)}
    BY <1>3, <2>1
  <2>3. \A f \in Families : (\E k \in OfFamily(f) : Read(k)' /\ lookup'[k].ip # None)
                            <=> \E k \in OfFamily(f) : Read(k) /\ lookup[k].ip # None
    BY <1>3, <1>4, <2>1
  <2>4. UNCHANGED <<pending, mapped, firstResolved, timer>>
    BY DEF collected
  <2>5. \A f \in Families : pending'[f] = Cardinality({k \in OfFamily(f) : ~Read(k)'})
    BY <2>2, <2>4 DEF Counted
  <2>6. \A f \in Families : mapped'[f] <=> \E k \in OfFamily(f) : Read(k)' /\ lookup'[k].ip # None
    BY <2>3, <2>4 DEF Counted
  <2>7. (firstResolved' <=> timer' = "grace") /\ (firstResolved' <=> Settled(pending', mapped'))
    BY <2>4 DEF Counted
  <2> QED BY <2>5, <2>6, <2>7 DEF Counted
<1>8. Kept'
  <2>1. \A e \in DOMAIN natMapping : natMapping[e] \in Local /\ natMapping[e] # l
    BY DEF TypeOK, IsMapping, Kept, Trying
  <2> QED BY <1>1, <2>1 DEF Kept, collected, Range
<1>9. Returns'
  <2>1. main # "done"
    BY DEF Returns, Trying
  <2> QED BY <2>1 DEF Returns
<1>10. Announced'
  BY DEF Announced, Returns, Trying
<1> QED BY <1>5, <1>6, <1>7, <1>8, <1>9, <1>10

LEMMA LookupSteps ==
  ASSUME MappingInv, NEW l \in Local,
         PortInUse(l) \/ Fails(l) \/ \E e \in External : Found(l, e)
  PROVE  MappingInv'
<1>0. lookup[l] \in Lookups /\ lookup \in [Local -> Lookups] /\ Ports \in Nat
  BY MappingAssumption DEF MappingInv, TypeOK, Lookups
<1>1. CASE PortInUse(l)
  <2>1. CASE lookup[l].port < Ports
    <3> DEFINE r == [lookup[l] EXCEPT !.port = @ + 1]
    <3>1. r \in Lookups /\ r.at = lookup[l].at
      BY <1>0, <2>1 DEF Lookups
    <3>2. lookup' = [lookup EXCEPT ![l] = r]
      BY <1>1, <2>1 DEF PortInUse
    <3>3. Trying(l) /\ UNCHANGED <<addrCh, main, cancelled, collected, timeUp, result>>
      BY <1>1 DEF PortInUse
    <3>4. r.at # "done"
      BY <3>1, <3>3 DEF Trying
    <3> HIDE DEF r
    <3> QED BY <3>1, <3>2, <3>3, <3>4, LookupMoves
  <2>2. CASE ~(lookup[l].port < Ports)
    <3> DEFINE r == [lookup[l] EXCEPT !.at = "report"]
    <3>1. r \in Lookups /\ r.at # "done"
      BY <1>0 DEF Lookups
    <3>2. lookup' = [lookup EXCEPT ![l] = r]
      BY <1>1, <2>2 DEF PortInUse
    <3>3. Trying(l) /\ UNCHANGED <<addrCh, main, cancelled, collected, timeUp, result>>
      BY <1>1 DEF PortInUse
    <3> HIDE DEF r
    <3> QED BY <3>1, <3>2, <3>3, LookupMoves
  <2> QED BY <2>1, <2>2
<1>2. CASE Fails(l)
  <2> DEFINE r == [lookup[l] EXCEPT !.at = "report"]
  <2>1. r \in Lookups /\ r.at # "done"
    BY <1>0 DEF Lookups
  <2>2. /\ lookup' = [lookup EXCEPT ![l] = r] /\ Trying(l)
        /\ UNCHANGED <<addrCh, main, cancelled, collected, timeUp, result>>
    BY <1>2 DEF Fails
  <2> HIDE DEF r
  <2> QED BY <2>1, <2>2, LookupMoves
<1>3. ASSUME NEW e \in External, Found(l, e) PROVE MappingInv'
  <2> DEFINE r == [lookup[l] EXCEPT !.at = "report", !.ip = e]
  <2>1. r \in Lookups /\ r.at # "done"
    BY <1>0 DEF Lookups
  <2>2. /\ lookup' = [lookup EXCEPT ![l] = r] /\ Trying(l)
        /\ UNCHANGED <<addrCh, main, cancelled, collected, timeUp, result>>
    BY <1>0, <1>3 DEF Found
  <2> HIDE DEF r
  <2> QED BY <2>1, <2>2, LookupMoves
<1> QED BY <1>1, <1>2, <1>3

LEMMA ReportStep ==
  ASSUME MappingInv, NEW l \in Local, Report(l)
  PROVE  MappingInv'
<1> USE DEF MappingInv
<1>0. lookup \in [Local -> Lookups]
  BY DEF TypeOK, Lookups
<1>1. /\ lookup' \in [Local -> Lookups] /\ lookup'[l].at = "done"
      /\ \A k \in Local : lookup'[k].ip = lookup[k].ip
      /\ \A k \in Local : k # l => lookup'[k] = lookup[k]
  BY <1>0 DEF Report, Lookups
<1>2. lookup[l].at = "report" /\ l \notin ToSet(addrCh)
  BY DEF Report, Reports
<1>3. /\ addrCh' \in Seq(Local) /\ IsInjective(addrCh')
      /\ ToSet(addrCh') = ToSet(addrCh) \cup {l} /\ Len(addrCh') = Len(addrCh) + 1
  BY <1>2, AppendNew DEF Report, Reports
<1>4. \A k \in Local : Read(k)' <=> Read(k)
  BY <1>1, <1>2, <1>3 DEF Read
<1>5. TypeOK'
  <2>1. Len(addrCh) \in Nat
    BY DEF Reports
  <2>2. Len(addrCh') <= Len(LocalIPs)
    BY <1>3, <2>1, LocalFacts DEF Report, Room
  <2>3. ToSet(addrCh') \subseteq Local
    BY <1>3 DEF TypeOK
  <2> QED BY <1>1, <2>2, <2>3 DEF TypeOK, Lookups, Report, collected, IsMapping
<1>6. Reports'
  <2>1. \A k \in ToSet(addrCh) : k \in Local /\ lookup[k].at = "done" /\ k # l
    BY <1>2 DEF Reports, TypeOK
  <2>2. \A k \in ToSet(addrCh') : lookup'[k].at = "done"
    BY <1>1, <1>3, <2>1
  <2> QED BY <1>3, <2>2 DEF Reports
<1>7. Counted'
  <2>1. \A f \in Families : OfFamily(f) \subseteq Local
    BY DEF OfFamily
  <2>2. \A f \in Families : {k \in OfFamily(f) : ~Read(k)'} = {k \in OfFamily(f) : ~Read(k)}
    BY <1>4, <2>1
  <2>3. \A f \in Families : (\E k \in OfFamily(f) : Read(k)' /\ lookup'[k].ip # None)
                            <=> \E k \in OfFamily(f) : Read(k) /\ lookup[k].ip # None
    BY <1>1, <1>4, <2>1
  <2>4. UNCHANGED <<pending, mapped, firstResolved, timer>>
    BY DEF Report, collected
  <2>5. \A f \in Families : pending'[f] = Cardinality({k \in OfFamily(f) : ~Read(k)'})
    BY <2>2, <2>4 DEF Counted
  <2>6. \A f \in Families : mapped'[f] <=> \E k \in OfFamily(f) : Read(k)' /\ lookup'[k].ip # None
    BY <2>3, <2>4 DEF Counted
  <2>7. (firstResolved' <=> timer' = "grace") /\ (firstResolved' <=> Settled(pending', mapped'))
    BY <2>4 DEF Counted
  <2> QED BY <2>5, <2>6, <2>7 DEF Counted
<1>8. Kept'
  <2>1. \A e \in DOMAIN natMapping : natMapping[e] \in Local
    BY DEF TypeOK, IsMapping
  <2> QED BY <1>1, <2>1 DEF Kept, Report, collected, Range
<1>9. Returns' /\ Announced'
  BY <1>1 DEF Returns, Announced, Completes, Report, collected, Range
<1> QED BY <1>5, <1>6, <1>7, <1>8, <1>9

LEMMA CollectStep ==
  ASSUME MappingInv, Collect
  PROVE  MappingInv'
<1> USE DEF MappingInv
<1>a. Head(addrCh) \in Local
  BY TakeFirst DEF Reports, Collect
<1> PICK l \in Local : l = Head(addrCh)
  BY <1>a
<1> PICK ip : ip = lookup[l].ip
  OBVIOUS
<1> DEFINE g == FamilyOf[l]
           left == [pending EXCEPT ![g] = @ - 1]
           done == [mapped EXCEPT ![g] = @ \/ ip # None]
           settles == ~firstResolved /\ Settled(left, done)
           unread(f) == {k \in OfFamily(f) : ~Read(k)}
<1>1. /\ main = "collect" /\ remaining > 0 /\ addrCh # <<>>
      /\ addrCh' = Tail(addrCh) /\ remaining' = remaining - 1
      /\ pending' = left /\ mapped' = done
      /\ natMapping' = IF Fresh(ip) THEN Put(natMapping, ip, l) ELSE natMapping
      /\ mappedIPs' = IF Fresh(ip) THEN mappedIPs \cup {l} ELSE mappedIPs
      /\ firstResolved' = (firstResolved \/ settles)
      /\ timer' = IF settles THEN "grace" ELSE timer
      /\ timeUp' = (timeUp /\ ~settles)
      /\ UNCHANGED <<lookup, main, cancelled, result>>
  BY DEF Collect
<1>2. /\ l \in ToSet(addrCh) /\ l \in Local /\ Tail(addrCh) \in Seq(Local) /\ IsInjective(Tail(addrCh))
      /\ ToSet(Tail(addrCh)) = ToSet(addrCh) \ {l}
      /\ Len(Tail(addrCh)) = Len(addrCh) - 1
  BY <1>1, TakeFirst DEF Reports
<1>3. lookup[l].at = "done" /\ g \in Families /\ ip \in External \cup {None} /\ l \in OfFamily(g)
  BY <1>2, LocalFacts DEF Reports, TypeOK, OfFamily
<1>4. ~Read(l) /\ Read(l)' /\ \A k \in Local : k # l => (Read(k)' <=> Read(k))
  <2>1. addrCh' = Tail(addrCh) /\ lookup' = lookup
    BY <1>1
  <2>2. \A k : k \in ToSet(addrCh') <=> k \in ToSet(addrCh) /\ k # l
    BY <1>2, <2>1
  <2> QED BY <1>2, <1>3, <2>1, <2>2 DEF Read
<1>5. \A f \in Families : OfFamily(f) \subseteq Local
  BY DEF OfFamily
<1>6. \A f \in Families : f # g => l \notin OfFamily(f)
  BY DEF OfFamily
<1> HIDE DEF g
<1>7. pending[g] \in 1 .. Len(LocalIPs) /\ Len(LocalIPs) \in Nat
      /\ pending[g] - 1 = Cardinality({k \in OfFamily(g) : ~Read(k)'})
  <2>1. pending[g] = Cardinality(unread(g))
    BY <1>3 DEF Counted
  <2>2. IsFiniteSet(unread(g)) /\ Cardinality(unread(g)) \in 0 .. Len(LocalIPs)
    BY <1>3, <1>5, UnreadFinite
  <2>3. l \in unread(g) /\ {k \in OfFamily(g) : ~Read(k)'} = unread(g) \ {l}
    <3>1. l \in unread(g)
      BY <1>3, <1>4
    <3>2. \A k \in OfFamily(g) : ~Read(k)' <=> ~Read(k) /\ k # l
      BY <1>3, <1>4, <1>5
    <3> HIDE DEF Read
    <3> QED BY <3>1, <3>2
  <2> HIDE DEF unread
  <2>4. Cardinality(unread(g) \ {l}) = Cardinality(unread(g)) - 1 /\ IsFiniteSet(unread(g) \ {l})
    BY <2>2, <2>3, FS_RemoveElement
  <2>5. Cardinality(unread(g) \ {l}) \in Nat
    BY <2>4, FS_CardinalityType
  <2> DEFINE n == Cardinality(unread(g))
  <2>6. n \in 0 .. Len(LocalIPs) /\ n - 1 \in Nat /\ Len(LocalIPs) \in Nat
    BY <2>2, <2>4, <2>5, LocalFacts
  <2>7. pending[g] = n /\ Cardinality({k \in OfFamily(g) : ~Read(k)'}) = n - 1
    BY <2>1, <2>3, <2>4
  <2> HIDE DEF n
  <2>8. n \in 1 .. Len(LocalIPs)
    BY <2>6
  <2> QED BY <2>6, <2>7, <2>8
<1>8. /\ left \in [Families -> 0 .. Len(LocalIPs)] /\ done \in [Families -> BOOLEAN]
      /\ left[g] = pending[g] - 1 /\ (done[g] <=> mapped[g] \/ ip # None)
      /\ \A f \in Families : f # g => left[f] = pending[f] /\ done[f] = mapped[f]
  <2>1. pending \in [Families -> 0 .. Len(LocalIPs)] /\ mapped \in [Families -> BOOLEAN]
    BY DEF TypeOK
  <2>2. pending[g] - 1 \in 0 .. Len(LocalIPs)
    BY <1>7
  <2>3. left \in [Families -> 0 .. Len(LocalIPs)] /\ left[g] = pending[g] - 1
        /\ \A f \in Families : f # g => left[f] = pending[f]
    BY <1>3, <2>1, <2>2
  <2>4. done \in [Families -> BOOLEAN] /\ (done[g] <=> mapped[g] \/ ip # None)
        /\ \A f \in Families : f # g => done[f] = mapped[f]
    BY <1>3, <2>1
  <2> QED BY <2>3, <2>4
<1> HIDE DEF left, done
<1>9. /\ IsMapping(natMapping')
      /\ Fresh(ip) => /\ DOMAIN natMapping' = DOMAIN natMapping \cup {ip}
                      /\ natMapping'[ip] = l
                      /\ \A e \in DOMAIN natMapping : natMapping'[e] = natMapping[e]
  <2>1. CASE Fresh(ip)
    <3>1. natMapping' = Put(natMapping, ip, l) /\ ip \notin DOMAIN natMapping /\ ip \in External
      BY <1>1, <1>3, <2>1 DEF Fresh
    <3>2. /\ DOMAIN natMapping' = DOMAIN natMapping \cup {ip}
          /\ natMapping'[ip] = l
          /\ \A e \in DOMAIN natMapping : natMapping'[e] = natMapping[e]
          /\ natMapping' = [e \in DOMAIN natMapping \cup {ip} |-> natMapping'[e]]
      BY <3>1 DEF Put
    <3> QED BY <1>2, <3>1, <3>2 DEF TypeOK, IsMapping
  <2>2. CASE ~Fresh(ip)
    BY <1>1, <2>2 DEF TypeOK
  <2> QED BY <2>1, <2>2
<1>10. TypeOK'
  <2>1. Len(addrCh') <= Len(LocalIPs)
    <3>1. Len(addrCh) \in Nat /\ Len(addrCh) <= Len(LocalIPs)
      BY DEF Reports, TypeOK
    <3> QED BY <1>1, <1>2, <3>1, LocalFacts
  <2>2. remaining' \in 0 .. Len(LocalIPs)
    BY <1>1, LocalFacts DEF TypeOK
  <2>3. ToSet(addrCh') \subseteq Local
    BY <1>1, <1>2 DEF TypeOK
  <2>4. {firstResolved', timeUp', cancelled'} \subseteq BOOLEAN /\ timer' \in {"budget", "grace"}
    BY <1>1 DEF TypeOK
  <2>5. mappedIPs' \subseteq Local
    BY <1>1, <1>2 DEF TypeOK
  <2> QED BY <1>1, <1>8, <1>9, <2>1, <2>2, <2>3, <2>4, <2>5 DEF TypeOK, IsMapping
<1>11. Reports'
  BY <1>1, <1>2 DEF Reports
<1>12. Counted'
  <2>1. ASSUME NEW f \in Families PROVE pending'[f] = Cardinality({k \in OfFamily(f) : ~Read(k)'})
    <3>1. CASE f = g
      BY <1>1, <1>7, <1>8, <3>1
    <3>2. CASE f # g
      <4>1. {k \in OfFamily(f) : ~Read(k)'} = unread(f)
        BY <1>4, <1>5, <1>6, <3>2
      <4> QED BY <1>1, <1>8, <3>2, <4>1 DEF Counted
    <3> QED BY <3>1, <3>2
  <2>2. ASSUME NEW f \in Families
        PROVE  mapped'[f] <=> \E k \in OfFamily(f) : Read(k)' /\ lookup'[k].ip # None
    <3>1. CASE f = g
      <4>1. (\E k \in OfFamily(g) : Read(k)' /\ lookup'[k].ip # None)
            <=> (\E k \in OfFamily(g) : Read(k) /\ lookup[k].ip # None) \/ ip # None
        <5>1. lookup' = lookup /\ ip = lookup[l].ip
          BY <1>1
        <5>2. \A k \in OfFamily(g) : Read(k)' <=> Read(k) \/ k = l
          BY <1>3, <1>4, <1>5
        <5> HIDE DEF Read
        <5> QED BY <1>3, <5>1, <5>2
      <4> QED BY <1>1, <1>8, <3>1, <4>1 DEF Counted
    <3>2. CASE f # g
      <4>1. (\E k \in OfFamily(f) : Read(k)' /\ lookup'[k].ip # None)
            <=> \E k \in OfFamily(f) : Read(k) /\ lookup[k].ip # None
        BY <1>1, <1>4, <1>5, <1>6, <3>2
      <4> QED BY <1>1, <1>8, <3>2, <4>1 DEF Counted
    <3> QED BY <3>1, <3>2
  <2>3. Settled(pending, mapped) => Settled(left, done)
    <3> SUFFICES ASSUME Settled(pending, mapped), NEW f \in Families PROVE left[f] = 0 \/ done[f]
      BY DEF Settled
    <3>1. pending[f] = 0 \/ mapped[f]
      BY DEF Settled
    <3>2. f # g => left[f] = 0 \/ done[f]
      BY <1>8, <3>1
    <3>3. f = g => done[f]
      BY <1>7, <1>8, <3>1
    <3> QED BY <3>2, <3>3
  <2>4. (firstResolved' <=> timer' = "grace") /\ (firstResolved' <=> Settled(pending', mapped'))
    <3>1. (firstResolved <=> timer = "grace") /\ (firstResolved <=> Settled(pending, mapped))
      BY DEF Counted
    <3>2. firstResolved' = (firstResolved \/ settles) /\ timer' = IF settles THEN "grace" ELSE timer
      BY <1>1
    <3>3. pending' = left /\ mapped' = done
      BY <1>1
    <3> QED BY <2>3, <3>1, <3>2, <3>3
  <2> QED BY <2>1, <2>2, <2>4 DEF Counted
<1>13. Kept'
  <2>1. CASE Fresh(ip)
    <3>1. \A e \in DOMAIN natMapping' :
            lookup'[natMapping'[e]].ip = e /\ lookup'[natMapping'[e]].at # "try"
      BY <1>1, <1>3, <1>9, <2>1 DEF Kept
    <3>2. mappedIPs' = Range(natMapping')
      BY <1>1, <1>9, <2>1 DEF Kept, Range, Fresh
    <3> QED BY <3>1, <3>2 DEF Kept
  <2>2. CASE ~Fresh(ip)
    BY <1>1, <2>2 DEF Kept
  <2> QED BY <2>1, <2>2
<1>14. Returns' /\ Announced'
  BY <1>1 DEF Returns, Announced
<1> QED BY <1>10, <1>11, <1>12, <1>13, <1>14

\* Every local address without a mapping is mapped to itself, one by one.
Mappings == UNION {[D -> Local] : D \in SUBSET (External \cup Local)}

LEMMA MappingSet ==
  ASSUME NEW m
  PROVE  m \in Mappings <=> IsMapping(m)
<1>1. ASSUME m \in Mappings PROVE IsMapping(m)
  BY <1>1 DEF Mappings, IsMapping
<1>2. ASSUME IsMapping(m) PROVE m \in Mappings
  BY <1>2 DEF Mappings, IsMapping
<1> QED BY <1>1, <1>2

LEMMA CoveredIs ==
  ASSUME NEW m, NEW l \in Local, l \notin Range(m)
  PROVE  /\ Covered(m, l) = [x \in DOMAIN m \cup {l} |-> IF x = l THEN l ELSE m[x]]
         /\ DOMAIN Covered(m, l) = DOMAIN m \cup {l} /\ Covered(m, l)[l] = l
         /\ \A x \in DOMAIN m : x # l => Covered(m, l)[x] = m[x]
BY DEF Covered, Put

LEMMA CoveredStep ==
  ASSUME NEW m, IsMapping(m), NEW l \in Local
  PROVE  IsMapping(Covered(m, l)) /\ DOMAIN m \subseteq DOMAIN Covered(m, l)
<1>1. CASE l \in Range(m)
  BY <1>1 DEF Covered
<1>2. CASE l \notin Range(m)
  <2> DEFINE c == Covered(m, l)
  <2>1. /\ c = [x \in DOMAIN m \cup {l} |-> IF x = l THEN l ELSE m[x]]
        /\ DOMAIN c = DOMAIN m \cup {l}
    BY <1>2, CoveredIs
  <2> HIDE DEF c
  <2>2. c \in [DOMAIN c -> Local]
    BY <2>1 DEF IsMapping
  <2>3. DOMAIN c \subseteq External \cup Local
    BY <2>1 DEF IsMapping
  <2> QED BY <2>1, <2>2, <2>3 DEF IsMapping, c
<1> QED BY <1>1, <1>2

LEMMA CoveredCompletes ==
  ASSUME External \cap Local = {}, DOMAIN natMapping \subseteq External,
         NEW m, NEW l \in Local, NEW D, Completes(m, D)
  PROVE  Completes(Covered(m, l), D \cup {l})
<1>1. CASE l \in Range(m)
  BY <1>1 DEF Covered, Completes
<1>2. CASE l \notin Range(m)
  <2> DEFINE c == Covered(m, l)
  <2>1. DOMAIN c = DOMAIN m \cup {l} /\ c[l] = l /\ \A x \in DOMAIN m : x # l => c[x] = m[x]
    BY <1>2, CoveredIs
  <2> HIDE DEF c
  <2>2. l \notin DOMAIN m
    BY <1>2 DEF Completes, Range
  <2>3. \A x \in DOMAIN m : x \in DOMAIN c /\ c[x] = m[x]
    BY <2>1, <2>2
  <2>4. \A e \in DOMAIN natMapping : e \in DOMAIN c /\ c[e] = natMapping[e]
    BY <2>3 DEF Completes
  <2>5. \A e \in DOMAIN c \ DOMAIN natMapping : e \in Local /\ c[e] = e
    BY <2>1, <2>3 DEF Completes
  <2>6. D \cup {l} \subseteq Range(c)
    BY <2>1, <2>3 DEF Completes, Range
  <2>7. Completes(c, D \cup {l})
    BY <2>4, <2>5, <2>6 DEF Completes
  <2> QED BY <2>7 DEF c
<1> QED BY <1>1, <1>2

LEMMA MapRestCovers ==
  ASSUME IsMapping(natMapping), DOMAIN natMapping \subseteq External
  PROVE  /\ IsMapping(MapRest) /\ DOMAIN natMapping \subseteq DOMAIN MapRest
         /\ External \cap Local = {} => Completes(MapRest, Local)
<1> DEFINE n == Len(LocalIPs)
           G == [i \in 1 .. n |-> [m \in Mappings |-> Covered(m, LocalIPs[i])]]
           Body(f) == [i \in 0 .. n |-> IF i = 0 THEN natMapping ELSE Covered(f[i - 1], LocalIPs[i])]
           q == CHOOSE f : f = Body(f)
           P == { i \in 0 .. n :
                    /\ IsMapping(q[i]) /\ DOMAIN natMapping \subseteq DOMAIN q[i]
                    /\ External \cap Local = {} => Completes(q[i], { LocalIPs[j] : j \in 1 .. i }) }
<1>0. n \in Nat /\ \A i \in 1 .. n : LocalIPs[i] \in Local
  BY LocalFacts
<1>1. natMapping \in Mappings /\ \A m \in Mappings, l \in Local : Covered(m, l) \in Mappings
  BY MappingSet, CoveredStep
<1>2. G \in [1 .. n -> [Mappings -> Mappings]]
  BY <1>0, <1>1
<1>3. PICK f : CountsUp(f, n, Mappings, natMapping, G)
  <2> HIDE DEF n, G
  <2> QED BY <1>0, <1>1, <1>2, UpwardRecursion
<1>4. ASSUME NEW i \in 1 .. n PROVE f[i] = Covered(f[i - 1], LocalIPs[i])
  <2>1. f[i - 1] \in Mappings /\ f[i] = G[i][f[i - 1]]
    <3> HIDE DEF n, G
    <3> QED BY <1>0, <1>3 DEF CountsUp
  <2> QED BY <2>1
<1>5. f = Body(f)
  <2>1. f = [i \in 0 .. n |-> f[i]] /\ f[0] = natMapping
    BY <1>3 DEF CountsUp
  <2> HIDE DEF n
  <2> QED BY <1>0, <1>4, <2>1
<1>6. MapRest = q[n]
  BY DEF MapRest
<1> HIDE DEF Body
<1>7. q = Body(q)
  BY <1>5
<1> HIDE DEF q
<1>8. q[0] = natMapping /\ \A i \in 1 .. n : q[i] = Covered(q[i - 1], LocalIPs[i])
  <2> HIDE DEF n
  <2> QED BY <1>0, <1>7 DEF Body
<1> HIDE DEF n, G
<1>9. \A i \in 0 .. n : i \in P
  <2>1. 0 \in P
    <3>1. { LocalIPs[j] : j \in 1 .. 0 } = {}
      OBVIOUS
    <3>2. Completes(natMapping, {})
      BY DEF Completes
    <3> QED BY <1>0, <1>8, <3>1, <3>2
  <2>2. ASSUME NEW i \in 0 .. n - 1, i \in P PROVE i + 1 \in P
    <3> DEFINE l == LocalIPs[i + 1]
               D == { LocalIPs[j] : j \in 1 .. i }
    <3>1. i + 1 \in 1 .. n /\ (i + 1) - 1 = i /\ i + 1 \in 0 .. n
      BY <1>0
    <3>2. q[i + 1] = Covered(q[i], l) /\ l \in Local
      BY <1>0, <1>8, <3>1
    <3>3. { LocalIPs[j] : j \in 1 .. i + 1 } = D \cup {l}
      <4>1. \A j \in 1 .. i + 1 : j \in 1 .. i \/ j = i + 1
        BY <1>0
      <4>2. \A j \in 1 .. i : j \in 1 .. i + 1
        BY <1>0
      <4>3. i + 1 \in 1 .. i + 1
        BY <1>0
      <4> QED BY <4>1, <4>2, <4>3
    <3>4. /\ IsMapping(q[i]) /\ DOMAIN natMapping \subseteq DOMAIN q[i]
          /\ External \cap Local = {} => Completes(q[i], D)
      BY <2>2
    <3> HIDE DEF P, D, l
    <3>5. IsMapping(Covered(q[i], l)) /\ DOMAIN q[i] \subseteq DOMAIN Covered(q[i], l)
      BY <3>2, <3>4, CoveredStep
    <3>6. External \cap Local = {} => Completes(Covered(q[i], l), D \cup {l})
      BY <3>2, <3>4, CoveredCompletes
    <3> QED BY <3>1, <3>2, <3>3, <3>4, <3>5, <3>6 DEF P
  <2>3. P \in SUBSET (0 .. n)
    OBVIOUS
  <2> HIDE DEF P
  <2> QED BY <1>0, <2>1, <2>2, <2>3, UpwardInduction
<1>10. n \in P
  BY <1>0, <1>9
<1>11. { LocalIPs[j] : j \in 1 .. n } = Local
  BY LocalFacts DEF n, Local, ToSet
<1> QED BY <1>6, <1>10, <1>11

LEMMA FinishStep ==
  ASSUME MappingInv, Finish
  PROVE  MappingInv'
<1> USE DEF MappingInv
<1>1. /\ main = "wait" /\ main' = "done" /\ \A l \in Local : lookup[l].at = "done"
      /\ result' = IF natMapping = <<>> THEN <<>> ELSE MapRest
      /\ UNCHANGED <<lookup, addrCh, cancelled, collected, timeUp>>
  BY DEF Finish
<1>2. \A e \in DOMAIN natMapping : e \in External
  BY MappingAssumption DEF Kept, TypeOK, IsMapping
<1>3. /\ IsMapping(MapRest)
      /\ External \cap Local = {} => Completes(MapRest, Local)
  BY <1>2, MapRestCovers DEF TypeOK
<1>4. IsMapping(<<>>)
  BY DEF IsMapping
<1>5. IsMapping(result')
  BY <1>1, <1>3, <1>4
<1>6. TypeOK'
  BY <1>1, <1>5 DEF TypeOK, collected, IsMapping
<1>7. Reports' /\ Kept'
  BY <1>1 DEF Reports, Kept, collected
<1>8. Counted'
  BY <1>1 DEF Counted, collected, Read, Settled
<1>9. Returns'
  BY <1>1 DEF Returns
<1>10. Announced'
  <2>1. natMapping' = natMapping
    BY <1>1 DEF collected
  <2> QED BY <1>1, <1>3, <2>1 DEF Announced, Completes
<1> QED BY <1>6, <1>7, <1>8, <1>9, <1>10

LEMMA TimerStep ==
  ASSUME MappingInv, TimerFires \/ TimedOut \/ AllReported
  PROVE  MappingInv'
<1> USE DEF MappingInv
<1>1. /\ UNCHANGED <<lookup, addrCh, collected, result>>
      /\ main = "collect" /\ main' \in {"collect", "wait"}
      /\ timeUp' \in BOOLEAN /\ cancelled' \in BOOLEAN
  BY DEF TimerFires, TimedOut, AllReported, Leaves, TypeOK
<1>2. TypeOK'
  BY <1>1 DEF TypeOK, collected, IsMapping
<1>3. Reports' /\ Kept'
  BY <1>1 DEF Reports, Kept, collected
<1>4. Counted'
  BY <1>1 DEF Counted, collected, Read, Settled
<1>5. Returns' /\ Announced'
  BY <1>1 DEF Returns, Announced
<1> QED BY <1>2, <1>3, <1>4, <1>5

LEMMA MappingStep ==
  ASSUME MappingInv, [Next]_vars
  PROVE  MappingInv'
<1>1. ASSUME NEW l \in Local, Lookup(l) PROVE MappingInv'
  BY <1>1, LookupSteps, ReportStep DEF Lookup
<1>2. CASE UNCHANGED vars
  <2>1. /\ UNCHANGED <<lookup, addrCh, main, cancelled, timeUp, result, pending, mapped>>
        /\ UNCHANGED <<firstResolved, remaining, timer, natMapping, mappedIPs>>
    BY <1>2 DEF vars, collected
  <2> USE <2>1 DEF MappingInv
  <2>2. TypeOK' /\ Reports' /\ Kept'
    BY DEF TypeOK, IsMapping, Reports, Kept
  <2>3. Counted' /\ Returns' /\ Announced'
    BY DEF Counted, Read, Settled, Returns, Announced, Completes
  <2> QED BY <2>2, <2>3
<1> QED BY <1>1, <1>2, CollectStep, FinishStep, TimerStep DEF Next

LEMMA Grace == MappingInv => GraceWhenSettled
<1> SUFFICES ASSUME MappingInv PROVE GraceWhenSettled
  OBVIOUS
<1> USE DEF MappingInv
<1>1. ASSUME NEW f \in Families PROVE pending[f] = 0 <=> \A l \in OfFamily(f) : Read(l)
  <2> DEFINE unread == {l \in OfFamily(f) : ~Read(l)}
  <2>1. pending[f] = Cardinality(unread)
    BY DEF Counted
  <2>2. IsFiniteSet(unread)
    BY UnreadFinite DEF OfFamily
  <2>3. Cardinality(unread) = 0 <=> unread = {}
    BY <2>2, FS_EmptySet
  <2> QED BY <2>1, <2>3
<1>2. timer = "grace" <=> Settled(pending, mapped)
  BY DEF Counted
<1>3. \A f \in Families : mapped[f] <=> \E l \in OfFamily(f) : Read(l) /\ lookup[l].ip # None
  BY DEF Counted
<1>4. Settled(pending, mapped) <=>
        \A f \in Families : \/ \A l \in OfFamily(f) : Read(l)
                            \/ \E l \in OfFamily(f) : Read(l) /\ lookup[l].ip # None
  BY <1>1, <1>3 DEF Settled
<1> QED BY <1>2, <1>4 DEF GraceWhenSettled

LEMMA MappingHolds == Spec => []MappingInv
<1>1. Init => MappingInv
  BY MappingInit
<1>2. MappingInv /\ [Next]_vars => MappingInv'
  BY MappingStep
<1> QED BY <1>1, <1>2, PTL DEF Spec

\* An IPv4 address passes the filter of ExternalIPOnly exactly when it is returned
\* with the address its lookup found (webrtc_config.go:426, 435-449), unless a
\* lookup finds one of the host's own addresses.
THEOREM FilterIsExact ==
  ASSUME External \cap Local = {}
  PROVE  Spec => []OnlyMappedPass
<1>1. MappingInv => OnlyMappedPass
  <2> SUFFICES ASSUME MappingInv, main = "done", result # <<>>, NEW l \in OfFamily(4)
               PROVE  PassesFilter(l) <=> \E e \in DOMAIN result : result[e] = l /\ lookup[l].ip = e
    BY DEF OnlyMappedPass
  <2> USE DEF MappingInv
  <2>1. l \in Local /\ FamilyOf[l] # 6
    BY DEF OfFamily
  <2>2. Completes(result, Local)
    BY DEF Announced
  <2>3. ASSUME l \in mappedIPs PROVE \E e \in DOMAIN result : result[e] = l /\ lookup[l].ip = e
    BY <2>2, <2>3 DEF Kept, Range, Completes
  <2>4. ASSUME NEW e \in DOMAIN result, result[e] = l, lookup[l].ip = e PROVE l \in mappedIPs
    <3>1. e \in External \cup {None}
      BY <2>1, <2>4 DEF TypeOK
    <3>2. e \notin Local
      BY <3>1, MappingAssumption
    <3>3. e \in DOMAIN natMapping /\ natMapping[e] = l
      BY <2>2, <2>4, <3>2 DEF Completes
    <3> QED BY <3>3 DEF Kept, Range
  <2> QED BY <2>1, <2>3, <2>4 DEF PassesFilter
<1> QED BY <1>1, MappingHolds, PTL

-----------------------------------------------------------------------------
(* The mapping inside the configuration.                                   *)

LEMMA ConfInit == InitConf => Init
  BY DEF InitConf

LEMMA ConfSteps ==
  ASSUME [NextConf]_varsConf
  PROVE  [Next]_vars
<1>1. CASE UNCHANGED varsConf
  BY <1>1 DEF varsConf
<1>2. CASE Validate \/ ReloadExternalIP \/ LookupFinds \/ LookupFails \/ TakeLocal
  BY <1>2 DEF Validate, ReloadExternalIP, LookupFinds, LookupFails, TakeLocal, Resolves
<1>3. CASE NewWebRTCConfig \/ Mapping(Next) \/ Mapped
  BY <1>3 DEF NewWebRTCConfig, Mapping, Mapped
<1>4. CASE Opening
  BY <1>4 DEF Opening, StartUDP, Enumerate, ListenUDP, CreateFails, CreateMuxes, ListenTCP, NoTCP,
              LateFailure, Configured
<1>5. ASSUME NEW ip \in DOMAIN taken, next(ip) PROVE [Next]_vars
  BY <1>5 DEF next
<1> QED BY <1>1, <1>2, <1>3, <1>4, <1>5 DEF NextConf

\* Types; and the grace period starts when every family has an address or no lookup
\* left, and no earlier (webrtc_config.go:356-358, 402-405).
THEOREM GraceHolds == SpecConf => []GraceWhenSettled
<1>1. InitConf => MappingInv
  BY ConfInit, MappingInit
<1>2. MappingInv /\ [NextConf]_varsConf => MappingInv'
  BY ConfSteps, MappingStep
<1> QED BY <1>1, <1>2, Grace, PTL DEF SpecConf

-----------------------------------------------------------------------------
(* Loops over addresses and sockets.                                       *)

\* k[i] is what was collected of the first i elements of q.
Collects(k, T, q, S) ==
  /\ k \in [0 .. Len(q) -> Seq(T \cap S)] /\ Those(q, S) = k[Len(q)] /\ k[0] = <<>>
  /\ \A i \in 1 .. Len(q) : k[i] = IF q[i] \in S THEN Append(k[i - 1], q[i]) ELSE k[i - 1]

LEMMA ThoseLoop ==
  ASSUME NEW T, NEW q \in Seq(T), NEW S
  PROVE  \E k : Collects(k, T, q, S)
<1> DEFINE n == Len(q)
           V == Seq(T \cap S)
           Next1(s, i) == IF q[i] \in S THEN Append(s, q[i]) ELSE s
           G == [i \in 1 .. n |-> [s \in V |-> Next1(s, i)]]
           Body(f) == [i \in 0 .. n |-> IF i = 0 THEN <<>> ELSE Next1(f[i - 1], i)]
           k == CHOOSE f : f = Body(f)
<1>0. n \in Nat /\ <<>> \in V /\ \A i \in 1 .. n : q[i] \in T
  OBVIOUS
<1>1. G \in [1 .. n -> [V -> V]]
  <2>1. ASSUME NEW i \in 1 .. n, NEW s \in V PROVE Next1(s, i) \in V
    <3>1. CASE q[i] \in S
      <4>1. q[i] \in T \cap S
        BY <1>0, <3>1
      <4>2. Append(s, q[i]) \in V
        BY <4>1
      <4> QED BY <3>1, <4>2
    <3>2. CASE q[i] \notin S
      BY <3>2
    <3> QED BY <3>1, <3>2
  <2> HIDE DEF Next1, V, n
  <2> QED BY <2>1
<1>2. PICK f : CountsUp(f, n, V, <<>>, G)
  <2> HIDE DEF n, G, V
  <2> QED BY <1>0, <1>1, UpwardRecursion
<1>3. ASSUME NEW i \in 1 .. n PROVE f[i] = Next1(f[i - 1], i)
  <2>1. f[i - 1] \in V /\ f[i] = G[i][f[i - 1]]
    <3> HIDE DEF n, G, V
    <3> QED BY <1>0, <1>2 DEF CountsUp
  <2> HIDE DEF Next1, V, n
  <2> QED BY <2>1
<1>4. f = Body(f)
  <2>1. f = [i \in 0 .. n |-> f[i]] /\ f[0] = <<>> /\ f \in [0 .. n -> V]
    BY <1>2 DEF CountsUp
  <2> HIDE DEF n, Next1, V
  <2>2. \A i \in 0 .. n : f[i] = IF i = 0 THEN <<>> ELSE Next1(f[i - 1], i)
    <3>1. \A i \in 0 .. n : i = 0 \/ i \in 1 .. n
      BY <1>0
    <3> QED BY <1>3, <2>1, <3>1
  <2> QED BY <2>1, <2>2
<1>5. Those(q, S) = k[n]
  BY DEF Those
<1> HIDE DEF Body
<1>6. k = Body(k)
  BY <1>4
<1> HIDE DEF k
<1>7. /\ k[0] = <<>> /\ k = [i \in 0 .. n |-> k[i]]
      /\ \A i \in 1 .. n : k[i] = Next1(k[i - 1], i)
  <2> HIDE DEF n, Next1, V
  <2> QED BY <1>0, <1>6 DEF Body
<1> DEFINE P == { i \in 0 .. n : k[i] \in V }
<1>8. \A i \in 0 .. n : i \in P
  <2>1. 0 \in P
    BY <1>0, <1>7
  <2>2. ASSUME NEW i \in 0 .. n - 1, i \in P PROVE i + 1 \in P
    <3>1. i + 1 \in 1 .. n /\ (i + 1) - 1 = i /\ i + 1 \in 0 .. n
      BY <1>0
    <3>2. k[i + 1] = Next1(k[i], i + 1) /\ k[i] \in V
      BY <1>7, <2>2, <3>1
    <3>3. k[i + 1] \in V
      <4>1. CASE q[i + 1] \in S
        <5>1. q[i + 1] \in T \cap S
          BY <1>0, <3>1, <4>1
        <5> QED BY <3>2, <4>1, <5>1
      <4>2. CASE q[i + 1] \notin S
        BY <3>2, <4>2
      <4> QED BY <4>1, <4>2
    <3> QED BY <3>1, <3>3
  <2>3. P \in SUBSET (0 .. n)
    OBVIOUS
  <2> HIDE DEF P, n
  <2> QED BY <1>0, <2>1, <2>2, <2>3, UpwardInduction
<1>9. k \in [0 .. n -> V]
  BY <1>7, <1>8
<1>10. Collects(k, T, q, S)
  BY <1>5, <1>7, <1>9 DEF Collects
<1> QED BY <1>10

\* What a loop collects of a sequence.
LEMMA ThoseTyped ==
  ASSUME NEW T, NEW q \in Seq(T), NEW S
  PROVE  Those(q, S) \in Seq(T \cap S)
<1>1. PICK k : Collects(k, T, q, S)
  BY ThoseLoop
<1>2. Len(q) \in 0 .. Len(q)
  OBVIOUS
<1> QED BY <1>1, <1>2 DEF Collects

LEMMA ThoseOnce ==
  ASSUME NEW T, NEW q \in Seq(T), NEW S, IsInjective(q)
  PROVE  IsInjective(Those(q, S))
<1> DEFINE n == Len(q)
<1>0. PICK k : Collects(k, T, q, S)
  BY ThoseLoop
<1>1. /\ k \in [0 .. n -> Seq(T \cap S)] /\ Those(q, S) = k[n] /\ k[0] = <<>>
      /\ \A i \in 1 .. n : k[i] = IF q[i] \in S THEN Append(k[i - 1], q[i]) ELSE k[i - 1]
  BY <1>0 DEF Collects
<1> DEFINE P == { i \in 0 .. n : IsInjective(k[i]) /\ \A x \in ToSet(k[i]) : \E j \in 1 .. i : x = q[j] }
<1>2. n \in Nat /\ DOMAIN q = 1 .. n /\ \A i \in 1 .. n : q[i] \in T
  OBVIOUS
<1>3. 0 \in P
  <2>1. IsInjective(<<>>) /\ ToSet(<<>>) = {}
    BY DEF IsInjective, ToSet
  <2> QED BY <1>1, <1>2, <2>1
<1> HIDE DEF n
<1>4. ASSUME NEW i \in 0 .. n - 1, i \in P PROVE i + 1 \in P
  <2>1. i + 1 \in 1 .. n /\ (i + 1) - 1 = i /\ i \in 0 .. n /\ i + 1 \in 0 .. n /\ i \in Nat
    BY <1>2
  <2>2. k[i + 1] = IF q[i + 1] \in S THEN Append(k[i], q[i + 1]) ELSE k[i]
    BY <1>1, <2>1
  <2>3. IsInjective(k[i]) /\ \A x \in ToSet(k[i]) : \E j \in 1 .. i : x = q[j]
    BY <1>4
  <2>4. \A j \in 1 .. i : j \in 1 .. i + 1 /\ j \in 1 .. n /\ j # i + 1
    BY <1>2
  <2>5. CASE q[i + 1] \notin S
    <3>1. k[i + 1] = k[i]
      BY <2>2, <2>5
    <3> QED BY <2>1, <2>3, <2>4, <3>1
  <2>6. CASE q[i + 1] \in S
    <3>1. q[i + 1] \in T \cap S /\ k[i] \in Seq(T \cap S)
      BY <1>1, <1>2, <2>1, <2>6
    <3>2. q[i + 1] \notin ToSet(k[i])
      BY <1>2, <2>1, <2>3, <2>4 DEF IsInjective
    <3>3. IsInjective(Append(k[i], q[i + 1])) /\ ToSet(Append(k[i], q[i + 1])) = ToSet(k[i]) \cup {q[i + 1]}
      BY <2>3, <3>1, <3>2, AppendNew
    <3>4. k[i + 1] = Append(k[i], q[i + 1])
      BY <2>2, <2>6
    <3>5. \A x \in ToSet(k[i + 1]) : \E j \in 1 .. i + 1 : x = q[j]
      <4>1. i + 1 \in 1 .. i + 1
        BY <2>1
      <4> QED BY <2>3, <2>4, <3>3, <3>4, <4>1
    <3> QED BY <2>1, <3>3, <3>4, <3>5
  <2> QED BY <2>5, <2>6
<1>5. \A i \in 0 .. n : i \in P
  <2>1. P \in SUBSET (0 .. n)
    OBVIOUS
  <2> HIDE DEF P
  <2> QED BY <1>2, <1>3, <1>4, <2>1, UpwardInduction
<1> QED BY <1>1, <1>2, <1>5

LEMMA FlattenTyped ==
  ASSUME NEW T, NEW r \in Seq(Seq(T))
  PROVE  FlattenSeq(r) \in Seq(T)
<1> DEFINE n == Len(r)
           V == Seq(T)
           G == [i \in 1 .. n - 1 |-> [s \in V |-> s \o r[i + 1]]]
           Body(f) == [i \in 1 .. n |-> IF i = 1 THEN r[i] ELSE f[i - 1] \o r[i]]
           k == CHOOSE f : f = Body(f)
<1>0. n \in Nat /\ \A i \in 1 .. n : r[i] \in V
  OBVIOUS
<1>1. CASE n = 0
  <2>1. FlattenSeq(r) = r /\ r = <<>>
    BY <1>1 DEF FlattenSeq
  <2> QED BY <2>1
<1>2. CASE n # 0
  <2>0. n - 1 \in Nat /\ n \in 1 .. n /\ r[1] \in V
    BY <1>0, <1>2
  <2>1. G \in [1 .. n - 1 -> [V -> V]]
    <3>1. ASSUME NEW i \in 1 .. n - 1, NEW s \in V PROVE s \o r[i + 1] \in V
      <4>1. i + 1 \in 1 .. n
        BY <1>0
      <4>2. r[i + 1] \in V
        BY <1>0, <4>1
      <4> QED BY <4>2
    <3> HIDE DEF V, n
    <3> QED BY <3>1
  <2>2. PICK g : CountsUp(g, n - 1, V, r[1], G)
    <3> HIDE DEF n, G, V
    <3> QED BY <2>0, <2>1, UpwardRecursion
  <2>3. /\ \A i \in 0 .. n - 1 : g[i] \in V
        /\ g[0] = r[1]
        /\ \A i \in 1 .. n - 1 : g[i] = g[i - 1] \o r[i + 1]
    <3>1. ASSUME NEW i \in 1 .. n - 1 PROVE g[i] = g[i - 1] \o r[i + 1]
      <4>1. g[i - 1] \in V /\ g[i] = G[i][g[i - 1]]
        <5> HIDE DEF n, G, V
        <5> QED BY <2>0, <2>2 DEF CountsUp
      <4> HIDE DEF V, n
      <4> QED BY <4>1
    <3> HIDE DEF n, V, G
    <3> QED BY <2>2, <3>1 DEF CountsUp
  <2> HIDE DEF G
  <2> DEFINE f == [i \in 1 .. n |-> g[i - 1]]
  <2>4. f = Body(f)
    <3>1. ASSUME NEW i \in 1 .. n PROVE f[i] = IF i = 1 THEN r[i] ELSE f[i - 1] \o r[i]
      <4>1. CASE i = 1
        BY <2>3, <4>1
      <4>2. CASE i # 1
        <5>1. i - 1 \in 1 .. n - 1 /\ (i - 1) + 1 = i /\ i - 1 \in 1 .. n
          BY <1>0, <4>2
        <5>2. g[i - 1] = g[(i - 1) - 1] \o r[i]
          BY <2>3, <5>1
        <5>3. f[i] = g[i - 1] /\ f[i - 1] = g[(i - 1) - 1]
          BY <5>1
        <5> HIDE DEF f
        <5> QED BY <4>2, <5>2, <5>3
      <4> QED BY <4>1, <4>2
    <3>2. f = [i \in 1 .. n |-> f[i]]
      OBVIOUS
    <3> HIDE DEF f, n
    <3> QED BY <3>1, <3>2
  <2>5. FlattenSeq(r) = k[n]
    BY <1>2 DEF FlattenSeq
  <2> HIDE DEF Body, f
  <2>6. k = Body(k)
    BY <2>4
  <2> HIDE DEF k
  <2>7. k[1] = r[1] /\ \A i \in 2 .. n : k[i] = k[i - 1] \o r[i]
    <3> HIDE DEF n, V
    <3>1. \A i \in 1 .. n : k[i] = IF i = 1 THEN r[i] ELSE k[i - 1] \o r[i]
      BY <2>6 DEF Body
    <3>2. 1 \in 1 .. n /\ \A i \in 2 .. n : i \in 1 .. n /\ i # 1
      BY <2>0
    <3> QED BY <3>1, <3>2
  <2> DEFINE P == { i \in 0 .. n - 1 : k[i + 1] \in V }
  <2>8. \A i \in 0 .. n - 1 : i \in P
    <3>1. 0 \in P
      BY <2>0, <2>7
    <3>2. ASSUME NEW i \in 0 .. (n - 1) - 1, i \in P PROVE i + 1 \in P
      <4>1. (i + 1) + 1 \in 2 .. n /\ ((i + 1) + 1) - 1 = i + 1 /\ i + 1 \in 0 .. n - 1 /\ (i + 1) + 1 \in 1 .. n
        BY <1>0
      <4>2. k[(i + 1) + 1] = k[i + 1] \o r[(i + 1) + 1] /\ r[(i + 1) + 1] \in V /\ k[i + 1] \in V
        BY <1>0, <2>7, <3>2, <4>1
      <4>3. k[(i + 1) + 1] \in V
        BY <4>2
      <4> QED BY <4>1, <4>3
    <3>3. P \in SUBSET (0 .. n - 1)
      OBVIOUS
    <3> HIDE DEF P, n
    <3> QED BY <2>0, <3>1, <3>2, <3>3, UpwardInduction
  <2>9. k[n] \in V
    <3>1. n - 1 \in 0 .. n - 1 /\ (n - 1) + 1 = n
      BY <2>0
    <3> QED BY <2>8, <3>1
  <2> QED BY <2>5, <2>9
<1> QED BY <1>1, <1>2

-----------------------------------------------------------------------------
(* The configuration and the address of the node.                          *)

Hosts == [ip : IPs, iface : STRING, up : BOOLEAN, loopback : BOOLEAN, linkLocal : BOOLEAN]

LEMMA IpsTyped ==
  ASSUME NEW S, NEW q \in Seq(Hosts), \A i \in DOMAIN q : q[i].ip \in S
  PROVE  IpsOf(q) \in Seq(S)
<1>1. Len(q) \in Nat /\ DOMAIN q = 1 .. Len(q)
  OBVIOUS
<1> DEFINE f == [i \in 1 .. Len(q) |-> q[i].ip]
<1>2. IpsOf(q) = f
  BY <1>1 DEF IpsOf
<1>3. f \in [1 .. Len(q) -> S]
  BY <1>1
<1> HIDE DEF f
<1>4. f \in Seq(S)
  BY <1>1, <1>3
<1> QED BY <1>2, <1>4

LEMMA LocalIpsTyped ==
  ASSUME NEW b, NEW S
  PROVE  GetLocalIPAddresses(b, S) \in Seq(IPs)
<1> DEFINE addresses == Those(Addresses, {a \in S : ~a.linkLocal /\ ~a.loopback})
           loopBacks == Those(Addresses, {a \in S : ~a.linkLocal /\ a.loopback})
           all == IF addresses = <<>> THEN loopBacks ELSE IF b THEN addresses \o loopBacks ELSE addresses
<1>1. Addresses \in Seq(Hosts)
  BY HostAssumption DEF Hosts, IPs
<1>2. ASSUME NEW U PROVE Those(Addresses, U) \in Seq(Hosts)
  <2>1. Those(Addresses, U) \in Seq(Hosts \cap U)
    BY <1>1, ThoseTyped
  <2> QED BY <2>1
<1>3. addresses \in Seq(Hosts) /\ loopBacks \in Seq(Hosts)
  BY <1>2
<1> HIDE DEF addresses, loopBacks
<1>4. all \in Seq(Hosts)
  BY <1>3
<1>5. GetLocalIPAddresses(b, S) = IpsOf(all)
  BY DEF GetLocalIPAddresses, addresses, loopBacks
<1> HIDE DEF all
<1>6. \A i \in DOMAIN all : all[i].ip \in IPs
  <2>1. \A i \in DOMAIN all : all[i] \in Hosts
    BY <1>4
  <2> QED BY <2>1 DEF Hosts
<1>7. IpsOf(all) \in Seq(IPs)
  BY <1>4, <1>6, IpsTyped
<1> QED BY <1>5, <1>7

LEMMA InterfacesPass == localInterfaces \in Seq({ip \in IPs : Passes(ip)})
<1> DEFINE U == {a \in ToSet(Addresses) :
                  /\ a.up /\ (a.loopback => EnableLoopback) /\ ifFilter(a)
                  /\ FamilyOf[a.ip] = 6 => ~a.linkLocal
                  /\ Passes(a.ip)}
           chosen == Those(Addresses, U)
<1>1. Addresses \in Seq(Hosts)
  BY HostAssumption DEF Hosts, IPs
<1>2. \A a \in U : Passes(a.ip)
  OBVIOUS
<1>3. localInterfaces = IpsOf(chosen)
  BY DEF localInterfaces
<1> HIDE DEF U
<1>4. chosen \in Seq(Hosts \cap U)
  BY <1>1, ThoseTyped
<1> HIDE DEF chosen
<1>5. \A i \in DOMAIN chosen : chosen[i].ip \in {ip \in IPs : Passes(ip)}
  BY <1>2, <1>4 DEF Hosts
<1>6. chosen \in Seq(Hosts)
  BY <1>4
<1>7. IpsOf(chosen) \in Seq({ip \in IPs : Passes(ip)})
  BY <1>5, <1>6, IpsTyped
<1> QED BY <1>3, <1>7

LEMMA NodeInit == InitConf => NodeTyped /\ Progress
<1> SUFFICES ASSUME InitConf PROVE NodeTyped /\ Progress
  OBVIOUS
<1>1. conf \in RTCConfig /\ nodeIP \subseteq {4, 6}
  BY HostAssumption DEF InitConf, RTCConfig
<1>2. Tries \in Nat /\ 0 < Tries
  BY ConfigAssumption
<1>3. at = "start" /\ tries = 0 /\ batch = "ports" /\ rules = "none" /\ auto \in BOOLEAN /\ stunServers \in BOOLEAN
  BY DEF InitConf
<1>5. NodeTyped
  BY <1>1, <1>2, <1>3 DEF NodeTyped, Before, Creating, Opened
<1>6. Progress
  BY <1>1, <1>2 DEF InitConf, Progress, Before
<1> QED BY <1>5, <1>6

LEMMA ValidateStep ==
  ASSUME NodeTyped, Progress, Validate
  PROVE  NodeTyped' /\ Progress'
<1>1. PICK development \in BOOLEAN : conf' = WithPorts(conf, development)
  BY DEF Validate
<1>2. conf' \in RTCConfig /\ conf'.useExternalIP = conf.useExternalIP /\ conf'.requireIPv4 = conf.requireIPv4
  <2>1. conf \in RTCConfig
    BY DEF NodeTyped
  <2>2. CASE conf' = conf
    BY <2>1, <2>2
  <2>3. CASE conf' = [conf EXCEPT !.udpPort = [start |-> 7882, end |-> 0]]
    BY <2>1, <2>3 DEF RTCConfig
  <2>4. CASE conf' = [conf EXCEPT !.portRange = TRUE]
    BY <2>1, <2>4 DEF RTCConfig
  <2> QED BY <1>1, <2>2, <2>3, <2>4 DEF WithPorts
<1>3. Tries \in Nat /\ 0 < Tries
  BY ConfigAssumption
<1>4. at' \in {"resolve", "ready"} /\ rules' = rules /\ auto' = auto /\ tries' = tries /\ nodeIP' = nodeIP
      /\ stunServers' = stunServers /\ batch' = batch /\ at = "start"
  BY DEF Validate, sockets
<1>5. NodeTyped'
  BY <1>2, <1>3, <1>4 DEF NodeTyped, Before, Creating, Opened
<1>6. Progress'
  BY <1>2, <1>3, <1>4 DEF NodeTyped, Progress, Before
<1> QED BY <1>5, <1>6

LEMMA ReloadStep ==
  ASSUME NodeTyped, Progress, ReloadExternalIP
  PROVE  NodeTyped' /\ Progress'
<1>1. PICK need \in {conf.requireIPv4, TRUE} : conf' = [conf EXCEPT !.requireIPv4 = need]
  BY DEF ReloadExternalIP
<1>2. conf' \in RTCConfig
  <2>1. conf \in RTCConfig /\ need \in BOOLEAN
    BY <1>1 DEF NodeTyped, RTCConfig
  <2> QED BY <1>1, <2>1 DEF RTCConfig
<1>3. Tries \in Nat /\ 0 < Tries
  BY ConfigAssumption
<1>4. at' = "resolve" /\ rules' = rules /\ ~auto' /\ auto' \in BOOLEAN /\ tries' = 0 /\ nodeIP' = {}
      /\ stunServers' = stunServers /\ batch' = batch /\ at \in {"ready", "failed"}
  BY DEF ReloadExternalIP, sockets
<1>5. NodeTyped'
  BY <1>2, <1>3, <1>4 DEF NodeTyped, Before, Creating, Opened
<1>6. Progress'
  BY <1>2, <1>3, <1>4 DEF NodeTyped, Progress, Before
<1> QED BY <1>5, <1>6

LEMMA ResolvesStep ==
  ASSUME NodeTyped, Progress, at = "resolve", NEW f \in {4, 6}, conf.requireIPv4 => f = 4, Resolves(f)
  PROVE  NodeTyped' /\ Progress'
<1>1. Tries \in Nat /\ 0 < Tries
  BY ConfigAssumption
<1>2. at' = "ready" /\ rules' = rules /\ auto' = TRUE /\ tries' = 0 /\ nodeIP' = nodeIP \cup {f}
      /\ stunServers' = stunServers /\ batch' = batch /\ conf' = conf
  BY DEF Resolves, sockets
<1> QED BY <1>1, <1>2 DEF NodeTyped, Progress, Before, Creating, Opened

LEMMA LookupFailsStep ==
  ASSUME NodeTyped, Progress, LookupFails
  PROVE  NodeTyped' /\ Progress'
<1>1. Tries \in Nat
  BY ConfigAssumption
<1>2. /\ tries' = tries + 1 /\ at = "resolve" /\ at' = IF tries + 1 < Tries THEN "resolve" ELSE "failed"
      /\ rules' = rules /\ auto' = auto /\ nodeIP' = nodeIP
      /\ stunServers' = stunServers /\ batch' = batch /\ conf' = conf
  BY DEF LookupFails, sockets
<1> QED BY <1>1, <1>2 DEF NodeTyped, Progress, Before, Creating, Opened

LEMMA TakeLocalStep ==
  ASSUME NodeTyped, Progress, TakeLocal
  PROVE  NodeTyped' /\ Progress'
<1> DEFINE ips == GetLocalIPAddresses(FALSE, ToSet(Addresses))
           families == [i \in DOMAIN ips |-> FamilyOf[ips[i]]]
<1>1. /\ at = "resolve"
      /\ IF 4 \in ToSet(families) THEN Resolves(4)
         ELSE IF conf.requireIPv4 \/ families = <<>>
         THEN at' = "failed" /\ UNCHANGED <<vars, node, sockets, rules, stunServers, taken>>
         ELSE Resolves(Head(families))
  BY DEF TakeLocal
<1>2. families # <<>> => Head(families) \in {4, 6}
  <2>1. ips \in Seq(IPs)
    BY LocalIpsTyped
  <2> HIDE DEF ips
  <2>2. \A ip \in IPs : FamilyOf[ip] \in {4, 6}
    BY MappingAssumption DEF IPs, Range
  <2>3. families \in Seq({4, 6})
    BY <2>1, <2>2
  <2> QED BY <2>3
<1> HIDE DEF families
<1>3. CASE 4 \in ToSet(families)
  BY <1>1, <1>3, ResolvesStep
<1>4. CASE 4 \notin ToSet(families) /\ ~(conf.requireIPv4 \/ families = <<>>)
  BY <1>1, <1>2, <1>4, ResolvesStep
<1>5. CASE 4 \notin ToSet(families) /\ (conf.requireIPv4 \/ families = <<>>)
  <2>1. at' = "failed" /\ UNCHANGED <<vars, node, sockets, rules, stunServers, taken>>
    BY <1>1, <1>5
  <2> QED BY <1>1, <2>1 DEF NodeTyped, Progress, Before, Creating, Opened, vars, node, sockets
<1> QED BY <1>3, <1>4, <1>5

LEMMA OpeningNodeStep ==
  ASSUME NodeTyped, Progress, Opening
  PROVE  NodeTyped' /\ Progress'
<1>1. /\ UNCHANGED <<vars, node, rules>>
      /\ at \in {"udp", "create", "listen", "tcp", "net"} /\ at' \in Creating \cup Opened
      /\ batch' \in {"ports", "stun"}
      /\ IF at' = "done" THEN stunServers' = UsesStunServers ELSE stunServers' = stunServers
  <2>1. CASE StartUDP
    BY <2>1 DEF StartUDP, NodeTyped, Creating, Opened, sockets
  <2>2. CASE Enumerate
    BY <2>2 DEF Enumerate, NodeTyped, Creating, Opened
  <2>3. CASE ListenUDP
    BY <2>3 DEF ListenUDP, NodeTyped, Creating, Opened
  <2>4. CASE CreateFails
    BY <2>4 DEF CreateFails, NodeTyped, Creating, Opened
  <2>5. CASE CreateMuxes
    BY <2>5 DEF CreateMuxes, NodeTyped, Creating, Opened
  <2>6. CASE ListenTCP \/ NoTCP \/ LateFailure
    BY <2>6 DEF ListenTCP, NoTCP, LateFailure, NodeTyped, Creating, Opened, sockets
  <2>7. CASE Configured
    BY <2>7 DEF Configured, NodeTyped, Creating, Opened, sockets
  <2> QED BY <2>1, <2>2, <2>3, <2>4, <2>5, <2>6, <2>7 DEF Opening
<1>2. UsesStunServers \in BOOLEAN /\ UsesStunServers' = UsesStunServers
  BY <1>1 DEF UsesStunServers, node
<1>3. conf' = conf /\ nodeIP' = nodeIP /\ auto' = auto /\ tries' = tries /\ rules' = rules /\ main' = main /\ result' = result
  BY <1>1 DEF node, vars
<1>4. NodeTyped'
  BY <1>1, <1>2, <1>3 DEF NodeTyped
<1>5. Progress'
  BY <1>1, <1>2, <1>3 DEF Progress, Before, Creating, Opened
<1> QED BY <1>4, <1>5

LEMMA NodeStep ==
  ASSUME NodeTyped, Progress, [NextConf]_varsConf
  PROVE  NodeTyped' /\ Progress'
<1>1. CASE UNCHANGED varsConf
  BY <1>1 DEF NodeTyped, Progress, UsesStunServers, varsConf, vars, node, sockets
<1>2. CASE Validate \/ ReloadExternalIP \/ LookupFails \/ TakeLocal \/ Opening
  BY <1>2, ValidateStep, ReloadStep, LookupFailsStep, TakeLocalStep, OpeningNodeStep
<1>3. CASE LookupFinds
  BY <1>3, ResolvesStep DEF LookupFinds
<1>4. CASE NewWebRTCConfig
  <2>1. /\ UNCHANGED <<vars, node, sockets, stunServers>> /\ at \in {"ready", "failed"}
        /\ at' = IF nodeIP # {} /\ conf.useExternalIP THEN "nat" ELSE "udp"
        /\ rules' = IF nodeIP # {} /\ ~conf.useExternalIP /\ ~auto THEN "node" ELSE "none"
    BY <1>4 DEF NewWebRTCConfig
  <2>2. NodeTyped'
    BY <2>1 DEF NodeTyped, node, sockets
  <2>3. Progress'
    BY <2>1 DEF Progress, Before, node, vars
  <2> QED BY <2>2, <2>3
<1>5. CASE Mapping(Next)
  <2>1. UNCHANGED <<node, at, sockets, rules, stunServers>> /\ at = "nat"
    BY <1>5 DEF Mapping
  <2>2. NodeTyped'
    BY <2>1 DEF NodeTyped, node, sockets
  <2>3. Progress'
    BY <2>1 DEF Progress, Before, node
  <2> QED BY <2>2, <2>3
<1>6. CASE Mapped
  <2>1. /\ UNCHANGED <<vars, node, sockets, stunServers>> /\ at = "nat" /\ main = "done" /\ at' = "udp"
        /\ rules' = IF result = <<>> THEN "node" ELSE "mapping"
    BY <1>6 DEF Mapped
  <2>2. NodeTyped'
    BY <2>1 DEF NodeTyped, node, sockets
  <2>3. Progress'
    BY <2>1 DEF Progress, Before, node, vars
  <2> QED BY <2>2, <2>3
<1>7. ASSUME NEW ip \in DOMAIN taken, next(ip) PROVE NodeTyped' /\ Progress'
  <2>1. UNCHANGED <<vars, node, at, sockets, rules, stunServers>>
    BY <1>7 DEF next
  <2> QED BY <2>1 DEF NodeTyped, Progress, UsesStunServers, vars, node, sockets
<1> QED BY <1>1, <1>2, <1>3, <1>4, <1>5, <1>6, <1>7 DEF NextConf

\* The two ways to a public address exclude each other, and one of them is taken
\* unless the address could not be resolved; and an address that was resolved under
\* RequireIPv4 has one of IPv4 (webrtc_config.go:89-117, 225-234, config.go:124-127).
THEOREM AddressIsPublic == SpecConf => []PublicAddress
<1>1. NodeTyped /\ Progress /\ [NextConf]_varsConf => (NodeTyped /\ Progress)'
  BY NodeStep
<1>2. NodeTyped /\ Progress => PublicAddress
  <2> SUFFICES ASSUME NodeTyped, Progress PROVE PublicAddress
    OBVIOUS
  <2>1. at = "done" => (rules # "none" <=> ~stunServers) \/ (nodeIP = {} /\ conf.useExternalIP)
    <3> SUFFICES ASSUME at = "done" PROVE (rules # "none" <=> ~stunServers) \/ (nodeIP = {} /\ conf.useExternalIP)
      OBVIOUS
    <3>1. rules # "none" <=> nodeIP # {} /\ (conf.useExternalIP \/ ~auto)
      BY DEF Progress, Before
    <3>2. stunServers <=> (nodeIP = {} \/ auto) /\ ~conf.useExternalIP
      BY DEF Progress, UsesStunServers
    <3> QED BY <3>1, <3>2
  <2> QED BY <2>1 DEF Progress, PublicAddress
<1> QED BY <1>1, <1>2, NodeInit, PTL DEF SpecConf

-----------------------------------------------------------------------------
(* The sockets.                                                            *)

Early == Before \cup {"nat", "udp"}

LEMMA SocketsKept ==
  ASSUME UNCHANGED <<vars, node>>
  PROVE  Sockets' = Sockets
BY DEF vars, collected, node, Sockets, Places, IPs, Passes, PassesFilter, ipFilter

LEMMA PortsTyped ==
  ASSUME conf \in RTCConfig
  PROVE  BatchPorts \in Seq(Int)
<1> DEFINE ports == ToSlice(conf.udpPort)
           few == {p \in ToSet(ports) : p - conf.udpPort.start < NumCPU}
<1>1. conf.udpPort.start \in Nat /\ conf.udpPort.end \in Nat
  BY DEF RTCConfig
<1>2. ports \in Seq(Int)
  <2>1. CASE conf.udpPort.end <= conf.udpPort.start
    BY <1>1, <2>1 DEF ToSlice
  <2>2. CASE ~(conf.udpPort.end <= conf.udpPort.start)
    <3> DEFINE s == conf.udpPort.start
               n == conf.udpPort.end - conf.udpPort.start + 1
    <3>1. ports = [i \in 1 .. n |-> s + i - 1]
      BY <2>2 DEF ToSlice
    <3>2. n \in Nat /\ s \in Nat
      BY <1>1, <2>2
    <3> HIDE DEF n, s, ports
    <3> QED BY <3>1, <3>2
  <2> QED BY <2>1, <2>2
<1> HIDE DEF ports
<1>3. MuxPorts = Those(ports, few)
  BY DEF MuxPorts, ports
<1> HIDE DEF few
<1>4. Those(ports, few) \in Seq(Int \cap few)
  BY <1>2, ThoseTyped
<1>5. MuxPorts \in Seq(Int)
  BY <1>3, <1>4
<1>6. <<StunPort>> \in Seq(Int)
  BY ConfigAssumption
<1> QED BY <1>5, <1>6 DEF BatchPorts

\* What is to be opened passes the filters.
LEMMA EnumerateTyped ==
  ASSUME conf \in RTCConfig, Enumerate
  PROVE  work' \in Seq(Sockets)
<1> DEFINE ips == localInterfaces
           ports == BatchPorts
           rows == [i \in DOMAIN ips |-> [j \in DOMAIN ports |-> <<ips[i], ports[j]>>]]
           Good == {ip \in IPs : Passes(ip)}
<1>1. work' = FlattenSeq(rows)
  BY DEF Enumerate
<1>2. ips \in Seq(Good) /\ ports \in Seq(Int)
  BY InterfacesPass, PortsTyped
<1>3. \A ip \in Good, p \in Int : <<ip, p>> \in Sockets
  BY DEF Sockets, Places
<1> HIDE DEF ips, ports, Good
<1>4. rows \in Seq(Seq(Sockets))
  <2>1. ASSUME NEW i \in DOMAIN ips PROVE [j \in DOMAIN ports |-> <<ips[i], ports[j]>>] \in Seq(Sockets)
    <3>1. ips[i] \in Good
      BY <1>2, <2>1
    <3>2. Len(ports) \in Nat /\ DOMAIN ports = 1 .. Len(ports) /\ \A j \in DOMAIN ports : ports[j] \in Int
      BY <1>2
    <3>3. \A j \in DOMAIN ports : <<ips[i], ports[j]>> \in Sockets
      BY <1>3, <3>1, <3>2
    <3> DEFINE r == [j \in DOMAIN ports |-> <<ips[i], ports[j]>>]
    <3>4. r \in [1 .. Len(ports) -> Sockets]
      BY <3>2, <3>3
    <3> HIDE DEF r
    <3>5. r \in Seq(Sockets)
      BY <3>2, <3>4
    <3> QED BY <3>5 DEF r
  <2>2. Len(ips) \in Nat /\ DOMAIN ips = 1 .. Len(ips)
    BY <1>2
  <2>3. rows \in [1 .. Len(ips) -> Seq(Sockets)]
    BY <2>1, <2>2
  <2> HIDE DEF rows
  <2> QED BY <2>2, <2>3
<1> HIDE DEF rows
<1> QED BY <1>1, <1>4, FlattenTyped

LEMMA ListenerApart == Listener \notin Sockets
BY DEF Listener, Sockets, Places, IPs

LEMMA SocketsInit == InitConf => Allowed /\ Owned
<1> SUFFICES ASSUME InitConf PROVE Allowed /\ Owned
  OBVIOUS
<1>1. /\ at = "start" /\ batch = "ports" /\ open = {}
      /\ work = <<>> /\ conns = <<>> /\ muxes = <<>> /\ standalone = <<>>
  BY DEF InitConf
<1>2. ToSet(<<>>) = {} /\ IsInjective(<<>>)
  BY DEF ToSet, IsInjective
<1>3. Allowed
  BY <1>1 DEF Allowed
<1>4. Owned
  BY <1>1, <1>2 DEF Owned
<1> QED BY <1>3, <1>4

\* Until sockets are created there are none.
LEMMA EarlySockets ==
  ASSUME Allowed, Owned, at \in Early, UNCHANGED sockets, at' \in Early
  PROVE  Allowed' /\ Owned'
<1>1. /\ batch = "ports" /\ open = {}
      /\ work = <<>> /\ conns = <<>> /\ muxes = <<>> /\ standalone = <<>>
  BY DEF Early, Allowed, Owned
<1>2. /\ batch' = "ports" /\ open' = {}
      /\ work' = <<>> /\ conns' = <<>> /\ muxes' = <<>> /\ standalone' = <<>>
  BY <1>1 DEF sockets
<1>3. ToSet(<<>>) = {} /\ IsInjective(<<>>)
  BY DEF ToSet, IsInjective
<1>4. Allowed'
  BY <1>2 DEF Allowed
<1>5. at' # "listen"
  BY DEF Early, Before
<1>6. Owned'
  BY <1>2, <1>3, <1>5 DEF Owned
<1> QED BY <1>4, <1>6

LEMMA AllowedStep ==
  ASSUME NodeTyped, Allowed, Opening
  PROVE  Allowed'
<1>1. UNCHANGED <<vars, node>> /\ at' \notin Early
  BY DEF Opening, StartUDP, Enumerate, ListenUDP, CreateFails, CreateMuxes, ListenTCP, NoTCP, LateFailure, Configured,
         Early, Before
<1>2. Sockets' = Sockets
  BY <1>1, SocketsKept
<1>3. /\ work' \in Seq(Sockets) /\ conns' \in Seq(Sockets)
      /\ muxes' \in Seq(Sockets) /\ standalone' \in Seq(Sockets)
  <2>0. work \in Seq(Sockets) /\ conns \in Seq(Sockets) /\ muxes \in Seq(Sockets) /\ standalone \in Seq(Sockets)
    BY DEF Allowed
  <2>1. CASE Enumerate
    <3>1. work' \in Seq(Sockets)
      BY <2>1, EnumerateTyped DEF NodeTyped
    <3> QED BY <2>0, <2>1, <3>1 DEF Enumerate
  <2>2. CASE ListenUDP
    <3>1. Head(work) \in Sockets /\ Tail(work) \in Seq(Sockets)
      BY <2>0, <2>2 DEF ListenUDP
    <3>2. Append(conns, Head(work)) \in Seq(Sockets)
      BY <2>0, <3>1
    <3> QED BY <2>0, <2>2, <3>1, <3>2 DEF ListenUDP
  <2>3. CASE CreateFails
    BY <2>0, <2>3 DEF CreateFails
  <2>4. CASE CreateMuxes
    BY <2>0, <2>4 DEF CreateMuxes
  <2>5. CASE StartUDP \/ ListenTCP \/ NoTCP \/ LateFailure \/ Configured
    BY <2>0, <2>5 DEF StartUDP, ListenTCP, NoTCP, LateFailure, Configured, sockets
  <2> QED BY <2>1, <2>2, <2>3, <2>4, <2>5 DEF Opening
<1> QED BY <1>1, <1>2, <1>3 DEF Allowed, Early

\* A socket is opened that nobody has.
LEMMA ListenOwned ==
  ASSUME NodeTyped, Allowed, Owned, ListenUDP
  PROVE  Owned'
<1> DEFINE s == Head(work)
<1>1. /\ at = "listen" /\ at' = "listen" /\ batch' = batch /\ muxes' = muxes /\ standalone' = standalone
      /\ open' = open \cup {s} /\ conns' = Append(conns, s) /\ s \notin open /\ work # <<>>
  BY DEF ListenUDP
<1>2. s \in Sockets /\ conns \in Seq(Sockets)
  BY <1>1 DEF Allowed
<1>3. s # Listener
  BY <1>2, ListenerApart
<1> HIDE DEF s
<1>4. /\ open \ {Listener} = ToSet(muxes) \cup ToSet(standalone) \cup ToSet(conns)
      /\ IsInjective(conns) /\ ToSet(conns) \cap (ToSet(muxes) \cup ToSet(standalone)) = {}
  BY <1>1 DEF Owned
<1>5. s \notin ToSet(muxes) \cup ToSet(standalone) \cup ToSet(conns)
  BY <1>1, <1>4
<1>6. IsInjective(conns') /\ ToSet(conns') = ToSet(conns) \cup {s}
  BY <1>1, <1>2, <1>4, <1>5, AppendNew
<1>7. open' \ {Listener} = ToSet(muxes) \cup ToSet(standalone) \cup ToSet(conns')
  BY <1>1, <1>3, <1>4, <1>6
<1>8. ToSet(conns') \cap (ToSet(muxes) \cup ToSet(standalone)) = {}
  BY <1>4, <1>5, <1>6
<1> QED BY <1>1, <1>6, <1>7, <1>8 DEF Owned, Before, Creating

\* What a failed creation opened is closed.
LEMMA FailureOwned ==
  ASSUME NodeTyped, Allowed, Owned, CreateFails
  PROVE  Owned'
<1>1. /\ at \in Creating /\ at' = "error" /\ batch' = batch /\ muxes' = muxes /\ standalone' = standalone
      /\ open' = (IF at = "listen" THEN open \ ToSet(conns) ELSE open)
  BY DEF CreateFails, Closes, Creating
<1>2. open' \ {Listener} = ToSet(muxes) \cup ToSet(standalone)
  <2>1. CASE at = "listen"
    <3>1. /\ open \ {Listener} = ToSet(muxes) \cup ToSet(standalone) \cup ToSet(conns)
          /\ ToSet(conns) \cap (ToSet(muxes) \cup ToSet(standalone)) = {}
      BY <2>1 DEF Owned
    <3> QED BY <1>1, <2>1, <3>1
  <2>2. CASE at # "listen"
    BY <1>1, <2>2 DEF Owned
  <2> QED BY <2>1, <2>2
<1> QED BY <1>1, <1>2 DEF Owned, Before, Creating

\* What a creation opened is owned by the muxes it returns.
LEMMA CreatedOwned ==
  ASSUME NodeTyped, Allowed, Owned, CreateMuxes
  PROVE  Owned'
<1>1. /\ at = "listen" /\ open' = open /\ conns' = conns /\ batch \in {"ports", "stun"} /\ at' \in {"create", "tcp"}
      /\ batch = "ports" => muxes' = conns /\ standalone' = standalone
      /\ batch # "ports" => standalone' = conns /\ muxes' = muxes
      /\ at' = "create" => batch' = "stun"
      /\ at' # "tcp" => batch = "ports"
  BY DEF CreateMuxes, NodeTyped
<1>2. /\ open \ {Listener} = ToSet(muxes) \cup ToSet(standalone) \cup ToSet(conns)
      /\ IsInjective(muxes) /\ IsInjective(standalone) /\ IsInjective(conns)
      /\ ToSet(conns) \cap (ToSet(muxes) \cup ToSet(standalone)) = {}
      /\ standalone = <<>> /\ (batch = "ports" => muxes = <<>>)
  BY <1>1 DEF Owned, Creating
<1>3. ToSet(<<>>) = {}
  BY DEF ToSet
<1>4. CASE batch = "ports"
  <2>1. open' \ {Listener} = ToSet(muxes') \cup ToSet(standalone')
    BY <1>1, <1>2, <1>3, <1>4
  <2>2. ToSet(muxes') \cap ToSet(standalone') = {}
    BY <1>1, <1>2, <1>3, <1>4
  <2>3. /\ IsInjective(muxes') /\ IsInjective(standalone') /\ standalone' = <<>>
        /\ at' # "listen" /\ at' \notin Before \cup {"nat", "udp"}
        /\ at' \in Creating => batch' # "ports"
    BY <1>1, <1>2, <1>4 DEF Before, Creating
  <2> QED BY <2>1, <2>2, <2>3 DEF Owned, Before, Creating
<1>5. CASE batch # "ports"
  <2>1. open' \ {Listener} = ToSet(muxes') \cup ToSet(standalone')
    BY <1>1, <1>2, <1>3, <1>5
  <2>2. ToSet(muxes') \cap ToSet(standalone') = {}
    BY <1>1, <1>2, <1>5
  <2>3. IsInjective(muxes') /\ IsInjective(standalone') /\ at' = "tcp"
    BY <1>1, <1>2, <1>5
  <2> QED BY <2>1, <2>2, <2>3 DEF Owned, Before, Creating
<1> QED BY <1>4, <1>5

LEMMA OwnedStep ==
  ASSUME NodeTyped, Allowed, Owned, Opening
  PROVE  Owned'
<1>1. CASE StartUDP
  <2>1. /\ at = "udp" /\ at' \in {"tcp", "create"} /\ UNCHANGED sockets
    BY <1>1 DEF StartUDP
  <2> QED BY <2>1 DEF Owned, Before, Creating, sockets
<1>2. CASE Enumerate
  <2>1. at = "create" /\ at' = "listen" /\ conns' = <<>> /\ UNCHANGED <<batch, open, muxes, standalone>>
    BY <1>2 DEF Enumerate
  <2>2. ToSet(<<>>) = {} /\ IsInjective(<<>>)
    BY DEF ToSet, IsInjective
  <2>3. ToSet(conns') = {} /\ IsInjective(conns')
    BY <2>1, <2>2
  <2> QED BY <2>1, <2>3 DEF Owned, Before, Creating
<1>3. CASE ListenTCP
  <2>1. at = "tcp" /\ at' = "net" /\ open' = open \cup {Listener} /\ UNCHANGED <<batch, muxes, standalone>>
    BY <1>3 DEF ListenTCP, Listener
  <2>2. open' \ {Listener} = open \ {Listener}
    BY <2>1
  <2> QED BY <2>1, <2>2 DEF Owned, Before, Creating
<1>4. CASE NoTCP \/ LateFailure \/ Configured
  <2>1. at \in {"tcp", "net"} /\ at' \in Opened /\ UNCHANGED sockets
    BY <1>4 DEF NoTCP, LateFailure, Configured, Opened
  <2> QED BY <2>1 DEF Owned, Before, Creating, Opened, sockets
<1> QED BY <1>1, <1>2, <1>3, <1>4, ListenOwned, FailureOwned, CreatedOwned DEF Opening

SocketsInv == NodeTyped /\ Progress /\ Allowed /\ Owned

LEMMA SocketsStep ==
  ASSUME SocketsInv, [NextConf]_varsConf
  PROVE  SocketsInv'
<1> USE DEF SocketsInv
<1>1. NodeTyped' /\ Progress'
  BY NodeStep
<1>2. CASE Opening
  BY <1>1, <1>2, AllowedStep, OwnedStep
<1>3. CASE at \in Early /\ at' \in Early /\ UNCHANGED sockets
  BY <1>1, <1>3, EarlySockets
<1>4. CASE UNCHANGED <<vars, node, at, sockets>>
  <2>1. Sockets' = Sockets
    BY <1>4, SocketsKept
  <2>2. Allowed'
    BY <1>4, <2>1 DEF Allowed, sockets
  <2>3. Owned'
    BY <1>4 DEF Owned, sockets
  <2> QED BY <1>1, <2>2, <2>3
<1>5. CASE Validate \/ ReloadExternalIP \/ LookupFinds \/ LookupFails \/ TakeLocal
  BY <1>3, <1>5 DEF Validate, ReloadExternalIP, LookupFinds, LookupFails, TakeLocal, Resolves, Early, Before
<1>6. CASE NewWebRTCConfig \/ Mapping(Next) \/ Mapped
  BY <1>3, <1>6 DEF NewWebRTCConfig, Mapping, Mapped, Early, Before
<1>7. ASSUME NEW ip \in DOMAIN taken, next(ip) PROVE SocketsInv'
  BY <1>4, <1>7 DEF next
<1>8. CASE UNCHANGED varsConf
  BY <1>4, <1>8 DEF varsConf
<1> QED BY <1>2, <1>5, <1>6, <1>7, <1>8 DEF NextConf

LEMMA ConcatOnce ==
  ASSUME NEW S, NEW p \in Seq(S), NEW q \in Seq(S), IsInjective(p), IsInjective(q), ToSet(p) \cap ToSet(q) = {}
  PROVE  p \o q \in Seq(S) /\ IsInjective(p \o q) /\ ToSet(p \o q) = ToSet(p) \cup ToSet(q)
<1> DEFINE r == p \o q
           m == Len(p)
           n == Len(q)
<1>1. /\ r \in Seq(S) /\ m \in Nat /\ n \in Nat
      /\ DOMAIN p = 1 .. m /\ DOMAIN q = 1 .. n /\ DOMAIN r = 1 .. m + n
      /\ \A i \in 1 .. m : r[i] = p[i]
      /\ \A i \in m + 1 .. m + n : r[i] = q[i - m]
  OBVIOUS
<1> HIDE DEF r, m, n
<1>2. \A i \in 1 .. m, j \in 1 .. n : p[i] # q[j]
  BY <1>1 DEF ToSet
<1>3. \A i \in 1 .. m + n : i \in 1 .. m \/ (i \in m + 1 .. m + n /\ i - m \in 1 .. n)
  BY <1>1
<1>4. ToSet(r) = ToSet(p) \cup ToSet(q)
  <2>1. \A i \in 1 .. m + n : r[i] \in ToSet(p) \cup ToSet(q)
    BY <1>1, <1>3 DEF ToSet
  <2>2. \A i \in 1 .. m : i \in 1 .. m + n
    BY <1>1
  <2>3. \A j \in 1 .. n : j + m \in m + 1 .. m + n /\ j + m \in 1 .. m + n /\ (j + m) - m = j
    BY <1>1
  <2>4. \A j \in 1 .. n : q[j] \in ToSet(r)
    BY <1>1, <2>3 DEF ToSet
  <2>5. \A i \in 1 .. m : p[i] \in ToSet(r)
    BY <1>1, <2>2 DEF ToSet
  <2>6. ToSet(r) \subseteq ToSet(p) \cup ToSet(q)
    <3>1. \A x \in ToSet(r) : \E i \in 1 .. m + n : x = r[i]
      BY <1>1 DEF ToSet
    <3> QED BY <2>1, <3>1
  <2>7. ToSet(p) \subseteq ToSet(r) /\ ToSet(q) \subseteq ToSet(r)
    BY <1>1, <2>4, <2>5 DEF ToSet
  <2> QED BY <2>6, <2>7
<1>5. IsInjective(r)
  <2> SUFFICES ASSUME NEW i \in 1 .. m + n, NEW j \in 1 .. m + n, r[i] = r[j] PROVE i = j
    BY <1>1 DEF IsInjective
  <2>1. CASE i \in 1 .. m /\ j \in 1 .. m
    BY <1>1, <2>1 DEF IsInjective
  <2>2. CASE i \notin 1 .. m /\ j \notin 1 .. m
    <3>1. q[i - m] = q[j - m] /\ i - m \in 1 .. n /\ j - m \in 1 .. n
      BY <1>1, <1>3, <2>2
    <3>2. i - m = j - m
      BY <1>1, <3>1 DEF IsInjective
    <3> QED BY <1>1, <3>2
  <2>3. CASE i \in 1 .. m /\ j \notin 1 .. m
    BY <1>1, <1>2, <1>3, <2>3
  <2>4. CASE i \notin 1 .. m /\ j \in 1 .. m
    <3>1. r[i] = q[i - m] /\ i - m \in 1 .. n /\ r[j] = p[j]
      BY <1>1, <1>3, <2>4
    <3> QED BY <1>2, <2>4, <3>1
  <2> QED BY <2>1, <2>2, <2>3, <2>4
<1> QED BY <1>1, <1>4, <1>5 DEF r

LEMMA ConfHolds == SpecConf => [](MappingInv /\ SocketsInv)
<1>1. InitConf => MappingInv /\ SocketsInv
  BY ConfInit, MappingInit, NodeInit, SocketsInit DEF SocketsInv
<1>2. MappingInv /\ SocketsInv /\ [NextConf]_varsConf => (MappingInv /\ SocketsInv)'
  BY ConfSteps, MappingStep, SocketsStep
<1> QED BY <1>1, <1>2, PTL DEF SpecConf

\* A creation of muxes that fails leaves nothing open (createmux.go:80-85): what is
\* open is what the current creation opened, what the muxes of completed ones own,
\* and the TCP listener, each of them once; and no lookup still holds a socket by then.
THEOREM SocketsAreAccounted == SpecConf => []OpenIsAccounted
<1>1. MappingInv /\ SocketsInv => OpenIsAccounted
  <2> SUFFICES ASSUME MappingInv, SocketsInv PROVE OpenIsAccounted
    OBVIOUS
  <2> DEFINE creating == IF at = "listen" THEN conns ELSE <<>>
             both == muxes \o standalone
  <2>1. TypeOKConf
    BY DEF MappingInv, SocketsInv, NodeTyped, TypeOKConf, Before, Creating, Opened
  <2>2. <<>> \in Seq(Sockets) /\ IsInjective(<<>>) /\ ToSet(<<>>) = {}
    BY DEF IsInjective, ToSet
  <2>3. /\ creating \in Seq(Sockets) /\ IsInjective(creating)
        /\ ToSet(creating) = (IF at = "listen" THEN ToSet(conns) ELSE {})
        /\ ToSet(creating) \cap (ToSet(muxes) \cup ToSet(standalone)) = {}
    BY <2>2 DEF SocketsInv, Allowed, Owned
  <2> HIDE DEF creating
  <2>4. both \in Seq(Sockets) /\ IsInjective(both) /\ ToSet(both) = ToSet(muxes) \cup ToSet(standalone)
    <3>1. /\ muxes \in Seq(Sockets) /\ standalone \in Seq(Sockets)
          /\ IsInjective(muxes) /\ IsInjective(standalone) /\ ToSet(muxes) \cap ToSet(standalone) = {}
      BY DEF SocketsInv, Allowed, Owned
    <3> QED BY ONLY <3>1, ConcatOnce
  <2> HIDE DEF both
  <2>5. IsInjective(both \o creating) /\ ToSet(both \o creating) = ToSet(both) \cup ToSet(creating)
    <3>1. ToSet(both) \cap ToSet(creating) = {}
      BY <2>3, <2>4
    <3> QED BY <2>3, <2>4, <3>1, ConcatOnce
  <2>6. open \ {<<"tcp", 0>>} = ToSet(both \o creating)
    BY <2>3, <2>4, <2>5 DEF SocketsInv, Owned, Listener
  <2>7. conf.useExternalIP /\ rules # "none" => \A l \in Local : lookup[l].at = "done"
    BY DEF SocketsInv, MappingInv, Progress, Returns
  <2> QED BY <2>1, <2>5, <2>6, <2>7 DEF OpenIsAccounted, both, creating
<1> QED BY <1>1, ConfHolds, PTL

\* There is a mapping for the address of every UDP socket that the mapping looked
\* at, and with ExternalIPOnly an IPv4 socket is on an address whose lookup found
\* one (webrtc_config.go:358, 416, 435-449), unless a lookup finds one of the
\* host's own addresses.
THEOREM SocketsAreMapped ==
  ASSUME External \cap Local = {}
  PROVE  SpecConf => []SocketsMapped
<1>1. MappingInv /\ SocketsInv => SocketsMapped
  <2> SUFFICES ASSUME MappingInv, SocketsInv, rules = "mapping", NEW s \in ToSet(muxes \o standalone)
               PROVE  IF conf.externalIPOnly /\ FamilyOf[s[1]] = 4
                      THEN \E e \in DOMAIN result : result[e] = s[1] /\ lookup[s[1]].ip = e
                      ELSE s[1] \in Range(result) \/ s[1] \notin Local
    BY DEF SocketsMapped
  <2>1. main = "done" /\ result # <<>>
    BY DEF SocketsInv, Progress
  <2>2. Completes(result, Local)
    BY <2>1 DEF MappingInv, Announced
  <2>3. s \in Sockets
    <3>1. muxes \in Seq(Sockets) /\ standalone \in Seq(Sockets)
      BY DEF SocketsInv, Allowed
    <3>2. muxes \o standalone \in Seq(Sockets)
      BY <3>1
    <3> QED BY <3>2 DEF ToSet
  <2>4. ASSUME conf.externalIPOnly, FamilyOf[s[1]] = 4
        PROVE  \E e \in DOMAIN result : result[e] = s[1] /\ lookup[s[1]].ip = e
    <3>1. s[1] \in mappedIPs
      BY <2>1, <2>3, <2>4 DEF Sockets, Passes, PassesFilter
    <3>2. PICK e \in DOMAIN natMapping : natMapping[e] = s[1]
      BY <3>1 DEF MappingInv, Kept, Range
    <3> QED BY <2>2, <3>2 DEF MappingInv, Kept, Completes
  <2>5. s[1] \in Range(result) \/ s[1] \notin Local
    BY <2>2 DEF Completes
  <2> QED BY <2>4, <2>5
<1> QED BY <1>1, ConfHolds, PTL

-----------------------------------------------------------------------------
(* The ports of an IP in turn.                                             *)

LEMMA RemainderIn ==
  ASSUME NEW n \in Nat \ {0}, NEW x \in Int
  PROVE  x % n \in 0 .. n - 1
  BY SMT

LEMMA RemainderSmall ==
  ASSUME NEW n \in Nat \ {0}, NEW x \in 0 .. n - 1
  PROVE  x % n = x
  BY SMT

\* Fewer than n calls apart, the turn is another's.
LEMMA TurnsApart ==
  ASSUME NEW n \in Nat \ {0}, NEW i \in Int, NEW j \in Int, 0 < j - i, j - i < n
  PROVE  i % n # j % n
<1> SUFFICES ASSUME i % n = j % n PROVE FALSE
  OBVIOUS
<1>1. \A z \in Int : /\ z = n * (z \div n) + (z % n)
                     /\ (z \div n) \in Int /\ z % n \in 0 .. n - 1
  BY SMT
<1>2. PICK r \in Int, a \in Int, b \in Int : i = n * a + r /\ j = n * b + r
  <2> DEFINE a == i \div n
             b == j \div n
             r == i % n
  <2>1. a \in Int /\ b \in Int /\ r \in Int /\ i = n * a + r /\ j = n * b + r
    BY <1>1
  <2> HIDE DEF a, b, r
  <2> QED BY <2>1
<1>3. CASE b <= a
  <2>1. n * b <= n * a
    BY <1>3, SMT
  <2> QED BY <1>2, <2>1
<1>4. CASE b >= a + 1
  <2>1. n * b >= n * a + n
    BY <1>4, SMT
  <2> QED BY <1>2, <2>1
<1> QED BY <1>3, <1>4

\* The counter before it wraps, and where it points, wrapped or not.
LEMMA CounterFacts ==
  ASSUME NEW k \in Nat, NEW n \in Nat \ {0}
  PROVE  /\ Index(currentMux(k), n) < 0 \/ Index(currentMux(k), n) + 1 \in 1 .. n
         /\ k < CounterHalf => Index(currentMux(k), n) = k % n /\ (k % n) + 1 \in 1 .. n
<1> DEFINE H == CounterHalf
           v == currentMux(k)
<1>0. H \in Nat /\ 0 < H
  BY ConfigAssumption
<1>1. v \in Int
  <2>1. (k + H) % (2 * H) \in 0 .. 2 * H - 1
    <3> HIDE DEF H
    <3>1. 2 * H \in Nat \ {0} /\ k + H \in Int
      BY <1>0
    <3> QED BY <3>1, RemainderIn
  <2> QED BY <1>0, <2>1 DEF currentMux
<1>2. k < H => v = k
  <2> SUFFICES ASSUME k < H PROVE v = k
    OBVIOUS
  <2>1. (k + H) % (2 * H) = k + H
    <3> HIDE DEF H
    <3>1. 2 * H \in Nat \ {0} /\ k + H \in 0 .. 2 * H - 1
      BY <1>0
    <3> QED BY <3>1, RemainderSmall
  <2> QED BY <1>0, <2>1 DEF currentMux
<1> HIDE DEF v, H
<1>3. k % n \in 0 .. n - 1
  BY RemainderIn
<1>4. k < H => Index(v, n) = k % n
  BY <1>2 DEF Index
<1>5. CASE v >= 0
  <2>1. v % n \in 0 .. n - 1
    BY <1>1, RemainderIn
  <2> QED BY <1>3, <1>4, <1>5, <2>1 DEF Index, v, H
<1>6. CASE ~(v >= 0)
  <2>1. -v \in Int
    BY <1>1
  <2>2. (-v) % n \in 0 .. n - 1
    BY <2>1, RemainderIn
  <2>3. Index(v, n) = -((-v) % n)
    BY <1>6 DEF Index
  <2> QED BY <1>3, <1>4, <2>2, <2>3 DEF v, H
<1> QED BY <1>5, <1>6

LEMMA TurnsInit == InitConf => Turns
<1> SUFFICES ASSUME InitConf PROVE Turns
  OBVIOUS
<1> DEFINE ips == {Addresses[i].ip : i \in DOMAIN Addresses}
<1>1. taken = [ip \in ips |-> <<>>]
  BY DEF InitConf
<1> HIDE DEF ips
<1>2. taken \in [ips -> Seq(Places \cup {"panic"})] /\ \A ip \in DOMAIN taken : taken[ip] = <<>>
  BY <1>1
<1>3. \A i \in 1 .. Len(<<>>) : FALSE
  OBVIOUS
<1> QED BY <1>2, <1>3 DEF Turns, ips

\* Nothing is taken before there are muxes.
LEMMA TurnsEarly ==
  ASSUME Turns, at # "done", UNCHANGED taken
  PROVE  Turns'
<1>1. \A ip \in DOMAIN taken : taken[ip] = <<>>
  BY DEF Turns
<1>2. \A i \in 1 .. Len(<<>>) : FALSE
  OBVIOUS
<1>3. \A ip \in DOMAIN taken' : taken'[ip] = <<>>
  BY <1>1
<1> QED BY <1>2, <1>3 DEF Turns

LEMMA NextStep ==
  ASSUME SocketsInv, Turns, NEW ip \in DOMAIN taken, next(ip)
  PROVE  Turns'
<1> DEFINE addrs == addresseMuxes(ip)
           n == Len(addrs)
           k == Len(taken[ip])
           V == Places \cup {"panic"}
           x == IF Index(currentMux(k + 1), n) < 0 THEN "panic" ELSE addrs[Index(currentMux(k + 1), n) + 1]
           t == taken[ip]
<1>1. /\ at = "done" /\ addrs # <<>> /\ at' = at /\ muxes' = muxes
      /\ taken' = [taken EXCEPT ![ip] = Append(t, x)]
  BY DEF next, sockets
<1>2. addrs \in Seq(Places)
  <2>1. muxes \in Seq(Sockets)
    BY DEF SocketsInv, Allowed
  <2>2. addresseMuxes(ip) \in Seq(Sockets \cap {m \in ToSet(muxes) : m[1] = ip})
    BY <2>1, ThoseTyped DEF addresseMuxes
  <2> QED BY <2>2 DEF Sockets
<1>3. \A p : addresseMuxes(p)' = addresseMuxes(p)
  BY <1>1 DEF addresseMuxes
<1> HIDE DEF addrs
<1>4. n \in Nat \ {0} /\ \A i \in 1 .. n : addrs[i] \in Places
  BY <1>1, <1>2
<1>5. t \in Seq(V) /\ k \in Nat
  BY DEF Turns
<1> HIDE DEF n
<1>6. /\ Index(currentMux(k + 1), n) < 0 \/ Index(currentMux(k + 1), n) + 1 \in 1 .. n
      /\ k + 1 < CounterHalf => Index(currentMux(k + 1), n) = (k + 1) % n /\ ((k + 1) % n) + 1 \in 1 .. n
  <2> HIDE DEF k
  <2>1. k + 1 \in Nat
    BY <1>5
  <2> QED BY <1>4, <2>1, CounterFacts
<1>7. x \in V
  BY <1>4, <1>6
<1>8. k + 1 < CounterHalf => x = addrs[((k + 1) % n) + 1]
  BY <1>4, <1>6
<1> HIDE DEF x
<1>9. /\ Append(t, x) \in Seq(V) /\ Len(Append(t, x)) = k + 1
      /\ \A i \in 1 .. k : Append(t, x)[i] = t[i]
      /\ Append(t, x)[k + 1] = x
  BY <1>5, <1>7
<1>10. /\ taken' \in [{Addresses[i].ip : i \in DOMAIN Addresses} -> Seq(V)]
       /\ DOMAIN taken' = DOMAIN taken /\ taken'[ip] = Append(t, x)
       /\ \A p \in DOMAIN taken : p # ip => taken'[p] = taken[p]
  BY <1>1, <1>9 DEF Turns
<1>11. Len(taken'[ip]) < CounterHalf => \A i \in 1 .. Len(taken'[ip]) : taken'[ip][i] = addrs[(i % n) + 1]
  <2> SUFFICES ASSUME k + 1 < CounterHalf, NEW i \in 1 .. k + 1 PROVE Append(t, x)[i] = addrs[(i % n) + 1]
    BY <1>9, <1>10
  <2>1. CounterHalf \in Nat
    BY ConfigAssumption
  <2>2. \A j \in 1 .. k : t[j] = addrs[(j % n) + 1]
    BY <1>5, <2>1 DEF Turns, addrs, n
  <2>3. i \in 1 .. k \/ i = k + 1
    BY <1>5
  <2> QED BY <1>8, <1>9, <2>2, <2>3
<1> QED BY <1>1, <1>3, <1>10, <1>11 DEF Turns, addrs, n

LEMMA TurnsStep ==
  ASSUME SocketsInv, Turns, [NextConf]_varsConf
  PROVE  Turns'
<1>1. CASE UNCHANGED <<at, muxes, taken>>
  <2>1. \A p : addresseMuxes(p)' = addresseMuxes(p)
    BY <1>1 DEF addresseMuxes
  <2> QED BY <1>1, <2>1 DEF Turns
<1>2. CASE Validate \/ ReloadExternalIP \/ LookupFinds \/ LookupFails \/ TakeLocal
  BY <1>2, TurnsEarly DEF Validate, ReloadExternalIP, LookupFinds, LookupFails, TakeLocal, Resolves
<1>3. CASE NewWebRTCConfig \/ Mapping(Next) \/ Mapped
  BY <1>3, TurnsEarly DEF NewWebRTCConfig, Mapping, Mapped
<1>4. CASE Opening
  BY <1>4, TurnsEarly DEF Opening, StartUDP, Enumerate, ListenUDP, CreateFails, CreateMuxes, ListenTCP, NoTCP,
                          LateFailure, Configured
<1> QED BY <1>1, <1>2, <1>3, <1>4, NextStep DEF NextConf, varsConf, sockets

\* "One mux of them in round robin fashion" (udpmultimux.go:86): until the counter
\* wraps, of n ports of an IP n consecutive calls take n different ones, whoever calls,
\* and no call fails.
THEOREM PortsTakeTurns == SpecConf => [](Unwrapped => RoundRobin)
<1>1. InitConf => SocketsInv /\ Turns
  BY NodeInit, SocketsInit, TurnsInit DEF SocketsInv
<1>2. SocketsInv /\ Turns /\ [NextConf]_varsConf => (SocketsInv /\ Turns)'
  BY SocketsStep, TurnsStep
<1>3. SocketsInv /\ Turns => (Unwrapped => RoundRobin)
  <2> SUFFICES ASSUME SocketsInv, Turns, Unwrapped, NEW ip \in DOMAIN taken,
                      NEW i \in DOMAIN taken[ip], NEW j \in DOMAIN taken[ip]
               PROVE  LET addrs == addresseMuxes(ip) IN
                      /\ taken[ip][i] \in ToSet(addrs)
                      /\ 0 < j - i /\ j - i < Len(addrs) => taken[ip][i] # taken[ip][j]
    BY DEF RoundRobin
  <2> DEFINE addrs == addresseMuxes(ip)
             n == Len(addrs)
             t == taken[ip]
  <2>1. t \in Seq(Places \cup {"panic"}) /\ DOMAIN t = 1 .. Len(t) /\ Len(t) \in Nat
    BY DEF Turns
  <2>2. addrs \in Seq(Sockets) /\ IsInjective(addrs)
    <3>1. muxes \in Seq(Sockets) /\ IsInjective(muxes)
      BY DEF SocketsInv, Allowed, Owned
    <3>2. addresseMuxes(ip) \in Seq(Sockets \cap {m \in ToSet(muxes) : m[1] = ip})
      BY <3>1, ThoseTyped DEF addresseMuxes
    <3>3. IsInjective(addresseMuxes(ip))
      BY <3>1, ThoseOnce DEF addresseMuxes
    <3> QED BY <3>2, <3>3
  <2>3. t # <<>> /\ i \in 1 .. Len(t) /\ j \in 1 .. Len(t)
    BY <2>1
  <2>4. /\ addrs # <<>>
        /\ \A k \in 1 .. Len(t) : t[k] = addrs[(k % n) + 1]
    BY <2>3 DEF Turns, Unwrapped
  <2> HIDE DEF addrs, t
  <2>5. n \in Nat \ {0} /\ DOMAIN addrs = 1 .. n
    BY <2>2, <2>4
  <2> HIDE DEF n
  <2>6. (i % n) + 1 \in 1 .. n /\ (j % n) + 1 \in 1 .. n
    <3>1. i \in Int /\ j \in Int
      BY <2>1, <2>3
    <3>2. i % n \in 0 .. n - 1 /\ j % n \in 0 .. n - 1
      BY <2>5, <3>1, RemainderIn
    <3> QED BY <2>5, <3>2
  <2>7. t[i] \in ToSet(addrs)
    BY <2>3, <2>4, <2>5, <2>6 DEF ToSet
  <2>8. ASSUME 0 < j - i, j - i < n PROVE t[i] # t[j]
    <3>1. i \in Int /\ j \in Int
      BY <2>1, <2>3
    <3>2. i % n # j % n
      BY <2>5, <2>8, <3>1, TurnsApart
    <3>3. (i % n) + 1 # (j % n) + 1
      <4>1. i % n \in Int /\ j % n \in Int
        BY <2>5, <3>1, RemainderIn
      <4> QED BY <3>2, <4>1
    <3>4. addrs[(i % n) + 1] # addrs[(j % n) + 1]
      BY <2>2, <2>5, <2>6, <3>3 DEF IsInjective
    <3> QED BY <2>3, <2>4, <3>4
  <2> QED BY <2>7, <2>8 DEF addrs, n, t
<1> QED BY <1>1, <1>2, <1>3, PTL DEF SpecConf
=============================================================================
