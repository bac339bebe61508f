----------------------------- MODULE WebRTCConfig -----------------------------
(***************************************************************************)
(* From configuration to open sockets: config.go and ip.go settle the      *)
(* address of the node, webrtc_config.go's NewWebRTCConfig maps local      *)
(* addresses to external ones (NatMapping), opens UDP sockets through      *)
(* transport/createmux.go and a TCP listener, and udpmultimux.go hands out *)
(* the ports.  Any call into the network may fail.  Settings that are only *)
(* copied to pion are left out.                                            *)
(***************************************************************************)
EXTENDS NatMapping, Integers

CONSTANTS
  Addresses, \* of the interfaces, in order: [ip, iface, up, loopback, linkLocal]
  EnableLoopback, IncludeIfs, ExcludeIfs, IncludeIPs, ExcludeIPs,
  Configs,   \* the configurations: [useExternalIP, requireIPv4, externalIPOnly,
             \* forceTCP, portRange, udpPort, useStunPort, tcpPort, nodeIP]
  NumCPU, StunPort,
  Tries,     \* lookups of the external address
  CounterHalf, \* the counter of a port balance is at least -CounterHalf and below it (2^31)
  MaxRounds  \* bound: how often all addresses of an IP are taken

VARIABLES
  conf,
  nodeIP,      \* the families NodeIP has an address of
  auto,        \* NodeIPAutoGenerated
  at, tries,
  batch,       \* which creation of muxes: "ports" or "stun"
  work, conns, \* sockets to open, and opened by this creation: <<ip, port>>
  open,        \* the sockets that are open
  muxes, standalone,
  rules,       \* where the address rewrite rules come from
  stunServers, \* ICEServers is set
  taken        \* per IP: addresses taken of it, newest last

node == <<conf, nodeIP, auto, tries>>
sockets == <<batch, work, conns, open, muxes, standalone>>
varsConf == <<vars, node, at, sockets, rules, stunServers, taken>>

-----------------------------------------------------------------------------
(* Interfaces and filters.                                                 *)

\* Includes win over excludes.
FilterFromConf(includes, excludes, x) == IF includes # {} THEN x \in includes ELSE x \notin excludes

ifFilter(a) == FilterFromConf(IncludeIfs, ExcludeIfs, a.iface)
ipFilter(ip) == FilterFromConf(IncludeIPs, ExcludeIPs, ip)

IpsOf(as) == [i \in DOMAIN as |-> as[i].ip]

\* What a loop over q that appends the members of S collects.
Those(q, S) ==
  LET kept[i \in 0 .. Len(q)] ==
        IF i = 0 THEN <<>> ELSE IF q[i] \in S THEN Append(kept[i - 1], q[i]) ELSE kept[i - 1]
  IN kept[Len(q)]

\* The loopback addresses only if asked for, or if there are no others.
GetLocalIPAddresses(includeLoopback, allowed) ==
  LET addresses == Those(Addresses, {a \in allowed : ~a.linkLocal /\ ~a.loopback})
      loopBacks == Those(Addresses, {a \in allowed : ~a.linkLocal /\ a.loopback})
  IN IpsOf(IF addresses = <<>> THEN loopBacks
           ELSE IF includeLoopback THEN addresses \o loopBacks ELSE addresses)

\* Mutant: the filter of the mapping stays behind.
MutPasses(ip) == ipFilter(ip)

\* The filter once ExternalIPOnly has narrowed it.
Passes(ip) ==
  /\ ipFilter(ip)
  /\ conf.externalIPOnly /\ result # <<>> => PassesFilter(ip)

localInterfaces ==
  IpsOf(Those(Addresses, {a \in ToSet(Addresses) :
          /\ a.up /\ (a.loopback => EnableLoopback) /\ ifFilter(a)
          /\ FamilyOf[a.ip] = 6 => ~a.linkLocal
          /\ Passes(a.ip)}))

ASSUME ConfigAssumption ==
  /\ LocalIPs = GetLocalIPAddresses(EnableLoopback, {a \in ToSet(Addresses) : ifFilter(a) /\ ipFilter(a.ip)})
  /\ {NumCPU, Tries, CounterHalf} \subseteq Nat \ {0} /\ {StunPort, MaxRounds} \subseteq Nat
RTCConfig ==
  [useExternalIP : BOOLEAN, requireIPv4 : BOOLEAN, externalIPOnly : BOOLEAN, forceTCP : BOOLEAN,
   portRange : BOOLEAN, udpPort : [start : Nat, end : Nat], useStunPort : BOOLEAN,
   tcpPort : BOOLEAN, nodeIP : SUBSET {4, 6}]

ASSUME HostAssumption ==
  /\ Addresses \in Seq([ip : DOMAIN FamilyOf \ {"tcp"}, iface : STRING, up : BOOLEAN, loopback : BOOLEAN,
                        linkLocal : BOOLEAN])
  /\ Configs \subseteq RTCConfig

-----------------------------------------------------------------------------
(* The node's address.                                                     *)

InitConf ==
  /\ Init
  /\ conf \in Configs /\ nodeIP = conf.nodeIP /\ auto = FALSE
  /\ at = "start" /\ tries = 0
  /\ batch = "ports" /\ work = <<>> /\ conns = <<>> /\ open = {}
  /\ muxes = <<>> /\ standalone = <<>>
  /\ rules = "none" /\ stunServers = FALSE
  /\ taken = [ip \in {Addresses[i].ip : i \in DOMAIN Addresses} |-> <<>>]

Valid(r) == r.start # 0

ToSlice(r) ==
  IF r.end <= r.start THEN <<r.start>> ELSE [i \in 1 .. r.end - r.start + 1 |-> r.start + i - 1]

\* Without any port: one in development, else the default range.
WithPorts(c, development) ==
  IF Valid(c.udpPort) \/ c.portRange THEN c
  ELSE IF development THEN [c EXCEPT !.udpPort = [start |-> 7882, end |-> 0]]
  ELSE [c EXCEPT !.portRange = TRUE]

Validate ==
  /\ at = "start"
  /\ \E development \in BOOLEAN : conf' = WithPorts(conf, development)
  /\ at' = IF nodeIP = {} \/ conf.useExternalIP THEN "resolve" ELSE "ready"
  /\ UNCHANGED <<vars, nodeIP, auto, tries, sockets, rules, stunServers, taken>>

\* The caller may ask for IPv4 before it tries again.
ReloadExternalIP ==
  /\ at \in {"ready", "failed"}
  /\ \E need \in {conf.requireIPv4, TRUE} : conf' = [conf EXCEPT !.requireIPv4 = need]
  /\ nodeIP' = {} /\ auto' = FALSE /\ at' = "resolve" /\ tries' = 0
  /\ UNCHANGED <<vars, sockets, rules, stunServers, taken>>

Resolves(f) ==
  /\ nodeIP' = nodeIP \cup {f} /\ auto' = TRUE /\ at' = "ready" /\ tries' = 0
  /\ UNCHANGED <<vars, conf, sockets, rules, stunServers, taken>>

\* GetExternalIPv4 if an IPv4 address is required, else GetExternalIP.
LookupFinds ==
  /\ at = "resolve" /\ conf.useExternalIP
  /\ \E f \in {4, 6} : (conf.requireIPv4 => f = 4) /\ Resolves(f)

LookupFails ==
  /\ at = "resolve" /\ conf.useExternalIP
  /\ tries' = tries + 1 /\ at' = IF tries + 1 < Tries THEN "resolve" ELSE "failed"
  /\ UNCHANGED <<vars, conf, nodeIP, auto, sockets, rules, stunServers, taken>>

\* Without STUN: an IPv4 address of this host, or else its first one.
TakeLocal ==
  LET families == LET ips == GetLocalIPAddresses(FALSE, ToSet(Addresses))
                  IN [i \in DOMAIN ips |-> FamilyOf[ips[i]]]
  IN /\ at = "resolve" /\ ~conf.useExternalIP
     /\ IF 4 \in ToSet(families) THEN Resolves(4)
        ELSE IF conf.requireIPv4 \/ families = <<>>
        THEN /\ at' = "failed"
             /\ UNCHANGED <<vars, node, sockets, rules, stunServers, taken>>
        ELSE Resolves(Head(families))

-----------------------------------------------------------------------------
(* NewWebRTCConfig: the mapping.                                           *)

\* Rules are set from NodeIP if the user gave it, or if nothing was mapped.
NewWebRTCConfig ==
  /\ at \in {"ready", "failed"}
  /\ LET maps == nodeIP # {} /\ conf.useExternalIP IN
     /\ at' = IF maps THEN "nat" ELSE "udp"
     /\ rules' = IF nodeIP # {} /\ ~conf.useExternalIP /\ ~auto THEN "node" ELSE "none"
  /\ UNCHANGED <<vars, node, sockets, stunServers, taken>>

Mapping(step) == at = "nat" /\ step /\ UNCHANGED <<node, at, sockets, rules, stunServers, taken>>

Mapped ==
  /\ at = "nat" /\ main = "done"
  /\ rules' = IF result = <<>> THEN "node" ELSE "mapping"
  /\ at' = "udp"
  /\ UNCHANGED <<vars, node, sockets, stunServers, taken>>

-----------------------------------------------------------------------------
(* NewWebRTCConfig: the sockets.                                           *)

\* Not more ports than processors.
MuxPorts ==
  LET availablePorts == ToSlice(conf.udpPort)
  IN Those(availablePorts, {p \in ToSet(availablePorts) : p - conf.udpPort.start < NumCPU})

BatchPorts == IF batch = "ports" THEN MuxPorts ELSE <<StunPort>>

StartUDP ==
  /\ at = "udp"
  /\ at' = IF conf.forceTCP \/ conf.portRange \/ ~Valid(conf.udpPort) THEN "tcp" ELSE "create"
  /\ UNCHANGED <<vars, node, sockets, rules, stunServers, taken>>

\* CreateUDPMuxesFromPorts: stdnet.NewNet and localInterfaces; addresses outside, ports inside.
Enumerate ==
  /\ at = "create"
  /\ work' = FlattenSeq([i \in DOMAIN localInterfaces |->
               [j \in DOMAIN BatchPorts |-> <<localInterfaces[i], BatchPorts[j]>>]])
  /\ conns' = <<>> /\ at' = "listen"
  /\ UNCHANGED <<vars, node, batch, open, muxes, standalone, rules, stunServers, taken>>

ListenUDP ==
  /\ at = "listen" /\ work # <<>> /\ Head(work) \notin open
  /\ work' = Tail(work) /\ conns' = Append(conns, Head(work)) /\ open' = open \cup {Head(work)}
  /\ UNCHANGED <<vars, node, at, batch, muxes, standalone, rules, stunServers, taken>>

\* Mutant: the inner loop's failure is closed, not what came before it.
MutCloses == {c \in ToSet(conns) : c[1] = Head(work)[1]}

\* What a failed creation closes.
Closes == ToSet(conns)

\* Either loop is left by the first failure.
CreateFails ==
  /\ at = "create" \/ (at = "listen" /\ work # <<>>)
  /\ open' = IF at = "listen" THEN open \ Closes ELSE open
  /\ at' = "error"
  /\ UNCHANGED <<vars, node, batch, work, conns, muxes, standalone, rules, stunServers, taken>>

CreateMuxes ==
  /\ at = "listen" /\ work = <<>>
  /\ IF batch = "ports" THEN muxes' = conns /\ standalone' = standalone
                        ELSE standalone' = conns /\ muxes' = muxes
  /\ IF batch = "ports" /\ conf.useStunPort THEN batch' = "stun" /\ at' = "create"
                                            ELSE batch' = batch /\ at' = "tcp"
  /\ UNCHANGED <<vars, node, work, conns, open, rules, stunServers, taken>>

ListenTCP ==
  /\ at = "tcp" /\ conf.tcpPort
  /\ open' = open \cup {<<"tcp", 0>>} /\ at' = "net"
  /\ UNCHANGED <<vars, node, batch, work, conns, muxes, standalone, rules, stunServers, taken>>

NoTCP ==
  /\ at = "tcp" /\ ~conf.tcpPort
  /\ at' = IF conf.forceTCP THEN "error" ELSE "net"
  /\ UNCHANGED <<vars, node, sockets, rules, stunServers, taken>>

\* net.ListenTCP or stdnet.NewNet.
LateFailure ==
  /\ (at = "tcp" /\ conf.tcpPort) \/ at = "net"
  /\ at' = "error"
  /\ UNCHANGED <<vars, node, sockets, rules, stunServers, taken>>

\* Mutant: servers are added whenever the address was not given.
MutUsesStunServers == nodeIP = {} \/ auto

UsesStunServers == (nodeIP = {} \/ auto) /\ ~conf.useExternalIP

Configured ==
  /\ at = "net"
  /\ at' = "done" /\ stunServers' = UsesStunServers
  /\ UNCHANGED <<vars, node, sockets, rules, taken>>

-----------------------------------------------------------------------------
(* The mux in use.                                                         *)

addresseMuxes(ip) == Those(muxes, {m \in ToSet(muxes) : m[1] = ip})

\* currentMux after n calls, an int32.
currentMux(n) == ((n + CounterHalf) % (2 * CounterHalf)) - CounterHalf

\* Mutant: modulo one address less.
MutIndex(value, n) == IF n = 1 THEN 0 ELSE value % (n - 1)

\* Go's remainder has the sign of the dividend.
Index(value, n) == IF value >= 0 THEN value % n ELSE -((-value) % n)

\* GetListenAddresses takes one address of every IP, by an atomic counter; callers
\* that run at once interleave here.  MaxRounds bounds it, to configurations that
\* need no mapping, on which it does not depend.
next(ip) ==
  LET addrs == addresseMuxes(ip) IN
  /\ at = "done" /\ addrs # <<>> /\ Len(taken[ip]) < MaxRounds * Len(addrs) /\ result = <<>>
  /\ taken' = [taken EXCEPT ![ip] =
       Append(@, IF Index(currentMux(Len(@) + 1), Len(addrs)) < 0 THEN "panic"
                 ELSE addrs[Index(currentMux(Len(@) + 1), Len(addrs)) + 1])]
  /\ UNCHANGED <<vars, node, at, sockets, rules, stunServers>>

Opening ==
  StartUDP \/ CreateFails \/ Enumerate \/ ListenUDP \/ CreateMuxes \/ ListenTCP \/ NoTCP \/ LateFailure \/ Configured

NextConf ==
  \/ Validate \/ ReloadExternalIP \/ LookupFinds \/ LookupFails \/ TakeLocal
  \/ NewWebRTCConfig \/ Mapping(Next) \/ Mapped \/ Opening
  \/ \E ip \in DOMAIN taken : next(ip)

\* A call goes on once it was made; lookups of the mapping only end when cancelled.
FairnessConf ==
  /\ WF_varsConf(LookupFinds \/ LookupFails \/ TakeLocal) /\ WF_varsConf(Mapped) /\ WF_varsConf(Opening)
  /\ \A l \in Local : WF_varsConf(Mapping(cancelled /\ Fails(l))) /\ WF_varsConf(Mapping(Report(l)))
  /\ WF_varsConf(Mapping(TimerFires)) /\ WF_varsConf(Mapping(TimedOut))
  /\ WF_varsConf(Mapping(AllReported)) /\ WF_varsConf(Mapping(Finish))

SpecConf == InitConf /\ [][NextConf]_varsConf /\ FairnessConf

-----------------------------------------------------------------------------
(* Correctness.                                                            *)

Returned == at \in {"done", "error"}

TypeOKConf ==
  /\ TypeOK
  /\ nodeIP \subseteq {4, 6} /\ auto \in BOOLEAN /\ stunServers \in BOOLEAN
  /\ tries \in 0 .. Tries
  /\ at \in {"start", "resolve", "ready", "failed", "nat", "udp", "create", "listen", "tcp", "net", "done", "error"}
  /\ batch \in {"ports", "stun"} /\ rules \in {"none", "node", "mapping"}

\* Types, and: a creation of muxes that fails leaves nothing open (createmux.go:80-85).
\* What is open at any time is what the current creation opened, what the muxes
\* of completed ones own, and the TCP listener, each of them once; and no lookup
\* of the mapping still holds its socket, which may be bound to the same port.
OpenIsAccounted ==
  LET creating == IF at = "listen" THEN conns ELSE <<>>
      owned == muxes \o standalone \o creating
  IN /\ TypeOKConf
     /\ open \ {<<"tcp", 0>>} = ToSet(owned) /\ IsInjective(owned)
     /\ open # {} /\ conf.useExternalIP /\ rules # "none" => \A l \in Local : lookup[l].at = "done"

\* A socket's address is announced under an external one, or as itself: with
\* external addresses there is a mapping for the address of every UDP socket that
\* the mapping looked at, and with ExternalIPOnly an IPv4 socket is on an address
\* whose lookup found one (webrtc_config.go:358, 416, 435-449).
SocketsMapped ==
  rules = "mapping" =>
    \A s \in ToSet(muxes \o standalone) :
      IF conf.externalIPOnly /\ FamilyOf[s[1]] = 4
      THEN \E e \in DOMAIN result : result[e] = s[1] /\ lookup[s[1]].ip = e
      ELSE s[1] \in Range(result) \/ s[1] \notin Local

\* The two ways to a public address exclude each other, and one of them is taken
\* unless the address could not be resolved: rules of this node, or STUN servers
\* for pion to find it (webrtc_config.go:89-117, 225-234).  And an address that
\* was resolved under RequireIPv4 has one of IPv4 (config.go:124-127), even if it
\* was first resolved without.
PublicAddress ==
  /\ at = "done" => (rules # "none" <=> ~stunServers) \/ (nodeIP = {} /\ conf.useExternalIP)
  /\ at # "start" /\ auto /\ conf.requireIPv4 => 4 \in nodeIP

\* "One mux of them in round robin fashion" (udpmultimux.go:86): of n ports of an
\* IP, n consecutive calls take n different ones, whoever calls, and no call fails.
\* Holds before the counter wraps, which is beyond MaxRounds.
RoundRobin ==
  \A ip \in DOMAIN taken :
    LET addrs == addresseMuxes(ip) IN
    \A i, j \in DOMAIN taken[ip] :
      /\ taken[ip][i] \in ToSet(addrs)
      /\ 0 < j - i /\ j - i < Len(addrs) => taken[ip][i] # taken[ip][j]

\* Validate, ReloadExternalIP and NewWebRTCConfig return, whatever the network does:
\* tries are bounded, the mapping has a timer and cancels its lookups.
CallsReturn == at \notin {"start", "ready", "failed"} ~> at \in {"ready", "failed", "done", "error"}
=============================================================================
