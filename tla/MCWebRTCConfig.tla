---------------------------- MODULE MCWebRTCConfig ----------------------------
(* WebRTCConfig on a host with two IPv4 addresses, one of which is on an   *)
(* interface that is down, one of IPv6, two that are link-local, a         *)
(* loopback, and one on an interface that is excluded.                     *)
EXTENDS WebRTCConfig

CONSTANTS p4, q4, r6, k4, j6, o4, d4, x4, y4, z6

MCLocalIPs == <<p4, q4, r6>>
MCFamilyOf == [ip \in {p4, q4, k4, o4, d4, x4, y4, r6, j6, z6} |-> IF ip \in {r6, j6, z6} THEN 6 ELSE 4]

Address(ip) == [ip |-> ip, iface |-> IF ip = d4 THEN "docker0" ELSE "eth0", up |-> ip # q4,
                loopback |-> ip = o4, linkLocal |-> ip \in {k4, j6}]
MCAddresses == <<Address(o4), Address(d4), Address(p4), Address(q4), Address(r6), Address(k4), Address(j6)>>

Plain ==
  [useExternalIP |-> FALSE, requireIPv4 |-> FALSE, externalIPOnly |-> FALSE, forceTCP |-> FALSE,
   portRange |-> FALSE, udpPort |-> [start |-> 0, end |-> 0], useStunPort |-> FALSE, tcpPort |-> FALSE, nodeIP |-> {}]

MCConfigs ==
  { [Plain EXCEPT !.useExternalIP = TRUE, !.externalIPOnly = TRUE, !.udpPort = [start |-> 1, end |-> 3], !.tcpPort = TRUE],
    [Plain EXCEPT !.useExternalIP = TRUE, !.requireIPv4 = TRUE, !.udpPort = [start |-> 1, end |-> 0], !.useStunPort = TRUE],
    [Plain EXCEPT !.udpPort = [start |-> 1, end |-> 2], !.useStunPort = TRUE, !.nodeIP = {4}],
    [Plain EXCEPT !.udpPort = [start |-> 3477, end |-> 3478], !.useStunPort = TRUE, !.tcpPort = TRUE],
    [Plain EXCEPT !.forceTCP = TRUE, !.nodeIP = {6}],
    Plain }
=============================================================================
