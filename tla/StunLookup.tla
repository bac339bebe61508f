------------------------------ MODULE StunLookup ------------------------------
(***************************************************************************)
(* pkg/rtcconfig/ip.go, findExternalIP: one socket, a goroutine per server *)
(* that resolves it, one per address that queries it until an answer with  *)
(* its transaction comes, one per mapped address that probes it, one that  *)
(* waits for all of these and then wakes the read loop, and the read loop  *)
(* itself.  Sections under mu are steps of their own.                      *)
(***************************************************************************)
EXTENDS Naturals, FiniteSets

CONSTANTS
  Servers,
  Calls,      \* the calls made: [servers, families, validate]
  Mapped,     \* external addresses servers may report
  FamilyOf,   \* their families
  Foreign,    \* a transaction that was never started
  Bad,        \* an answer without a mapped address
  None

ASSUME LookupAssumption ==
  /\ IsFiniteSet(Servers) /\ IsFiniteSet(Mapped)
  /\ Calls \subseteq [servers : SUBSET Servers, families : SUBSET {4, 6}, validate : BOOLEAN]
  /\ FamilyOf \in [Mapped -> {4, 6}]
  /\ None \notin Mapped /\ Bad \notin Mapped /\ None # Bad
  /\ Foreign \notin Servers \X {4, 6}

Queries == Servers \X {4, 6}

VARIABLES
  call,                           \* never changes
  resolver, query, probe, waiter, \* where each goroutine is
  pending, answered, probed,      \* answered: whose done channel is closed
  wg,                             \* the count of the WaitGroup
  stunOver, ctxOver,              \* stunCtx and ctx1 are done
  conn,                           \* "open", "deadline" (in the past) or "closed"
  main,                           \* the read loop: at, and the answer it is at
  fallbackIP, errs,               \* errs: whether an error was recorded
  result,
  sent, answer, returned,         \* the network: what was asked, answered, what came back
  panicked, matched               \* history: a second close; addresses answered to a request

goroutines == <<resolver, query, probe, waiter>>
shared == <<pending, answered, probed, wg>>
contexts == <<stunOver, ctxOver>>
outcome == <<fallbackIP, result>>
network == <<sent, answer, returned>>
history == <<panicked, matched>>
vars == <<goroutines, shared, contexts, conn, main, outcome, errs, network, history>>

Idle == [at |-> "read", id |-> Foreign, ip |-> None, ok |-> FALSE, probes |-> FALSE]

Validate == call.validate \* and there is a local address
PreferIPv4 == call.families = {4, 6}

Init ==
  /\ call \in Calls
  /\ resolver = [s \in Servers |-> IF s \in call.servers THEN "run" ELSE "none"]
  /\ query = [q \in Queries |-> "none"]
  /\ probe = [a \in Mapped |-> "none"] /\ waiter = "wait"
  /\ pending = {} /\ answered = {} /\ probed = {} /\ wg = Cardinality(call.servers)
  /\ stunOver = FALSE /\ ctxOver = FALSE /\ conn = "open"
  /\ main = Idle
  /\ fallbackIP = None /\ errs = FALSE /\ result = None
  /\ sent = {} /\ answer = [q \in Queries |-> None] /\ returned = {}
  /\ panicked = FALSE /\ matched = {}

Returned == main.at = "done"

-----------------------------------------------------------------------------
(* Lookups and requests.                                                   *)

\* The resolver's own count is given back after its queries are counted.
Resolve(s, found) ==
  /\ resolver[s] = "run"
  /\ resolver' = [resolver EXCEPT ![s] = "done"]
  /\ query' = [q \in Queries |-> IF q[1] = s /\ q[2] \in found THEN "register" ELSE query[q]]
  /\ wg' = wg + Cardinality(found) - 1
  /\ UNCHANGED <<probe, waiter, pending, answered, probed, contexts, conn, main, outcome, errs, network, history>>

ResolveFails(s) ==
  /\ resolver[s] = "run"
  /\ resolver' = [resolver EXCEPT ![s] = "done"]
  /\ wg' = wg - 1 /\ errs' = TRUE
  /\ UNCHANGED <<query, probe, waiter, pending, answered, probed, contexts, conn, main, outcome, network, history>>

At(q, here, there) == query[q] = here /\ query' = [query EXCEPT ![q] = there]

Register(q) ==
  /\ At(q, "register", "write")
  /\ pending' = pending \cup {q}
  /\ UNCHANGED <<resolver, probe, waiter, answered, probed, wg, contexts, conn, main, outcome, errs, network, history>>

Write(q) ==
  /\ conn # "closed"
  /\ At(q, "write", "wait")
  /\ sent' = sent \cup {q}
  /\ UNCHANGED <<resolver, probe, waiter, shared, contexts, conn, main, outcome, errs, answer, returned, history>>

WriteFails(q) ==
  /\ At(q, "write", "leave")
  /\ errs' = TRUE
  /\ UNCHANGED <<resolver, probe, waiter, shared, contexts, conn, main, outcome, network, history>>

Resend(q) ==
  /\ At(q, "wait", "write")
  /\ UNCHANGED <<resolver, probe, waiter, shared, contexts, conn, main, outcome, errs, network, history>>

Ended(q) ==
  /\ q \in answered \/ stunOver
  /\ At(q, "wait", "leave")
  /\ UNCHANGED <<resolver, probe, waiter, shared, contexts, conn, main, outcome, errs, network, history>>

\* Mutant: the count is given back while the entry is still there.
MutForget(q) ==
  /\ At(q, "leave", "forgotten")
  /\ wg' = wg - 1
  /\ UNCHANGED <<resolver, probe, waiter, pending, answered, probed, contexts, conn, main, outcome, errs, network, history>>

Forget(q) ==
  /\ At(q, "leave", "forgotten")
  /\ pending' = pending \ {q}
  /\ UNCHANGED <<resolver, probe, waiter, answered, probed, wg, contexts, conn, main, outcome, errs, network, history>>

Done(q) ==
  /\ At(q, "forgotten", "done")
  /\ wg' = wg - 1
  /\ UNCHANGED <<resolver, probe, waiter, pending, answered, probed, contexts, conn, main, outcome, errs, network, history>>

-----------------------------------------------------------------------------
(* Probes and the goroutine that waits for everyone.                       *)

ProbeAt(a, here, there) == probe[a] = here /\ probe' = [probe EXCEPT ![a] = there]

SendProbe(a) ==
  /\ ProbeAt(a, "send", "wait")
  /\ UNCHANGED <<resolver, query, waiter, shared, contexts, conn, main, outcome, errs, network, history>>

\* The packet cannot be sent, or did not return in time.
ProbeFails(a) ==
  /\ ProbeAt(a, "send", "done") \/ ProbeAt(a, "wait", "done")
  /\ wg' = wg - 1 /\ errs' = TRUE
  /\ UNCHANGED <<resolver, query, waiter, pending, answered, probed, contexts, conn, main, outcome, network, history>>

ProbeCancelled(a) ==
  /\ ctxOver
  /\ ProbeAt(a, "wait", "done")
  /\ wg' = wg - 1
  /\ UNCHANGED <<resolver, query, waiter, pending, answered, probed, contexts, conn, main, outcome, errs, network, history>>

Wait ==
  /\ waiter = "wait" /\ wg = 0
  /\ waiter' = "wake"
  /\ UNCHANGED <<resolver, query, probe, shared, contexts, conn, main, outcome, errs, network, history>>

\* Mutant: nobody wakes the read loop.
MutWake ==
  /\ waiter = "wake" /\ waiter' = "done"
  /\ UNCHANGED <<resolver, query, probe, shared, contexts, conn, main, outcome, errs, network, history>>

Wake ==
  /\ waiter = "wake" /\ waiter' = "done"
  /\ conn' = IF conn = "closed" THEN "closed" ELSE "deadline"
  /\ UNCHANGED <<resolver, query, probe, shared, contexts, main, outcome, errs, network, history>>

-----------------------------------------------------------------------------
(* Timers and the network.                                                 *)

StunTimeout ==
  /\ ~stunOver
  /\ stunOver' = TRUE
  /\ UNCHANGED <<goroutines, shared, ctxOver, conn, main, outcome, errs, network, history>>

\* The whole lookup's timeout, or the caller's context.
CtxEnds ==
  /\ ~ctxOver
  /\ ctxOver' = TRUE /\ stunOver' = TRUE
  /\ UNCHANGED <<goroutines, shared, conn, main, outcome, errs, network, history>>

\* context.AfterFunc.
CloseConn ==
  /\ ctxOver /\ conn # "closed"
  /\ conn' = "closed"
  /\ UNCHANGED <<goroutines, shared, contexts, main, outcome, errs, network, history>>

Answers(q, a) ==
  /\ q \in sent /\ answer[q] = None
  /\ a \in Mapped => FamilyOf[a] = q[2]
  /\ answer' = [answer EXCEPT ![q] = a]
  /\ UNCHANGED <<goroutines, shared, contexts, conn, main, outcome, errs, sent, returned, history>>

\* This lookup's probe, or that of another lookup of the process: they share the port,
\* the network and whether they validate.
ProbeReturns(a) ==
  /\ Validate /\ FamilyOf[a] \in call.families
  /\ returned' = returned \cup {a}
  /\ UNCHANGED <<goroutines, shared, contexts, conn, main, outcome, errs, sent, answer, history>>

-----------------------------------------------------------------------------
(* The read loop.  A datagram may be read any number of times, or never.   *)

\* The deferred calls of a return: both contexts are cancelled, the socket closed.
Return(ip) ==
  /\ result' = ip
  /\ main' = [Idle EXCEPT !.at = "done"]
  /\ stunOver' = TRUE /\ ctxOver' = TRUE /\ conn' = "closed"

\* Mutant: a probe of any address will do.
MutCameBack(a) == TRUE

CameBack(a) == a \in probed

ReadProbe(a) ==
  /\ main.at = "read" /\ conn = "open"
  /\ a \in returned /\ CameBack(a)
  /\ Return(a)
  /\ UNCHANGED <<goroutines, shared, fallbackIP, errs, network, history>>

Known(id) == id \in pending

StartsProbe(id, a) == Known(id) /\ a # Bad /\ Validate /\ a \notin probed

\* What mu protects: the request is taken out and a probe of the address counted.
Match(id, a) ==
  LET starts == StartsProbe(id, a) IN
  /\ main.at = "read" /\ conn = "open"
  /\ pending' = pending \ {id}
  /\ probed' = IF starts THEN probed \cup {a} ELSE probed
  /\ wg' = IF starts THEN wg + 1 ELSE wg
  /\ main' = IF Known(id) THEN [at |-> "matched", id |-> id, ip |-> a, ok |-> a # Bad, probes |-> starts]
             ELSE main
  /\ matched' = IF id \in pending THEN matched \cup {a} ELSE matched
  /\ UNCHANGED <<goroutines, answered, contexts, conn, outcome, errs, network, panicked>>

\* Mutant: the first answer of either family is returned.
MutWaitsForIPv4(a) == FALSE

WaitsForIPv4(a) == PreferIPv4 /\ FamilyOf[a] = 6

\* After mu: the request is told, the probe runs, and the address is returned, kept
\* or left to its probe.
Matched ==
  LET a == main.ip IN
  /\ main.at = "matched"
  /\ answered' = answered \cup {main.id}
  /\ panicked' = (panicked \/ main.id \in answered)
  /\ probe' = IF main.probes THEN [probe EXCEPT ![a] = "send"] ELSE probe
  /\ errs' = (errs \/ ~main.ok)
  /\ \/ /\ ~main.ok \/ Validate
        /\ main' = Idle
        /\ UNCHANGED <<contexts, conn, outcome>>
     \/ /\ main.ok /\ ~Validate /\ WaitsForIPv4(a)
        /\ fallbackIP' = IF fallbackIP = None THEN a ELSE fallbackIP
        /\ main' = Idle
        /\ UNCHANGED <<contexts, conn, result>>
     \/ /\ main.ok /\ ~Validate /\ ~WaitsForIPv4(a)
        /\ Return(a)
        /\ UNCHANGED fallbackIP
  /\ UNCHANGED <<resolver, query, waiter, pending, probed, wg, network, matched>>

\* Without an address the reason is a context that ended, a socket error, or that no
\* server answered.
ReadFails ==
  /\ main.at = "read" /\ conn # "open"
  /\ Return(fallbackIP)
  /\ errs' = (errs \/ fallbackIP = None)
  /\ UNCHANGED <<goroutines, shared, fallbackIP, network, history>>

-----------------------------------------------------------------------------
Request(q) == Register(q) \/ Write(q) \/ WriteFails(q) \/ Ended(q) \/ Forget(q) \/ Done(q)

Main ==
  \/ ReadFails \/ Matched
  \/ \E a \in Mapped : ReadProbe(a) \/ Match(Foreign, a)
  \/ \E q \in Queries : answer[q] # None /\ Match(q, answer[q])

Next ==
  \/ \E s \in Servers : ResolveFails(s) \/ \E found \in SUBSET call.families \ {{}} : Resolve(s, found)
  \/ \E q \in Queries : Request(q) \/ Resend(q) \/ \E a \in Mapped \cup {Bad} : Answers(q, a)
  \/ \E a \in Mapped : SendProbe(a) \/ ProbeFails(a) \/ ProbeCancelled(a) \/ ProbeReturns(a)
  \/ Wait \/ Wake \/ StunTimeout \/ CtxEnds \/ CloseConn \/ Main

\* Goroutines run, the timers of stunCtx and of every probe fire, and a resolver
\* returns when stunCtx is over.  Nothing is assumed of ctx1's timer, of answers
\* or of probes coming back.
Fairness ==
  /\ \A s \in Servers : WF_vars(stunOver /\ ResolveFails(s))
  /\ \A q \in Queries : WF_vars(Request(q)) /\ SF_vars(Ended(q))
  /\ \A a \in Mapped : WF_vars(SendProbe(a)) /\ WF_vars(ProbeFails(a) \/ ProbeCancelled(a))
  /\ WF_vars(StunTimeout) /\ WF_vars(Wait) /\ WF_vars(Wake)
  /\ WF_vars(ReadFails) /\ WF_vars(Matched)

Spec == Init /\ [][Next /\ UNCHANGED call]_<<vars, call>> /\ Fairness

-----------------------------------------------------------------------------
(* Correctness.                                                            *)

TypeOK ==
  /\ resolver \in [Servers -> {"none", "run", "done"}]
  /\ query \in [Queries -> {"none", "register", "write", "wait", "leave", "forgotten", "done"}]
  /\ probe \in [Mapped -> {"none", "send", "wait", "done"}]
  /\ waiter \in {"wait", "wake", "done"}
  /\ pending \subseteq Queries /\ answered \subseteq Queries /\ sent \subseteq Queries
  /\ probed \subseteq Mapped /\ returned \subseteq Mapped /\ matched \subseteq Mapped \cup {Bad}
  /\ wg \in 0 .. Cardinality(Servers) + Cardinality(Queries) + Cardinality(Mapped)
  /\ conn \in {"open", "deadline", "closed"}
  /\ {stunOver, ctxOver, errs, panicked} \subseteq BOOLEAN
  /\ {fallbackIP, result} \subseteq Mapped \cup {None}
  /\ answer \in [Queries -> Mapped \cup {Bad, None}]

\* Types, and: "while the entry is found here, that query has not called wg.Done, the count is
\* above zero and Wait has not returned" (lines 393-395): once Wait has returned
\* nothing is running, and nothing is about to.  And no request is told twice, which
\* would close its channel twice (lines 392, 405).
NothingAfterWait ==
  /\ TypeOK /\ ~panicked
  /\ waiter # "wait" =>
       /\ ~main.probes
       /\ \A a \in Mapped : probe[a] \in {"none", "done"}
       /\ \A q \in Queries : query[q] \in {"none", "done"}
       /\ \A s \in Servers : resolver[s] # "run"

\* An address that is returned was an answer to a request of this lookup (line 391)
\* and, when asked for, is probed by it and a probe of it came in (lines 375-379); a
\* lookup that returns no address says why (lines 363-371).
ResultIsMatched ==
  Returned =>
    IF result = None THEN errs
    ELSE /\ result \in matched
         /\ Validate => result \in returned /\ probe[result] # "none"

\* "An IPv4 answer is preferred" (line 225): an IPv6 address is only returned when
\* no IPv4 one was read, and nobody is left to wait for or time is up.
IPv4Preferred ==
  [][ ~Returned /\ Returned' /\ PreferIPv4 /\ ~Validate /\ result' \in Mapped
      /\ FamilyOf[result'] = 6 =>
        /\ \A a \in matched \ {Bad} : FamilyOf[a] = 6
        /\ waiter = "done" \/ ctxOver ]_vars

\* "Wakes the read below once every lookup and request has ended" (line 345): the
\* call returns even if nothing is ever answered and ctx1's timer never fires, and
\* every goroutine it started ends.
Returns ==
  <>[](/\ Returned
       /\ \A s \in Servers : resolver[s] # "run"
       /\ \A q \in Queries : query[q] \in {"none", "done"}
       /\ \A a \in Mapped : probe[a] \in {"none", "done"}
       /\ waiter = "done")
=============================================================================
