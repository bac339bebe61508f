------------------------------ MODULE StunProofs ------------------------------
(***************************************************************************)
(* For any servers and addresses: once Wait has returned nothing of a      *)
(* lookup is running or about to run, and no request is told twice.  The   *)
(* count of the WaitGroup is how many goroutines hold one, and a request   *)
(* that can still be matched belongs to a goroutine that holds one.  What  *)
(* is returned was matched, and is IPv6 only when nothing else is left.    *)
(***************************************************************************)
EXTENDS StunLookup, FiniteSetTheorems, TLAPS

\* TypeOK but for the count, whose bounds follow from Counted.
Shapes ==
  /\ resolver \in [Servers -> {"none", "run", "done"}]
  /\ query \in [Queries -> {"none", "register", "write", "wait", "leave", "forgotten", "done"}]
  /\ probe \in [Mapped -> {"none", "send", "wait", "done"}]
  /\ waiter \in {"wait", "wake", "done"}
  /\ pending \subseteq Queries /\ answered \subseteq Queries /\ sent \subseteq Queries
  /\ probed \subseteq Mapped /\ returned \subseteq Mapped /\ matched \subseteq Mapped \cup {Bad}
  /\ conn \in {"open", "deadline", "closed"}
  /\ {stunOver, ctxOver, errs, panicked} \subseteq BOOLEAN
  /\ {fallbackIP, result} \subseteq Mapped \cup {None}
  /\ answer \in [Queries -> Mapped \cup {Bad, None}]

\* Who holds a count; that of a probe is taken before its goroutine starts.
Resolving == {s \in Servers : resolver[s] = "run"}
Querying == {q \in Queries : query[q] \notin {"none", "done"}}
Probing == {a \in Mapped : probe[a] \in {"send", "wait"} \/ (main.probes /\ main.ip = a)}

Counted == wg = Cardinality(Resolving) + Cardinality(Querying) + Cardinality(Probing)

\* Wait returns for good.
Quiet == waiter # "wait" => Resolving = {} /\ Querying = {} /\ Probing = {}

\* A server's requests start when it is resolved.
Unresolved == \A q \in Queries : resolver[q[1]] = "run" => query[q] = "none"

\* A request that can be matched is one whose goroutine runs.
Held == \A q \in pending : query[q] \in {"write", "wait", "leave"}

\* An answer was matched and is not told yet.
Telling == main.at = "matched"

Told(q) == q \in answered \/ (Telling /\ main.id = q)

\* A request is taken out before it is told, and never put in again.
ToldOnce ==
  /\ Telling => main.id \notin answered
  /\ \A q \in Queries : Told(q) => q \notin pending /\ query[q] \notin {"none", "register"}

\* An address is probed once.
ProbedOnce ==
  /\ \A a \in Mapped : probe[a] # "none" => a \in probed
  /\ main.probes => main.ip \in probed /\ probe[main.ip] = "none"

MainTyped ==
  /\ main.at \in {"read", "matched", "done"}
  /\ main.probes \in BOOLEAN /\ main.ok \in BOOLEAN
  /\ Telling => main.id \in Queries /\ main.ip \in Mapped \cup {Bad} /\ (main.ok => main.ip \in Mapped)
  /\ main.probes => Telling /\ main.ip \in Mapped

Rest == Quiet /\ Unresolved /\ Held /\ ToldOnce /\ ProbedOnce /\ MainTyped

IInv == Shapes /\ panicked = FALSE /\ call \in Calls /\ Counted /\ Rest

-----------------------------------------------------------------------------
(* Counting.                                                               *)

LEMMA FamiliesFinite == IsFiniteSet({4, 6})
<1>1. IsFiniteSet({4}) /\ {4} \cup {6} = {4, 6}
  BY FS_Singleton
<1> QED BY <1>1, FS_AddElement

LEMMA SetsFinite ==
  /\ IsFiniteSet(Servers) /\ IsFiniteSet(Queries) /\ IsFiniteSet(Mapped)
<1>1. IsFiniteSet(Servers) /\ IsFiniteSet(Mapped)
  BY LookupAssumption
<1> QED BY <1>1, FamiliesFinite, FS_Product DEF Queries

LEMMA SumTyped ==
  ASSUME NEW A \in SUBSET Servers, NEW B \in SUBSET Queries, NEW C \in SUBSET Mapped
  PROVE  /\ IsFiniteSet(A) /\ IsFiniteSet(B) /\ IsFiniteSet(C)
         /\ Cardinality(A) \in Nat /\ Cardinality(B) \in Nat /\ Cardinality(C) \in Nat
         /\ Cardinality(A) + Cardinality(B) + Cardinality(C)
              \in 0 .. Cardinality(Servers) + Cardinality(Queries) + Cardinality(Mapped)
         /\ Cardinality(A) + Cardinality(B) + Cardinality(C) = 0 => A = {} /\ B = {} /\ C = {}
<1>1. /\ IsFiniteSet(A) /\ Cardinality(A) <= Cardinality(Servers)
      /\ IsFiniteSet(B) /\ Cardinality(B) <= Cardinality(Queries)
      /\ IsFiniteSet(C) /\ Cardinality(C) <= Cardinality(Mapped)
  BY SetsFinite, FS_Subset
<1>2. /\ Cardinality(A) \in Nat /\ Cardinality(B) \in Nat /\ Cardinality(C) \in Nat
      /\ Cardinality(Servers) \in Nat /\ Cardinality(Queries) \in Nat /\ Cardinality(Mapped) \in Nat
  BY <1>1, SetsFinite, FS_CardinalityType
<1>3. /\ Cardinality(A) = 0 => A = {}
      /\ Cardinality(B) = 0 => B = {}
      /\ Cardinality(C) = 0 => C = {}
  BY <1>1, FS_EmptySet
<1>4. \A a, b, c, x, y, z \in Nat : a <= x /\ b <= y /\ c <= z =>
        a + b + c \in 0 .. x + y + z /\ (a + b + c = 0 => a = 0 /\ b = 0 /\ c = 0)
  OBVIOUS
<1>5. /\ Cardinality(A) + Cardinality(B) + Cardinality(C)
           \in 0 .. Cardinality(Servers) + Cardinality(Queries) + Cardinality(Mapped)
      /\ Cardinality(A) + Cardinality(B) + Cardinality(C) = 0 =>
           Cardinality(A) = 0 /\ Cardinality(B) = 0 /\ Cardinality(C) = 0
  BY <1>1, <1>2, <1>4
<1> QED BY <1>1, <1>2, <1>3, <1>5

\* The counts of now and of the next state.
LEMMA Sets ==
  /\ Resolving \in SUBSET Servers /\ Querying \in SUBSET Queries /\ Probing \in SUBSET Mapped
  /\ IsFiniteSet(Resolving) /\ IsFiniteSet(Querying) /\ IsFiniteSet(Probing)
  /\ Cardinality(Resolving) \in Nat /\ Cardinality(Querying) \in Nat /\ Cardinality(Probing) \in Nat
<1>1. /\ Resolving \in SUBSET Servers /\ Querying \in SUBSET Queries /\ Probing \in SUBSET Mapped
  BY DEF Resolving, Querying, Probing
<1> QED BY <1>1, SumTyped

\* Nobody starts and nobody ends.
LEMMA SameCount ==
  ASSUME IInv, wg' = wg, Resolving' = Resolving, Querying' = Querying, Probing' = Probing
  PROVE  Counted'
  BY DEF IInv, Counted

\* One ends.
LEMMA OneLess ==
  ASSUME NEW S, NEW x \in S, IsFiniteSet(S)
  PROVE  Cardinality(S \ {x}) = Cardinality(S) - 1 /\ Cardinality(S) \in Nat
  BY FS_RemoveElement, FS_CardinalityType

LEMMA InvImplies == IInv => NothingAfterWait
<1> SUFFICES ASSUME IInv PROVE NothingAfterWait
  OBVIOUS
<1>1. /\ Resolving \in SUBSET Servers /\ Querying \in SUBSET Queries /\ Probing \in SUBSET Mapped
  BY Sets
<1>2. wg \in 0 .. Cardinality(Servers) + Cardinality(Queries) + Cardinality(Mapped)
  BY <1>1, SumTyped DEF IInv, Counted
<1>3. TypeOK /\ ~panicked
  BY <1>2 DEF IInv, Shapes, TypeOK
<1>4. ASSUME waiter # "wait"
      PROVE  /\ ~main.probes
             /\ \A a \in Mapped : probe[a] \in {"none", "done"}
             /\ \A q \in Queries : query[q] \in {"none", "done"}
             /\ \A s \in Servers : resolver[s] # "run"
  BY <1>4 DEF IInv, Rest, Shapes, Quiet, MainTyped, Resolving, Querying, Probing
<1> QED BY <1>3, <1>4 DEF NothingAfterWait

-----------------------------------------------------------------------------
(* Steps that leave the goroutines where they are.                         *)

LEMMA TimersKeep ==
  ASSUME IInv, UNCHANGED call,
         \/ StunTimeout \/ CtxEnds \/ CloseConn \/ UNCHANGED vars
         \/ \E q \in Queries, a \in Mapped \cup {Bad} : Answers(q, a)
         \/ \E a \in Mapped : ProbeReturns(a)
  PROVE  IInv'
<1>1. UNCHANGED <<goroutines, pending, answered, probed, wg, main, panicked, fallbackIP, result, errs, sent, matched>>
  BY DEF StunTimeout, CtxEnds, CloseConn, Answers, ProbeReturns, vars, goroutines, shared, outcome, network, history, contexts
<1> DEFINE Small == /\ stunOver' \in BOOLEAN /\ ctxOver' \in BOOLEAN
                   /\ conn' \in {"open", "deadline", "closed"}
           Net == returned' \subseteq Mapped /\ answer' \in [Queries -> Mapped \cup {Bad, None}]
<1>0. /\ stunOver \in BOOLEAN /\ ctxOver \in BOOLEAN /\ conn \in {"open", "deadline", "closed"}
      /\ returned \subseteq Mapped /\ answer \in [Queries -> Mapped \cup {Bad, None}]
  BY DEF IInv, Shapes
<1>2. Small /\ Net
  <2>1. CASE StunTimeout \/ CtxEnds \/ CloseConn
    <3>1. Small
      BY <1>0, <2>1 DEF StunTimeout, CtxEnds, CloseConn, contexts
    <3>2. UNCHANGED <<returned, answer>>
      BY <2>1 DEF StunTimeout, CtxEnds, CloseConn, network
    <3> QED BY <1>0, <3>1, <3>2
  <2>2. CASE UNCHANGED vars
    BY <1>0, <2>2 DEF vars, network, contexts
  <2>3. ASSUME NEW q \in Queries, NEW a \in Mapped \cup {Bad}, Answers(q, a) PROVE Small /\ Net
    <3>1. UNCHANGED <<stunOver, ctxOver, conn, returned>> /\ answer' = [answer EXCEPT ![q] = a]
      BY <2>3 DEF Answers, contexts
    <3> QED BY <1>0, <3>1
  <2>4. ASSUME NEW a \in Mapped, ProbeReturns(a) PROVE Small /\ Net
    <3>1. UNCHANGED <<stunOver, ctxOver, conn, answer>> /\ returned' = returned \cup {a}
      BY <2>4 DEF ProbeReturns, contexts
    <3> QED BY <1>0, <3>1
  <2> QED BY <2>1, <2>2, <2>3, <2>4
<1>3. Shapes' /\ panicked' = FALSE /\ call' \in Calls
  BY <1>1, <1>2 DEF IInv, Shapes, goroutines
<1>4. Resolving' = Resolving /\ Querying' = Querying /\ Probing' = Probing
  BY <1>1 DEF Resolving, Querying, Probing, goroutines
<1>5. Counted'
  BY <1>1, <1>4, SameCount
<1>6. Rest'
  BY <1>1, <1>4 DEF IInv, Rest, Quiet, Unresolved, Held, ToldOnce, Told, Telling, ProbedOnce, MainTyped, goroutines
<1> QED BY <1>3, <1>5, <1>6 DEF IInv

-----------------------------------------------------------------------------
(* Requests.                                                               *)

\* A request goes on; it may come to be matched only from the start.
LEMMA RequestMoves ==
  ASSUME IInv, UNCHANGED call, NEW q \in Queries,
         Register(q) \/ Write(q) \/ WriteFails(q) \/ Resend(q) \/ Ended(q) \/ Forget(q)
  PROVE  IInv'
<1>1. UNCHANGED <<resolver, probe, waiter, answered, probed, wg, main, panicked, fallbackIP, result,
                  stunOver, ctxOver, conn, answer, returned, matched>>
  BY DEF Register, Write, WriteFails, Resend, Ended, Forget, shared, outcome, network, history, contexts
<1>2. \E there \in {"write", "wait", "leave", "forgotten"} :
        /\ query' = [query EXCEPT ![q] = there]
        /\ query[q] \in {"register", "write", "wait", "leave"}
        /\ pending' = IF query[q] = "register" THEN pending \cup {q}
                      ELSE IF query[q] = "leave" THEN pending \ {q} ELSE pending
        /\ query[q] = "leave" <=> there = "forgotten"
  BY DEF Register, Write, WriteFails, Resend, Ended, Forget, At, shared
<1>3. PICK there \in {"write", "wait", "leave", "forgotten"} :
        /\ query' = [query EXCEPT ![q] = there]
        /\ query[q] \in {"register", "write", "wait", "leave"}
        /\ pending' = IF query[q] = "register" THEN pending \cup {q}
                      ELSE IF query[q] = "leave" THEN pending \ {q} ELSE pending
        /\ query[q] = "leave" <=> there = "forgotten"
  BY <1>2
<1>4. sent' \subseteq Queries /\ errs' \in BOOLEAN
  BY DEF IInv, Shapes, Register, Write, WriteFails, Resend, Ended, Forget, network
<1>5. Shapes' /\ panicked' = FALSE /\ call' \in Calls
  BY <1>1, <1>3, <1>4 DEF IInv, Shapes
<1>6. Resolving' = Resolving /\ Querying' = Querying /\ Probing' = Probing
  BY <1>1, <1>3 DEF IInv, Shapes, Resolving, Querying, Probing
<1>7. Counted'
  BY <1>1, <1>6, SameCount
<1>8. Quiet' /\ ProbedOnce' /\ MainTyped'
  BY <1>1, <1>6 DEF IInv, Rest, Quiet, ProbedOnce, MainTyped, Telling
<1>9. Unresolved' /\ Held' /\ ToldOnce'
  BY <1>1, <1>3 DEF IInv, Rest, Shapes, Unresolved, Held, ToldOnce, Told, Telling
<1> QED BY <1>5, <1>7, <1>8, <1>9 DEF IInv, Rest

\* A request that ended gives its count back; it cannot be matched any more.
LEMMA RequestDone ==
  ASSUME IInv, UNCHANGED call, NEW q \in Queries, Done(q)
  PROVE  IInv'
<1>1. UNCHANGED <<resolver, probe, waiter, pending, answered, probed, contexts, conn, main, outcome, errs, network, history>>
  BY DEF Done
<1>2. query[q] = "forgotten" /\ query' = [query EXCEPT ![q] = "done"] /\ wg' = wg - 1
  BY DEF Done, At
<1>3. Shapes' /\ panicked' = FALSE /\ call' \in Calls
  BY <1>1, <1>2 DEF IInv, Shapes, contexts, outcome, network, history
<1>4. q \in Querying /\ Querying' = Querying \ {q} /\ Resolving' = Resolving /\ Probing' = Probing
  BY <1>1, <1>2 DEF IInv, Shapes, Resolving, Querying, Probing
<1>5. Cardinality(Querying \ {q}) = Cardinality(Querying) - 1
  BY <1>4, Sets, OneLess
<1>6. Counted'
  BY <1>2, <1>4, <1>5, Sets DEF IInv, Counted
<1>7. Quiet' /\ ProbedOnce' /\ MainTyped'
  BY <1>1, <1>4 DEF IInv, Rest, Quiet, ProbedOnce, MainTyped, Telling
<1>8. Unresolved' /\ Held' /\ ToldOnce'
  BY <1>1, <1>2 DEF IInv, Rest, Shapes, Unresolved, Held, ToldOnce, Told, Telling
<1> QED BY <1>3, <1>6, <1>7, <1>8 DEF IInv, Rest

-----------------------------------------------------------------------------
(* Resolvers.                                                              *)

LEMMA ResolverEnds ==
  ASSUME IInv, UNCHANGED call, NEW s \in Servers, ResolveFails(s)
  PROVE  IInv'
<1>1. UNCHANGED <<query, probe, waiter, pending, answered, probed, contexts, conn, main, outcome, network, history>>
  BY DEF ResolveFails
<1>2. resolver[s] = "run" /\ resolver' = [resolver EXCEPT ![s] = "done"] /\ wg' = wg - 1 /\ errs' = TRUE
  BY DEF ResolveFails
<1>3. Shapes' /\ panicked' = FALSE /\ call' \in Calls
  BY <1>1, <1>2 DEF IInv, Shapes, contexts, outcome, network, history
<1>4. s \in Resolving /\ Resolving' = Resolving \ {s} /\ Querying' = Querying /\ Probing' = Probing
  BY <1>1, <1>2 DEF IInv, Shapes, Resolving, Querying, Probing
<1>5. Cardinality(Resolving \ {s}) = Cardinality(Resolving) - 1
  BY <1>4, Sets, OneLess
<1>6. Counted'
  BY <1>2, <1>4, <1>5, Sets DEF IInv, Counted
<1>7. Quiet' /\ ProbedOnce' /\ MainTyped' /\ Held' /\ ToldOnce'
  BY <1>1, <1>4 DEF IInv, Rest, Quiet, ProbedOnce, MainTyped, Telling, Held, ToldOnce, Told
<1>8. Unresolved'
  BY <1>1, <1>2 DEF IInv, Rest, Shapes, Unresolved, Queries
<1> QED BY <1>3, <1>6, <1>7, <1>8 DEF IInv, Rest

\* As many requests start as addresses were found.
LEMMA RequestsStart ==
  ASSUME NEW s \in Servers, NEW found \in SUBSET {4, 6}, NEW B \in SUBSET Queries,
         B \cap ({s} \X found) = {}
  PROVE  Cardinality(B \cup ({s} \X found)) = Cardinality(B) + Cardinality(found)
<1>1. IsFiniteSet({s}) /\ Cardinality({s}) = 1
  BY FS_Singleton
<1>2. IsFiniteSet(found) /\ Cardinality(found) \in Nat
  BY FamiliesFinite, FS_Subset, FS_CardinalityType
<1>3. IsFiniteSet({s} \X found) /\ Cardinality({s} \X found) = 1 * Cardinality(found)
  BY <1>1, <1>2, FS_Product
<1>4. IsFiniteSet(B) /\ Cardinality(B) \in Nat
  BY SetsFinite, FS_Subset, FS_CardinalityType
<1>5. Cardinality(B \cup ({s} \X found)) = Cardinality(B) + Cardinality({s} \X found) - Cardinality({})
  BY <1>3, <1>4, FS_Union
<1> QED BY <1>2, <1>3, <1>4, <1>5, FS_EmptySet

LEMMA ResolverStarts ==
  ASSUME IInv, UNCHANGED call, NEW s \in Servers, NEW found \in SUBSET {4, 6}, Resolve(s, found)
  PROVE  IInv'
<1>1. UNCHANGED <<probe, waiter, pending, answered, probed, contexts, conn, main, outcome, errs, network, history>>
  BY DEF Resolve
<1>2. /\ resolver[s] = "run" /\ resolver' = [resolver EXCEPT ![s] = "done"]
      /\ query' = [q \in Queries |-> IF q[1] = s /\ q[2] \in found THEN "register" ELSE query[q]]
      /\ wg' = wg + Cardinality(found) - 1
  BY DEF Resolve
<1>3. Shapes' /\ panicked' = FALSE /\ call' \in Calls
  BY <1>1, <1>2 DEF IInv, Shapes, contexts, outcome, network, history
<1>4. \A q \in Queries : q \in {s} \X found <=> q[1] = s /\ q[2] \in found
  BY DEF Queries
<1>5. {s} \X found \in SUBSET Queries
  BY DEF Queries
<1>6. \A q \in Queries : q[1] = s => query[q] = "none"
  BY <1>2 DEF IInv, Rest, Unresolved
<1>7. s \in Resolving /\ Resolving' = Resolving \ {s} /\ Probing' = Probing
  BY <1>1, <1>2 DEF IInv, Shapes, Resolving, Probing
<1>8. Querying \cap ({s} \X found) = {} /\ Querying' = Querying \cup ({s} \X found)
  BY <1>2, <1>4, <1>5, <1>6 DEF Querying
<1>9. /\ Cardinality(Resolving') = Cardinality(Resolving) - 1
      /\ Cardinality(Querying') = Cardinality(Querying) + Cardinality(found)
  BY <1>7, <1>8, Sets, OneLess, RequestsStart
<1>10. Cardinality(found) \in Nat
  BY FamiliesFinite, FS_Subset, FS_CardinalityType
<1>11. Counted'
  BY <1>2, <1>7, <1>9, <1>10, Sets DEF IInv, Counted
<1>12. Quiet' /\ ProbedOnce' /\ MainTyped'
  BY <1>1, <1>7, <1>2 DEF IInv, Rest, Quiet, ProbedOnce, MainTyped, Telling
<1>13. Unresolved'
  BY <1>2 DEF IInv, Rest, Shapes, Unresolved, Queries
<1>14. Held' /\ ToldOnce'
  BY <1>1, <1>2, <1>6 DEF IInv, Rest, Shapes, Held, ToldOnce, Told, Telling
<1> QED BY <1>3, <1>11, <1>12, <1>13, <1>14 DEF IInv, Rest

-----------------------------------------------------------------------------
(* Probes, and the goroutine that waits.                                   *)

LEMMA ProbeRuns ==
  ASSUME IInv, UNCHANGED call, NEW a \in Mapped, SendProbe(a)
  PROVE  IInv'
<1>1. UNCHANGED <<resolver, query, waiter, pending, answered, probed, wg, contexts, conn, main, outcome, errs, network, history>>
  BY DEF SendProbe, shared
<1>2. probe[a] = "send" /\ probe' = [probe EXCEPT ![a] = "wait"]
  BY DEF SendProbe, ProbeAt
<1>3. Shapes' /\ panicked' = FALSE /\ call' \in Calls
  BY <1>1, <1>2 DEF IInv, Shapes, contexts, outcome, network, history
<1>4. Resolving' = Resolving /\ Querying' = Querying /\ Probing' = Probing
  BY <1>1, <1>2 DEF IInv, Shapes, Resolving, Querying, Probing
<1>5. Counted'
  BY <1>1, <1>4, SameCount
<1>6. Quiet' /\ Unresolved' /\ Held' /\ ToldOnce' /\ MainTyped'
  BY <1>1, <1>4 DEF IInv, Rest, Quiet, Unresolved, Held, ToldOnce, Told, Telling, MainTyped
<1>7. ProbedOnce'
  BY <1>1, <1>2 DEF IInv, Rest, Shapes, ProbedOnce
<1> QED BY <1>3, <1>5, <1>6, <1>7 DEF IInv, Rest

LEMMA ProbeEnds ==
  ASSUME IInv, UNCHANGED call, NEW a \in Mapped, ProbeFails(a) \/ ProbeCancelled(a)
  PROVE  IInv'
<1>1. UNCHANGED <<resolver, query, waiter, pending, answered, probed, contexts, conn, main, outcome, network, history>>
  BY DEF ProbeFails, ProbeCancelled
<1>2. /\ probe[a] \in {"send", "wait"} /\ probe' = [probe EXCEPT ![a] = "done"]
      /\ wg' = wg - 1 /\ errs' \in BOOLEAN
  BY DEF IInv, Shapes, ProbeFails, ProbeCancelled, ProbeAt
<1>3. Shapes' /\ panicked' = FALSE /\ call' \in Calls
  BY <1>1, <1>2 DEF IInv, Shapes, contexts, outcome, network, history
<1>4. ~(main.probes /\ main.ip = a)
  BY <1>2 DEF IInv, Rest, ProbedOnce
<1>5. a \in Probing /\ Probing' = Probing \ {a} /\ Resolving' = Resolving /\ Querying' = Querying
  BY <1>1, <1>2, <1>4 DEF IInv, Shapes, Resolving, Querying, Probing
<1>6. Cardinality(Probing \ {a}) = Cardinality(Probing) - 1
  BY <1>5, Sets, OneLess
<1>7. Counted'
  BY <1>2, <1>5, <1>6, Sets DEF IInv, Counted
<1>8. Quiet' /\ Unresolved' /\ Held' /\ ToldOnce' /\ MainTyped'
  BY <1>1, <1>5 DEF IInv, Rest, Quiet, Unresolved, Held, ToldOnce, Told, Telling, MainTyped
<1>9. ProbedOnce'
  BY <1>1, <1>2, <1>4 DEF IInv, Rest, Shapes, ProbedOnce
<1> QED BY <1>3, <1>7, <1>8, <1>9 DEF IInv, Rest

\* Wait returns when the count is zero: nobody is left.
LEMMA WaiterMoves ==
  ASSUME IInv, UNCHANGED call, Wait \/ Wake
  PROVE  IInv'
<1>1. UNCHANGED <<resolver, query, probe, pending, answered, probed, wg, contexts, main, outcome, errs, network, history>>
  BY DEF Wait, Wake, shared
<1>2. waiter' \in {"wake", "done"} /\ conn' \in {"open", "deadline", "closed"}
  BY DEF IInv, Shapes, Wait, Wake
<1>3. Shapes' /\ panicked' = FALSE /\ call' \in Calls
  BY <1>1, <1>2 DEF IInv, Shapes, contexts, outcome, network, history
<1>4. Resolving' = Resolving /\ Querying' = Querying /\ Probing' = Probing
  BY <1>1 DEF Resolving, Querying, Probing
<1>5. Counted'
  BY <1>1, <1>4, SameCount
<1>6. Resolving = {} /\ Querying = {} /\ Probing = {}
  <2>1. CASE Wait
    <3>1. Cardinality(Resolving) + Cardinality(Querying) + Cardinality(Probing) = 0
      BY <2>1 DEF Wait, IInv, Counted
    <3> QED BY <3>1, Sets, SumTyped
  <2>2. CASE Wake
    BY <2>2 DEF Wake, IInv, Rest, Quiet
  <2> QED BY <2>1, <2>2
<1>7. Quiet'
  BY <1>4, <1>6 DEF Quiet
<1>8. Unresolved' /\ Held' /\ ToldOnce' /\ MainTyped' /\ ProbedOnce'
  BY <1>1 DEF IInv, Rest, Unresolved, Held, ToldOnce, Told, Telling, MainTyped, ProbedOnce
<1> QED BY <1>3, <1>5, <1>7, <1>8 DEF IInv, Rest

-----------------------------------------------------------------------------
(* The read loop.                                                          *)

\* What a return leaves of the answer at hand.
LEMMA IdleIs ==
  /\ Idle.at = "read" /\ Idle.id = Foreign /\ Idle.ip = None /\ Idle.ok = FALSE /\ Idle.probes = FALSE
  /\ \A ip : Return(ip) =>
       /\ main'.at = "done" /\ main'.ok = FALSE /\ main'.probes = FALSE
       /\ result' = ip /\ stunOver' = TRUE /\ ctxOver' = TRUE /\ conn' = "closed"
  BY DEF Idle, Return

LEMMA ReadReturns ==
  ASSUME IInv, UNCHANGED call, ReadFails \/ \E a \in Mapped : ReadProbe(a)
  PROVE  IInv'
<1>1. UNCHANGED <<goroutines, shared, fallbackIP, network, history>> /\ main.at = "read"
  BY DEF ReadFails, ReadProbe
<1>2. PICK ip \in Mapped \cup {None} : Return(ip)
  BY DEF ReadFails, ReadProbe, IInv, Shapes
<1>3. /\ main'.at = "done" /\ main'.ok = FALSE /\ main'.probes = FALSE
      /\ result' = ip /\ stunOver' = TRUE /\ ctxOver' = TRUE /\ conn' = "closed"
  BY <1>2, IdleIs
<1>4. errs' \in BOOLEAN
  BY DEF ReadFails, ReadProbe, IInv, Shapes
<1>5. Shapes' /\ panicked' = FALSE /\ call' \in Calls
  BY <1>1, <1>3, <1>4 DEF IInv, Shapes, goroutines, shared, network, history
<1>6. ~main.probes
  BY <1>1 DEF IInv, Rest, MainTyped, Telling
<1>7. Resolving' = Resolving /\ Querying' = Querying /\ Probing' = Probing
  BY <1>1, <1>3, <1>6 DEF Resolving, Querying, Probing, goroutines
<1>8. Counted'
  BY <1>1, <1>7, SameCount DEF shared
<1>9. Quiet' /\ Unresolved' /\ Held' /\ ToldOnce' /\ MainTyped' /\ ProbedOnce'
  BY <1>1, <1>3, <1>7 DEF IInv, Rest, Quiet, Unresolved, Held, ToldOnce, Told, Telling, MainTyped, ProbedOnce, goroutines, shared
<1> QED BY <1>5, <1>8, <1>9 DEF IInv, Rest

\* A datagram that nobody waits for, or a request that is taken out.  The probe's
\* count is taken while that of the request is held.
LEMMA MatchKeeps ==
  ASSUME IInv, UNCHANGED call, NEW id \in Queries \cup {Foreign}, NEW a \in Mapped \cup {Bad}, Match(id, a)
  PROVE  IInv'
<1>1. UNCHANGED <<goroutines, answered, contexts, conn, outcome, errs, network, panicked>> /\ main.at = "read"
  BY DEF Match
<1>2. ~main.probes /\ pending \subseteq Queries
  BY <1>1 DEF IInv, Rest, MainTyped, Telling, Shapes
<1>3. CASE id \notin pending
  <2>1. pending' = pending /\ probed' = probed /\ wg' = wg /\ main' = main /\ matched' = matched
    BY <1>3 DEF Match, StartsProbe, Known
  <2>2. Shapes' /\ panicked' = FALSE /\ call' \in Calls
    BY <1>1, <2>1 DEF IInv, Shapes, goroutines, contexts, outcome, network
  <2>3. Resolving' = Resolving /\ Querying' = Querying /\ Probing' = Probing
    BY <1>1, <2>1 DEF Resolving, Querying, Probing, goroutines
  <2>4. Counted'
    BY <2>1, <2>3, SameCount
  <2>5. Quiet' /\ Unresolved' /\ Held' /\ ToldOnce' /\ MainTyped' /\ ProbedOnce'
    BY <1>1, <2>1, <2>3 DEF IInv, Rest, Quiet, Unresolved, Held, ToldOnce, Told, Telling, MainTyped, ProbedOnce, goroutines
  <2> QED BY <2>2, <2>4, <2>5 DEF IInv, Rest
<1>4. CASE id \in pending
  <2>1. id \in Queries /\ query[id] \in {"write", "wait", "leave"} /\ id \notin answered
    BY <1>2, <1>4 DEF IInv, Rest, Held, ToldOnce, Told
  <2>2. /\ pending' = pending \ {id} /\ matched' = matched \cup {a}
        /\ main'.at = "matched" /\ main'.id = id /\ main'.ip = a
        /\ main'.ok = (a # Bad) /\ main'.probes = StartsProbe(id, a)
    BY <1>4 DEF Match, Known
  <2>3. waiter = "wait"
    <3>1. id \in Querying
      BY <2>1 DEF Querying
    <3> QED BY <3>1 DEF IInv, Rest, Quiet
  <2>4. Resolving' = Resolving /\ Querying' = Querying
    BY <1>1 DEF Resolving, Querying, goroutines
  <2>5. main'.ok \in BOOLEAN /\ main'.probes \in BOOLEAN
    BY <2>2 DEF StartsProbe, Known
  <2>6. Quiet' /\ Unresolved' /\ Held'
    BY <1>1, <2>2, <2>3 DEF IInv, Rest, Quiet, Unresolved, Held, goroutines
  <2>7. ToldOnce'
    BY <1>1, <2>1, <2>2 DEF IInv, Rest, ToldOnce, Told, Telling, goroutines
  <2>8. CASE StartsProbe(id, a)
    <3>1. a \in Mapped /\ a \notin probed /\ probed' = probed \cup {a} /\ wg' = wg + 1 /\ main'.probes /\ main'.ok
      BY <2>2, <2>8 DEF Match, StartsProbe
    <3>2. probe[a] = "none"
      BY <3>1 DEF IInv, Rest, ProbedOnce
    <3>3. a \notin Probing /\ Probing' = Probing \cup {a}
      BY <1>1, <1>2, <2>2, <3>1, <3>2 DEF Probing, goroutines
    <3>4. Cardinality(Probing \cup {a}) = Cardinality(Probing) + 1
      BY <3>3, Sets, FS_AddElement
    <3>5. Counted'
      BY <2>4, <3>1, <3>3, <3>4, Sets DEF IInv, Counted
    <3>6. Shapes' /\ panicked' = FALSE /\ call' \in Calls
      BY <1>1, <2>2, <3>1 DEF IInv, Shapes, goroutines, contexts, outcome, network
    <3>7. MainTyped'
      BY <2>1, <2>2, <2>5, <3>1 DEF MainTyped, Telling
    <3>8. ProbedOnce'
      BY <1>1, <2>2, <3>1, <3>2 DEF IInv, Rest, ProbedOnce, goroutines
    <3> QED BY <2>6, <2>7, <3>5, <3>6, <3>7, <3>8 DEF IInv, Rest
  <2>9. CASE ~StartsProbe(id, a)
    <3>1. probed' = probed /\ wg' = wg /\ ~main'.probes
      BY <2>2, <2>9 DEF Match
    <3>2. Probing' = Probing
      BY <1>1, <1>2, <3>1 DEF Probing, goroutines
    <3>3. Counted'
      BY <2>4, <3>1, <3>2, SameCount
    <3>4. Shapes' /\ panicked' = FALSE /\ call' \in Calls
      BY <1>1, <2>2, <3>1 DEF IInv, Shapes, goroutines, contexts, outcome, network
    <3>5. MainTyped'
      BY <2>1, <2>2, <2>5, <3>1 DEF MainTyped, Telling
    <3>6. ProbedOnce'
      BY <1>1, <2>2, <3>1 DEF IInv, Rest, ProbedOnce, goroutines
    <3> QED BY <2>6, <2>7, <3>3, <3>4, <3>5, <3>6 DEF IInv, Rest
  <2> QED BY <2>8, <2>9
<1> QED BY <1>3, <1>4

\* A request that is told was not told before, and a probe that starts has its count.
LEMMA MatchedKeeps ==
  ASSUME IInv, UNCHANGED call, Matched
  PROVE  IInv'
<1>1. /\ UNCHANGED <<resolver, query, waiter, pending, probed, wg, network, matched>>
      /\ main.at = "matched" /\ answered' = answered \cup {main.id}
      /\ panicked' = (panicked \/ main.id \in answered)
      /\ probe' = IF main.probes THEN [probe EXCEPT ![main.ip] = "send"] ELSE probe
      /\ errs' = (errs \/ ~main.ok)
  BY DEF Matched
<1>2. main.id \in Queries /\ main.id \notin answered /\ (main.ok => main.ip \in Mapped)
  BY <1>1 DEF IInv, Rest, MainTyped, ToldOnce, Telling
<1>3. main.probes => main.ip \in Mapped /\ main.ip \in probed /\ probe[main.ip] = "none"
  BY DEF IInv, Rest, MainTyped, ProbedOnce
<1>4. /\ main'.at \in {"read", "done"} /\ main'.ok = FALSE /\ main'.probes = FALSE
      /\ fallbackIP' \in Mapped \cup {None} /\ result' \in Mapped \cup {None}
      /\ stunOver' \in BOOLEAN /\ ctxOver' \in BOOLEAN /\ conn' \in {"open", "deadline", "closed"}
  <2>1. CASE (~main.ok \/ Validate) /\ main' = Idle /\ UNCHANGED <<contexts, conn, outcome>>
    BY <2>1, IdleIs DEF IInv, Shapes, contexts, outcome
  <2>2. CASE /\ main.ok /\ main' = Idle /\ UNCHANGED <<contexts, conn, result>>
             /\ fallbackIP' = IF fallbackIP = None THEN main.ip ELSE fallbackIP
    BY <1>2, <2>2, IdleIs DEF IInv, Shapes, contexts
  <2>3. CASE main.ok /\ Return(main.ip) /\ UNCHANGED fallbackIP
    <3>1. /\ main'.at = "done" /\ main'.ok = FALSE /\ main'.probes = FALSE
          /\ result' = main.ip /\ stunOver' = TRUE /\ ctxOver' = TRUE /\ conn' = "closed"
      BY <2>3, IdleIs
    <3>2. main.ip \in Mapped /\ fallbackIP' = fallbackIP /\ fallbackIP \in Mapped \cup {None}
      BY <1>2, <2>3 DEF IInv, Shapes
    <3> QED BY <3>1, <3>2
  <2> QED BY <2>1, <2>2, <2>3 DEF Matched
<1>5. panicked' = FALSE /\ errs' \in BOOLEAN
  BY <1>1, <1>2 DEF IInv, Shapes
<1>6. probe' \in [Mapped -> {"none", "send", "wait", "done"}]
  BY <1>1, <1>3 DEF IInv, Shapes
<1>7. Shapes' /\ call' \in Calls
  BY <1>1, <1>2, <1>4, <1>5, <1>6 DEF IInv, Shapes, network
<1>8. Resolving' = Resolving /\ Querying' = Querying
  BY <1>1 DEF Resolving, Querying
<1>9. Probing' = Probing
  BY <1>1, <1>3, <1>4 DEF IInv, Shapes, Probing
<1>10. Counted'
  BY <1>1, <1>8, <1>9, SameCount
<1>11. Quiet' /\ Unresolved' /\ Held' /\ MainTyped'
  BY <1>1, <1>4, <1>8, <1>9 DEF IInv, Rest, Quiet, Unresolved, Held, MainTyped, Telling
<1>12. ToldOnce'
  BY <1>1, <1>2, <1>4 DEF IInv, Rest, ToldOnce, Told, Telling
<1>13. ProbedOnce'
  BY <1>1, <1>3, <1>4 DEF IInv, Rest, Shapes, ProbedOnce
<1> QED BY <1>5, <1>7, <1>10, <1>11, <1>12, <1>13 DEF IInv, Rest

-----------------------------------------------------------------------------
LEMMA InitHolds == Init => IInv
<1> SUFFICES ASSUME Init PROVE IInv
  OBVIOUS
<1>1. call \in Calls /\ call.servers \in SUBSET Servers
  BY LookupAssumption DEF Init
<1>2. main.at = "read" /\ main.ok = FALSE /\ main.probes = FALSE
  BY IdleIs DEF Init
<1>3. Shapes /\ panicked = FALSE
  BY DEF Init, Shapes
<1>4. Resolving = call.servers /\ Querying = {} /\ Probing = {}
  BY <1>1, <1>2 DEF Init, Resolving, Querying, Probing
<1>5. wg = Cardinality(call.servers) /\ Cardinality(call.servers) \in Nat /\ Cardinality({}) = 0
  BY <1>1, SetsFinite, FS_Subset, FS_CardinalityType, FS_EmptySet DEF Init
<1>6. Counted
  BY <1>4, <1>5 DEF Counted
<1>7. Rest
  BY <1>2, <1>3 DEF Init, Shapes, Rest, Quiet, Unresolved, Held, ToldOnce, Told, Telling, MainTyped, ProbedOnce
<1> QED BY <1>1, <1>3, <1>6, <1>7 DEF IInv

LEMMA NextKeeps ==
  ASSUME IInv, [Next /\ UNCHANGED call]_<<vars, call>>
  PROVE  IInv'
<1>1. UNCHANGED call
  OBVIOUS
<1>2. ASSUME NEW s \in Servers, NEW found \in SUBSET call.families \ {{}}, Resolve(s, found) PROVE IInv'
  <2>1. found \in SUBSET {4, 6}
    BY LookupAssumption DEF IInv
  <2> QED BY <1>1, <1>2, <2>1, ResolverStarts
<1>3. ASSUME NEW s \in Servers, ResolveFails(s) PROVE IInv'
  BY <1>1, <1>3, ResolverEnds
<1>4. ASSUME NEW q \in Queries, Request(q) \/ Resend(q) PROVE IInv'
  BY <1>1, <1>4, RequestMoves, RequestDone DEF Request
<1>5. ASSUME NEW a \in Mapped, SendProbe(a) \/ ProbeFails(a) \/ ProbeCancelled(a) PROVE IInv'
  BY <1>1, <1>5, ProbeRuns, ProbeEnds
<1>6. CASE Wait \/ Wake
  BY <1>1, <1>6, WaiterMoves
<1>7. CASE \/ StunTimeout \/ CtxEnds \/ CloseConn \/ UNCHANGED vars
           \/ \E q \in Queries, a \in Mapped \cup {Bad} : Answers(q, a)
           \/ \E a \in Mapped : ProbeReturns(a)
  BY <1>1, <1>7, TimersKeep
<1>8. CASE Main
  <2>1. CASE ReadFails \/ \E a \in Mapped : ReadProbe(a)
    BY <1>1, <2>1, ReadReturns
  <2>2. CASE Matched
    BY <1>1, <2>2, MatchedKeeps
  <2>3. ASSUME NEW a \in Mapped, Match(Foreign, a) PROVE IInv'
    BY <1>1, <2>3, MatchKeeps
  <2>4. ASSUME NEW q \in Queries, answer[q] # None, Match(q, answer[q]) PROVE IInv'
    <3>1. answer[q] \in Mapped \cup {Bad}
      BY <2>4 DEF IInv, Shapes
    <3> QED BY <1>1, <2>4, <3>1, MatchKeeps
  <2> QED BY <1>8, <2>1, <2>2, <2>3, <2>4 DEF Main
<1> QED BY <1>2, <1>3, <1>4, <1>5, <1>6, <1>7, <1>8 DEF Next

LEMMA IInvHolds == Spec => []IInv
<1>1. IInv /\ [Next /\ UNCHANGED call]_<<vars, call>> => IInv'
  BY NextKeeps
<1> QED BY <1>1, InitHolds, PTL DEF Spec

\* "The count is above zero and Wait has not returned" while a request can be matched:
\* once Wait has returned nothing runs or is about to, and no done channel is closed
\* twice, for any number of servers and addresses and any losses, repetitions,
\* timeouts and cancellations (ip.go:392-405).
THEOREM WaitIsSafe == Spec => []NothingAfterWait
BY IInvHolds, InvImplies, PTL

-----------------------------------------------------------------------------
(* Where a result comes from.                                              *)

\* A probe is of an address that was matched, and what is kept as a fallback was
\* matched too; between a match and its end at most one probe waits to start.
Explained ==
  /\ probed \subseteq matched
  /\ \A a \in probed : probe[a] # "none" \/ (main.probes /\ main.ip = a)
  /\ Telling => main.ip \in matched /\ (main.ok <=> main.ip # Bad)
  /\ fallbackIP # None => fallbackIP \in matched /\ ~Validate
  /\ returned # {} => Validate

\* Who ends the reading: the goroutine that waits for everyone, or a context.
Awaited == (conn = "deadline" => waiter = "done") /\ (conn = "closed" => ctxOver)

\* While IPv4 is preferred no IPv4 address was matched, but for one that is about to
\* be returned.
OnlyIPv6 ==
  PreferIPv4 /\ ~Validate /\ ~Returned =>
    \A a \in matched \ {Bad} : FamilyOf[a] = 6 \/ (Telling /\ main.ip = a)

ResultInv == Explained /\ Awaited /\ OnlyIPv6 /\ ResultIsMatched

\* Nothing but a read, the telling of a request and a return disturbs ResultInv.
LEMMA OthersKeep ==
  ASSUME IInv, ResultInv, call' = call,
         probed' = probed, matched' = matched, main' = main, fallbackIP' = fallbackIP, result' = result,
         returned \subseteq returned', returned' = returned \/ Validate,
         errs => errs',
         \A a \in Mapped : probe[a] # "none" => probe'[a] # "none",
         Awaited'
  PROVE  ResultInv'
<1>1. probed \subseteq Mapped /\ result \in Mapped \cup {None}
  BY DEF IInv, Shapes
<1>2. Explained'
  BY <1>1 DEF ResultInv, Explained, Telling, Validate
<1>3. OnlyIPv6'
  BY DEF ResultInv, OnlyIPv6, Telling, Validate, PreferIPv4, Returned
<1>4. ResultIsMatched'
  BY <1>1 DEF ResultInv, ResultIsMatched, Validate, Returned
<1> QED BY <1>2, <1>3, <1>4 DEF ResultInv

LEMMA GoroutinesKeep ==
  ASSUME IInv, ResultInv, call' = call,
         \/ \E s \in Servers : ResolveFails(s) \/ \E found \in SUBSET call.families \ {{}} : Resolve(s, found)
         \/ \E q \in Queries : Request(q) \/ Resend(q)
         \/ \E a \in Mapped : SendProbe(a) \/ ProbeFails(a) \/ ProbeCancelled(a)
  PROVE  ResultInv'
<1>1. /\ UNCHANGED <<probed, matched, main, fallbackIP, result, returned, conn, waiter, ctxOver>>
      /\ errs => errs'
  <2>1. CASE \E s \in Servers : ResolveFails(s) \/ \E found \in SUBSET call.families \ {{}} : Resolve(s, found)
    BY <2>1 DEF ResolveFails, Resolve, contexts, outcome, network, history
  <2>2. CASE \E q \in Queries : Request(q) \/ Resend(q)
    BY <2>2 DEF Request, Resend, Register, Write, WriteFails, Ended, Forget, Done,
                shared, contexts, outcome, network, history
  <2>3. CASE \E a \in Mapped : SendProbe(a) \/ ProbeFails(a) \/ ProbeCancelled(a)
    BY <2>3 DEF SendProbe, ProbeFails, ProbeCancelled, shared, contexts, outcome, network, history
  <2> QED BY <2>1, <2>2, <2>3
<1>2. \A a \in Mapped : probe[a] # "none" => probe'[a] # "none"
  <2>1. CASE \/ \E s \in Servers : ResolveFails(s) \/ \E found \in SUBSET call.families \ {{}} : Resolve(s, found)
             \/ \E q \in Queries : Request(q) \/ Resend(q)
    <3>1. probe' = probe
      BY <2>1 DEF ResolveFails, Resolve, Request, Resend, Register, Write, WriteFails, Ended, Forget, Done
    <3> QED BY <3>1
  <2>2. ASSUME NEW a \in Mapped, SendProbe(a) \/ ProbeFails(a) \/ ProbeCancelled(a)
        PROVE  \A b \in Mapped : probe[b] # "none" => probe'[b] # "none"
    <3>1. probe' = [probe EXCEPT ![a] = "wait"] \/ probe' = [probe EXCEPT ![a] = "done"]
      BY <2>2 DEF SendProbe, ProbeFails, ProbeCancelled, ProbeAt
    <3> QED BY <3>1 DEF IInv, Shapes
  <2> QED BY <2>1, <2>2
<1>3. Awaited'
  BY <1>1 DEF ResultInv, Awaited
<1> QED BY <1>1, <1>2, <1>3, OthersKeep

LEMMA EndingsKeep ==
  ASSUME IInv, ResultInv, call' = call,
         \/ Wait \/ Wake \/ StunTimeout \/ CtxEnds \/ CloseConn \/ UNCHANGED vars
         \/ \E q \in Queries, a \in Mapped \cup {Bad} : Answers(q, a)
         \/ \E a \in Mapped : ProbeReturns(a)
  PROVE  ResultInv'
<1>1. /\ UNCHANGED <<probe, probed, matched, main, fallbackIP, result, errs>>
      /\ returned \subseteq returned' /\ (returned' = returned \/ Validate)
  BY DEF Wait, Wake, StunTimeout, CtxEnds, CloseConn, Answers, ProbeReturns, vars,
         goroutines, shared, contexts, outcome, network, history
<1>2. Awaited'
  <2>1. CASE Wait
    BY <2>1 DEF Wait, ResultInv, Awaited, contexts
  <2>2. CASE Wake
    BY <2>2 DEF Wake, ResultInv, Awaited, contexts
  <2>3. CASE CtxEnds \/ CloseConn
    BY <2>3 DEF CtxEnds, CloseConn, ResultInv, Awaited, contexts, goroutines
  <2>4. CASE \/ StunTimeout \/ UNCHANGED vars
             \/ \E q \in Queries, a \in Mapped \cup {Bad} : Answers(q, a)
             \/ \E a \in Mapped : ProbeReturns(a)
    BY <2>4 DEF StunTimeout, Answers, ProbeReturns, vars, ResultInv, Awaited, contexts, goroutines
  <2> QED BY <2>1, <2>2, <2>3, <2>4
<1> QED BY <1>1, <1>2, OthersKeep

\* A return of a probed address, of the fallback, or of nothing.
LEMMA ReadKeeps ==
  ASSUME IInv, ResultInv, call' = call, ReadFails \/ \E a \in Mapped : ReadProbe(a)
  PROVE  ResultInv'
<1>1. UNCHANGED <<goroutines, shared, fallbackIP, network, history>> /\ main.at = "read"
  BY DEF ReadFails, ReadProbe
<1>2. ~main.probes
  BY <1>1 DEF IInv, Rest, MainTyped, Telling
<1>3. errs => errs'
  BY DEF ReadFails, ReadProbe
<1>4. PICK ip \in Mapped \cup {None} :
        /\ Return(ip)
        /\ \/ ip = fallbackIP /\ (ip = None => errs')
           \/ ip \in returned /\ ip \in probed
  <2>1. CASE ReadFails
    <3>1. fallbackIP \in Mapped \cup {None}
      BY DEF IInv, Shapes
    <3> QED BY <2>1, <3>1 DEF ReadFails
  <2>2. ASSUME NEW a \in Mapped, ReadProbe(a)
        PROVE  Return(a) /\ a \in returned /\ a \in probed
    BY <2>2 DEF ReadProbe, CameBack
  <2> QED BY <2>1, <2>2
<1>5. /\ main'.at = "done" /\ main'.ok = FALSE /\ main'.probes = FALSE
      /\ result' = ip /\ ctxOver' = TRUE /\ conn' = "closed"
  BY <1>4, IdleIs
<1>6. Explained'
  BY <1>1, <1>2, <1>5 DEF ResultInv, Explained, Telling, Validate, goroutines, shared, network, history
<1>7. Awaited' /\ OnlyIPv6'
  BY <1>5 DEF Awaited, OnlyIPv6, Returned
<1>8. ResultIsMatched'
  <2>1. CASE ip = None
    <3>1. ip \notin probed
      BY <2>1, LookupAssumption DEF IInv, Shapes
    <3> QED BY <1>4, <1>5, <2>1, <3>1 DEF ResultIsMatched
  <2>2. CASE ip # None /\ ip = fallbackIP
    BY <1>1, <1>5, <2>2 DEF ResultIsMatched, ResultInv, Explained, Validate, history
  <2>3. CASE ip # None /\ ip \in returned /\ ip \in probed
    BY <1>1, <1>2, <1>5, <2>3 DEF ResultIsMatched, ResultInv, Explained, Validate, history, network, goroutines
  <2> QED BY <1>4, <2>1, <2>2, <2>3
<1> QED BY <1>6, <1>7, <1>8 DEF ResultInv

LEMMA MatchExplains ==
  ASSUME IInv, ResultInv, call' = call, NEW id \in Queries \cup {Foreign}, NEW a \in Mapped \cup {Bad}, Match(id, a)
  PROVE  ResultInv'
<1>1. UNCHANGED <<goroutines, contexts, conn, outcome, errs, network>> /\ main.at = "read"
  BY DEF Match
<1>2. ~main.probes /\ ~Telling
  BY <1>1 DEF IInv, Rest, MainTyped, Telling
<1>3. CASE id \notin pending
  <2>1. probed' = probed /\ main' = main /\ matched' = matched
    BY <1>3 DEF Match, StartsProbe, Known
  <2>2. Awaited'
    BY <1>1 DEF ResultInv, Awaited, goroutines, contexts
  <2> QED BY <1>1, <2>1, <2>2, OthersKeep DEF goroutines, contexts, outcome, network
<1>4. CASE id \in pending
  <2>1. /\ matched' = matched \cup {a} /\ main'.at = "matched" /\ main'.ip = a
        /\ main'.ok = (a # Bad) /\ main'.probes = StartsProbe(id, a)
        /\ probed' = IF StartsProbe(id, a) THEN probed \cup {a} ELSE probed
    BY <1>4 DEF Match, Known
  <2>2. Explained'
    BY <1>1, <1>2, <2>1 DEF ResultInv, Explained, Telling, Validate, goroutines, outcome, network
  <2>3. Awaited'
    BY <1>1 DEF ResultInv, Awaited, goroutines, contexts
  <2>4. OnlyIPv6'
    BY <1>1, <1>2, <2>1 DEF ResultInv, OnlyIPv6, Telling, Validate, PreferIPv4, Returned
  <2>5. ResultIsMatched'
    BY <2>1 DEF ResultIsMatched, Returned
  <2> QED BY <2>2, <2>3, <2>4, <2>5 DEF ResultInv
<1> QED BY <1>3, <1>4

LEMMA MatchedExplains ==
  ASSUME IInv, ResultInv, call' = call, Matched
  PROVE  ResultInv'
<1> DEFINE a == main.ip
<1>1. /\ UNCHANGED <<waiter, probed, network, matched>> /\ main.at = "matched"
      /\ probe' = IF main.probes THEN [probe EXCEPT ![a] = "send"] ELSE probe
      /\ errs => errs'
  BY DEF Matched
<1>2. /\ a \in matched /\ (main.ok <=> a # Bad) /\ (main.ok => a \in Mapped) /\ (main.probes => a \in Mapped)
      /\ None \notin Mapped /\ probed \subseteq Mapped /\ probe \in [Mapped -> {"none", "send", "wait", "done"}]
  BY <1>1, LookupAssumption DEF ResultInv, Explained, IInv, Shapes, Rest, MainTyped, Telling
<1>3. \A b \in probed : probe'[b] # "none"
  BY <1>1, <1>2 DEF ResultInv, Explained
<1>4. \A b \in matched \ {Bad} : PreferIPv4 /\ ~Validate => FamilyOf[b] = 6 \/ b = a
  BY <1>1 DEF ResultInv, OnlyIPv6, Returned
<1>5. CASE (~main.ok \/ Validate) /\ main' = Idle /\ UNCHANGED <<contexts, conn, outcome>>
  <2>1. ~Telling' /\ ~Returned'
    BY <1>5, IdleIs DEF Telling, Returned
  <2>2. Explained'
    BY <1>1, <1>3, <1>5, <2>1 DEF ResultInv, Explained, Validate, network, outcome
  <2>3. Awaited' /\ OnlyIPv6' /\ ResultIsMatched'
    BY <1>1, <1>2, <1>4, <1>5, <2>1
       DEF ResultInv, Awaited, OnlyIPv6, ResultIsMatched, contexts, PreferIPv4, Validate
  <2> QED BY <2>2, <2>3 DEF ResultInv
<1>6. CASE /\ main.ok /\ ~Validate /\ WaitsForIPv4(a) /\ main' = Idle /\ UNCHANGED <<contexts, conn, result>>
           /\ fallbackIP' = IF fallbackIP = None THEN a ELSE fallbackIP
  <2>1. ~Telling' /\ ~Returned'
    BY <1>6, IdleIs DEF Telling, Returned
  <2>2. Explained'
    BY <1>1, <1>2, <1>3, <1>6, <2>1 DEF ResultInv, Explained, Validate, network
  <2>3. Awaited' /\ OnlyIPv6' /\ ResultIsMatched'
    BY <1>1, <1>4, <1>6, <2>1
       DEF ResultInv, Awaited, OnlyIPv6, ResultIsMatched, contexts, WaitsForIPv4, PreferIPv4, Validate
  <2> QED BY <2>2, <2>3 DEF ResultInv
<1>7. CASE main.ok /\ ~Validate /\ Return(a) /\ UNCHANGED fallbackIP
  <2>1. main'.at = "done" /\ main'.probes = FALSE /\ result' = a /\ ctxOver' = TRUE /\ conn' = "closed"
    BY <1>7, IdleIs
  <2>2. Explained'
    BY <1>1, <1>3, <1>7, <2>1 DEF ResultInv, Explained, Telling, Validate, network
  <2>3. Awaited' /\ OnlyIPv6' /\ ResultIsMatched'
    BY <1>1, <1>2, <1>7, <2>1 DEF Awaited, OnlyIPv6, ResultIsMatched, Returned, Validate
  <2> QED BY <2>2, <2>3 DEF ResultInv
<1> QED BY <1>5, <1>6, <1>7 DEF Matched

LEMMA ResultKept ==
  ASSUME IInv, ResultInv, [Next /\ UNCHANGED call]_<<vars, call>>
  PROVE  ResultInv'
<1>1. call' = call
  OBVIOUS
<1>2. CASE Main
  <2>1. CASE ReadFails \/ \E a \in Mapped : ReadProbe(a)
    BY <1>1, <2>1, ReadKeeps
  <2>2. CASE Matched
    BY <1>1, <2>2, MatchedExplains
  <2>3. ASSUME NEW a \in Mapped, Match(Foreign, a) PROVE ResultInv'
    BY <1>1, <2>3, MatchExplains
  <2>4. ASSUME NEW q \in Queries, answer[q] # None, Match(q, answer[q]) PROVE ResultInv'
    <3>1. answer[q] \in Mapped \cup {Bad}
      BY <2>4 DEF IInv, Shapes
    <3> QED BY <1>1, <2>4, <3>1, MatchExplains
  <2> QED BY <1>2, <2>1, <2>2, <2>3, <2>4 DEF Main
<1> QED BY <1>1, <1>2, GoroutinesKeep, EndingsKeep DEF Next

LEMMA ResultInvHolds == Spec => []ResultInv
<1>1. Init => ResultInv
  <2> SUFFICES ASSUME Init PROVE ResultInv
    OBVIOUS
  <2>1. main.at = "read" /\ main.probes = FALSE
    BY IdleIs DEF Init
  <2> QED BY <2>1 DEF Init, ResultInv, Explained, Awaited, OnlyIPv6, ResultIsMatched, Telling, Returned
<1>2. IInv /\ ResultInv /\ [Next /\ UNCHANGED call]_<<vars, call>> => ResultInv'
  BY ResultKept
<1> QED BY <1>1, <1>2, IInvHolds, PTL DEF Spec

\* An address that is returned was read in an answer to a request of this lookup and,
\* when it has to be validated, was probed by this lookup and came back (ip.go:375-379,
\* 391-398); a lookup that returns no address says why (ip.go:357-371).
THEOREM ResultsAreMatched == Spec => []ResultIsMatched
<1>1. ResultInv => ResultIsMatched
  BY DEF ResultInv
<1> QED BY <1>1, ResultInvHolds, PTL

\* An IPv6 address is only returned while IPv4 is preferred when no IPv4 one was read
\* and everyone has ended or the time is up (ip.go:225, 419-428).
THEOREM FallbackIsLast == Spec => IPv4Preferred
<1>1. ASSUME IInv, ResultInv, Next /\ UNCHANGED call, ~Returned, Returned', PreferIPv4, ~Validate,
             result' \in Mapped, FamilyOf[result'] = 6
      PROVE  (\A a \in matched \ {Bad} : FamilyOf[a] = 6) /\ (waiter = "done" \/ ctxOver)
  <2>1. CASE ReadFails
    <3>1. main.at = "read" /\ ~Telling
      BY <2>1 DEF ReadFails, Telling
    <3>2. \A a \in matched \ {Bad} : FamilyOf[a] = 6
      BY <1>1, <3>1 DEF ResultInv, OnlyIPv6
    <3>3. conn # "open" /\ conn \in {"open", "deadline", "closed"}
      BY <1>1, <2>1 DEF ReadFails, IInv, Shapes
    <3> QED BY <1>1, <3>2, <3>3 DEF ResultInv, Awaited
  <2>2. ASSUME Matched PROVE FALSE
    <3>1. CASE main' = Idle
      BY <1>1, <3>1, IdleIs DEF Returned
    <3>2. CASE ~WaitsForIPv4(main.ip) /\ Return(main.ip)
      BY <1>1, <3>2, IdleIs DEF WaitsForIPv4
    <3> QED BY <2>2, <3>1, <3>2 DEF Matched
  <2>3. ASSUME NEW a \in Mapped, ReadProbe(a) PROVE FALSE
    BY <1>1, <2>3 DEF ReadProbe, ResultInv, Explained
  <2>4. ASSUME NEW id, NEW a, Match(id, a) PROVE FALSE
    <3>1. main'.at = "matched" \/ main' = main
      BY <2>4 DEF Match
    <3> QED BY <1>1, <3>1 DEF Returned
  <2>5. ASSUME main' = main PROVE FALSE
    BY <1>1, <2>5 DEF Returned
  <2>6. CASE Main
    BY <2>1, <2>2, <2>3, <2>4, <2>6 DEF Main
  <2>7. CASE \/ \E s \in Servers : ResolveFails(s) \/ \E found \in SUBSET call.families \ {{}} : Resolve(s, found)
             \/ \E q \in Queries : Request(q) \/ Resend(q)
    BY <2>5, <2>7 DEF ResolveFails, Resolve, Request, Resend, Register, Write, WriteFails, Ended, Forget, Done
  <2>8. CASE \/ \E a \in Mapped : SendProbe(a) \/ ProbeFails(a) \/ ProbeCancelled(a) \/ ProbeReturns(a)
             \/ \E q \in Queries, a \in Mapped \cup {Bad} : Answers(q, a)
             \/ Wait \/ Wake \/ StunTimeout \/ CtxEnds \/ CloseConn
    BY <2>5, <2>8 DEF SendProbe, ProbeFails, ProbeCancelled, ProbeReturns, Answers, Wait, Wake, StunTimeout, CtxEnds, CloseConn
  <2> QED BY <1>1, <2>6, <2>7, <2>8 DEF Next
<1>2. Spec => [][ ~Returned /\ Returned' /\ PreferIPv4 /\ ~Validate /\ result' \in Mapped
                  /\ FamilyOf[result'] = 6 =>
                    /\ \A a \in matched \ {Bad} : FamilyOf[a] = 6
                    /\ waiter = "done" \/ ctxOver ]_vars
  <2>1. IInv /\ ResultInv /\ [Next /\ UNCHANGED call]_<<vars, call>> =>
          [ ~Returned /\ Returned' /\ PreferIPv4 /\ ~Validate /\ result' \in Mapped
            /\ FamilyOf[result'] = 6 =>
              /\ \A a \in matched \ {Bad} : FamilyOf[a] = 6
              /\ waiter = "done" \/ ctxOver ]_vars
    BY <1>1
  <2> QED BY <2>1, IInvHolds, ResultInvHolds, PTL DEF Spec
<1> QED BY <1>2 DEF IPv4Preferred
=============================================================================
