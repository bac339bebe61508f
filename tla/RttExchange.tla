----------------------------- MODULE RttExchange -----------------------------
(***************************************************************************)
(* pkg/interceptor/rttfromxr.go, one interceptor: streams are bound and    *)
(* unbound, a goroutine asks for the round-trip time with the reference    *)
(* time, and the answers and the peer's requests come in.  The caller also *)
(* sends sender reports, whose reception helpers.go turns into times.      *)
(* Handling a packet that came in changes no state: what it writes and     *)
(* reports are operators, evaluated in every state.  Of the compounds that *)
(* come in only the first extended report is looked at; the others are as  *)
(* good as lost, and so are the other reports of a DLRR block.             *)
(***************************************************************************)
EXTENDS NtpTime, SequencesExt

CONSTANTS
  Ssrcs,      \* including 0, which no request is made for
  MaxStreams, \* bound: streams bound at a time, in each direction
  StartTime,  \* of the clock
  MaxTime,    \* bound: of what passes
  Steps       \* what the wall clock may be set by

ASSUME ExchangeAssumption ==
  /\ 0 \in Ssrcs
  /\ {StartTime, MaxTime} \subseteq Nat /\ Steps \subseteq Int

VARIABLES
  remoteTrackSsrcs, localTrackSsrcs,
  writer,  \* whether there is one
  started,
  closed,  \* the channel close is; and, history, Close was called
  loop,    \* the goroutine: at, and the SSRC it is about to ask for
  now,     \* time since the start, by the monotonic clock
  clockStep, \* what the wall clock was set by
  stamp,   \* a packet with the time that was sent, any one: [kind, at, step]
  bound    \* history: how often each stream is bound

lists == <<remoteTrackSsrcs, localTrackSsrcs, bound>>
clocks == <<now, clockStep>>
varsRtt == <<lists, writer, started, closed, loop, clocks, stamp>>

InitRtt ==
  /\ remoteTrackSsrcs = <<>> /\ localTrackSsrcs = <<>>
  /\ writer = FALSE /\ started = FALSE /\ closed = [channel |-> FALSE, called |-> FALSE]
  /\ loop = [at |-> "none", ssrc |-> 0]
  /\ now = 0 /\ clockStep = 0
  /\ stamp = [kind |-> "none", at |-> 0, step |-> 0]
  /\ bound = [side \in {"remote", "local"} |-> [s \in Ssrcs |-> 0]]

-----------------------------------------------------------------------------
(* Streams.                                                                *)

\* Mutant: the last one goes, whichever was meant.
MutWithout(q, ssrc) == IF ssrc \in ToSet(q) THEN Front(q) ELSE q

\* The last one takes the place of the first of that SSRC.
Without(q, ssrc) ==
  IF ssrc \notin ToSet(q) THEN q
  ELSE LET i == SelectInSeq(q, LAMBDA s : s = ssrc) IN Front([q EXCEPT ![i] = Last(q)])

Binds(side, ssrc) == bound' = [bound EXCEPT ![side][ssrc] = @ + 1]
Unbinds(side, ssrc) == bound' = [bound EXCEPT ![side][ssrc] = IF @ = 0 THEN 0 ELSE @ - 1]

BindRemoteStream(ssrc) ==
  /\ Len(remoteTrackSsrcs) < MaxStreams
  /\ remoteTrackSsrcs' = Append(remoteTrackSsrcs, ssrc) /\ Binds("remote", ssrc)
  /\ started' = TRUE
  /\ loop' = IF started THEN loop ELSE [loop EXCEPT !.at = "select"]
  /\ UNCHANGED <<localTrackSsrcs, writer, closed, clocks, stamp>>

UnbindRemoteStream(ssrc) ==
  /\ remoteTrackSsrcs' = Without(remoteTrackSsrcs, ssrc) /\ Unbinds("remote", ssrc)
  /\ UNCHANGED <<localTrackSsrcs, writer, started, closed, loop, clocks, stamp>>

BindLocalStream(ssrc) ==
  /\ Len(localTrackSsrcs) < MaxStreams
  /\ localTrackSsrcs' = Append(localTrackSsrcs, ssrc) /\ Binds("local", ssrc)
  /\ UNCHANGED <<remoteTrackSsrcs, writer, started, closed, loop, clocks, stamp>>

UnbindLocalStream(ssrc) ==
  /\ localTrackSsrcs' = Without(localTrackSsrcs, ssrc) /\ Unbinds("local", ssrc)
  /\ UNCHANGED <<remoteTrackSsrcs, writer, started, closed, loop, clocks, stamp>>

BindRTCPWriter ==
  /\ writer' = TRUE
  /\ UNCHANGED <<lists, started, closed, loop, clocks, stamp>>

\* Mutant: only a goroutine that runs is told.
MutCloses == started

\* The channel is closed for whoever looks at it later.
Closes == TRUE

\* pion closes an interceptor once; a second time would panic.
Close ==
  /\ ~closed.called
  /\ closed' = [channel |-> Closes, called |-> TRUE]
  /\ UNCHANGED <<lists, writer, started, loop, clocks, stamp>>

-----------------------------------------------------------------------------
(* The goroutine.                                                          *)

\* What the goroutine reads under the lock.
senderSsrc == IF remoteTrackSsrcs = <<>> THEN 0 ELSE Head(remoteTrackSsrcs)

Ticks ==
  /\ loop.at = "select" /\ senderSsrc # 0 /\ writer
  /\ loop' = [at |-> "write", ssrc |-> senderSsrc]
  /\ UNCHANGED <<lists, writer, started, closed, clocks, stamp>>

\* A stamp of now, or some earlier one: answers may come to either.
Stamps(kind) ==
  stamp' \in {stamp, [kind |-> kind, at |-> now, step |-> clockStep]}

WriteRequest ==
  /\ loop.at = "write"
  /\ loop' = [at |-> "select", ssrc |-> 0]
  /\ Stamps("xr")
  /\ UNCHANGED <<lists, writer, started, closed, clocks>>

\* Either branch is taken when both are ready.
LoopEnds ==
  /\ loop.at = "select" /\ closed.channel
  /\ loop' = [at |-> "ended", ssrc |-> 0]
  /\ UNCHANGED <<lists, writer, started, closed, clocks, stamp>>

-----------------------------------------------------------------------------
(* What comes in.                                                          *)

\* To a request of the peer: who answers.
responses == IF writer THEN localTrackSsrcs ELSE <<>>

wall == StartTime + now + clockStep
ntp == ToNtpTime(StartTime + stamp.at + stamp.step)

\* What is reported of an answer.
onRTT(last, delay) == Ms(ntpDiff(Middle(ToNtpTime(wall)), last, delay))

\* What a peer says it held a request or a sender report for: full units.
Held(hold) == (hold * Units) \div Nanos

-----------------------------------------------------------------------------
(* Sender reports and the clocks.                                          *)

SenderReport ==
  /\ Stamps("sr")
  /\ UNCHANGED <<lists, writer, started, closed, loop, clocks>>

Pass ==
  /\ now < MaxTime
  /\ now' = now + 1
  /\ UNCHANGED <<lists, writer, started, closed, loop, clockStep, stamp>>

\* Once.
SetClock ==
  /\ clockStep = 0
  /\ clockStep' \in Steps
  /\ UNCHANGED <<lists, writer, started, closed, loop, now, stamp>>

NextRtt ==
  \/ \E ssrc \in Ssrcs : \/ BindRemoteStream(ssrc) \/ UnbindRemoteStream(ssrc)
                         \/ BindLocalStream(ssrc) \/ UnbindLocalStream(ssrc)
  \/ BindRTCPWriter \/ Close \/ Ticks \/ WriteRequest \/ LoopEnds
  \/ SenderReport \/ Pass \/ SetClock

\* The goroutine runs, and select takes a branch that stays ready.
SpecRtt == InitRtt /\ [][NextRtt]_varsRtt /\ WF_varsRtt(WriteRequest) /\ SF_varsRtt(LoopEnds)

-----------------------------------------------------------------------------
(* Correctness.                                                            *)

Times(q, ssrc) == Cardinality({ i \in DOMAIN q : q[i] = ssrc })

TypeOKRtt ==
  /\ {remoteTrackSsrcs, localTrackSsrcs} \subseteq Seq(Ssrcs)
  /\ {writer, started, closed.channel, closed.called} \subseteq BOOLEAN
  /\ loop.at \in {"none", "select", "write", "ended"} /\ loop.ssrc \in Ssrcs
  /\ now \in 0 .. MaxTime /\ clockStep \in Steps \cup {0}
  /\ stamp.kind \in {"none", "xr", "sr"} /\ stamp.at \in 0 .. now

\* Types, and: a request of the peer is answered once for every local stream that
\* is bound and for no other, and a request of ours is made for a remote one as
\* long as there is any, however streams came and went (lines 88-98, 107-118, 163).
AnswersForBound ==
  /\ TypeOKRtt
  /\ \A ssrc \in Ssrcs : writer => Times(responses, ssrc) = bound["local"][ssrc]
  /\ IF \E ssrc \in Ssrcs : bound["remote"][ssrc] > 0
     THEN bound["remote"][senderSsrc] > 0 ELSE senderSsrc = 0

\* Less than a unit too short, or less than two units and one millisecond too long.
Tells(ms, elapsed) ==
  LET unit == Nanos \div Units + 1
      millisecond == Nanos \div Millis
  IN ms * millisecond - elapsed \in 1 - unit .. 2 * unit + millisecond - 1

\* However both ends round, over the ends of eras, where stamps start over
\* (helpers.go:54), and over those of words within them, what is told is
\* the time that has passed less the time the peer held the packet.  GetRttMs tells it
\* even if the wall clock was set meanwhile (helpers.go:85-87) and never takes such a
\* report for anachronous; GetRttMsFromReceiverReportOnly and the interceptor tell
\* it if the clock was not set, and the former refuses a report from a time that only
\* a clock set back can explain, by less than half of what a word holds (helpers.go:91).
RttExact ==
  LET elapsed == now - stamp.at
      back == stamp.step - clockStep - elapsed \* how far the wall clock is before the stamp
      Report(hold) == [last |-> Middle(ntp), delay |-> Held(hold)]
  IN stamp.kind # "none" /\ elapsed * Units < Nanos * (Words \div 2 - 1) =>
     \A hold \in 0 .. elapsed :
       LET since == GetRttMs(Report(hold), ntp, TRUE, elapsed, wall)
           only == GetRttMsFromReceiverReportOnly(Report(hold), wall)
           right(r) == IF Middle(ntp) = 0 THEN r.err = "no last sender report"
                       ELSE r.err = "none" /\ Tells(r.ms, elapsed - hold)
       IN /\ stamp.kind = "sr" => right(since) /\ (clockStep = stamp.step => right(only))
          /\ /\ stamp.kind = "sr" /\ back * Units > Nanos
             /\ (back + elapsed) * Units < Nanos * (Words \div 2 - 1)
             => only.err # "none"
          /\ stamp.kind = "xr" /\ clockStep = stamp.step =>
               Tells(onRTT(Middle(ntp), Held(hold)), elapsed - hold)

\* After Close the goroutine ends, also if Close came before the first stream,
\* which starts it (lines 69, 77-79).
EndsAfterClose == <>[](closed.called => loop.at \in {"none", "ended"})
=============================================================================
