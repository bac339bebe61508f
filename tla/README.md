# A verification of livekit/mediatransportutil

TLA+ models of the parts of `mediatransportutil` that keep state or decide
something hard, the TLC runs that check them on small instances, and TLAPS proofs
of what matters most about them for every size. File and line references are to
the repository.

## The system

`mediatransportutil` is a library of the building blocks of a media server
(SFU). It has no process of its own: each package keeps a small state machine
that the server drives from its packet, RTCP and timer goroutines.

| Part | State | Operations |
|---|---|---|
| packet bucket, `pkg/bucket/bucket.go` | ring of slots over shared buffers, head number, write position, resync flag | `AddPacket`, `AddPacketWithSequenceNumber`, `GetPacket`, `Grow`, `ResyncOnNextPacket` |
| NACK queue, `pkg/nack/nack.go` | missing numbers with tries and times, round-trip time | `Push`, `PushRange`, `Remove`, `SetRTT`, `Pairs` |
| wraparound, `pkg/utils/wraparound.go` | start, highest, cycles, extended highest | `Update`, `UpdateWithOrderKnown`, `Rollover`, `UndoUpdate`, `RollbackRestart`, `ResetHighest`, `Seed` |
| pacers, `pkg/pacer/*.go` | packet queue, worker goroutine, wake channel, byte budget | `Start`, `Stop`, `Enqueue`, `SetBitrate`, the workers |
| RED, `pkg/red/red.go` | newest number and a bit history of those received | `Depacketize`, `ExtractPackets`, `ExtractPrimaryEncoding` |
| codec parsers, `pkg/codec/*.go` | none | VP8 `Unmarshal` and `MarshalTo`, key frame tests, video sizes |
| one-way delay, `pkg/latency/owd_estimator.go` | clock offset estimate, long-term delta, count of high deltas | `Update`, `InitialAdjustment` |
| external IP, `pkg/rtcconfig/ip.go` | pending requests, probes, a `WaitGroup`, two contexts, a socket | `findExternalIP`, `GetLocalIPAddresses` |
| NAT mapping, `pkg/rtcconfig/webrtc_config.go` | reports of lookups, family counters, a timer | `getNAT1to1IPsForConf` |
| configuration, `pkg/rtcconfig/config.go`, `webrtc_config.go` | the node's addresses, rewrite rules, STUN servers, sockets | `Validate`, `ReloadExternalIP`, `NewWebRTCConfig` |
| mux creation, `pkg/transport/createmux.go`, `ip.go` | sockets opened so far | `CreateUDPMuxesFromPorts` |
| multi-port mux, `pkg/transport/udpmultimux.go` | a counter per IP | `GetListenAddresses` |
| RTT interceptor, `pkg/interceptor/rttfromxr.go` | SSRCs, RTCP writer, reporting goroutine | `Bind*`, `Unbind*`, `Close`, the ticker |
| RTCP time helpers, `helpers.go` | none | `ToNtpTime`, `Duration`, `GetRttMs` |
| TWCC responder, `pkg/twcc/twcc.go` | last report time; the rest is in pion's recorder | `Push`, `OnFeedback` |
| UDP buffer check, `pkg/rtcconfig/rtc_*.go` | none | `checkUDPReadBuffer` |

How they interact: `Bucket` hands out slices into its buffers, which the caller
may hold while it adds packets. The NACK queue feeds the requests that the
bucket of the other side answers. All pacers end in `Base.SendPacket`.
`NewWebRTCConfig` calls `getNAT1to1IPsForConf`, which runs one `findExternalIP`
per local address, cancels them all through a context and waits for them, and
then `CreateUDPMuxesFromPorts` up to twice, on ports that the lookups used too;
the multi-port mux is built from what these opened. The interceptor and the
helpers share the arithmetic of NTP time. The rest do not call each other.

What is hard about them, and so what the properties are about:

* numbers that wrap: sequence numbers in the bucket, the wraparound, NACK and
  RED, the middle of an NTP time, the counter of the mux, and the order they
  imply;
* rings and queues that are rewritten in place: growth, purging by number while
  a number may be queued twice, pushes with gaps longer than the ring, lists of
  streams from which any one is taken;
* goroutines: lost wake-ups, a channel closed by `Stop` or `Close`, a check made
  before a lock is taken, a `WaitGroup` counted up while somebody waits;
* datagrams that are lost, repeated, late, cut short or not ours;
* timers racing answers, contexts that end everything, clocks that are set;
* budgets carried from interval to interval with a sign;
* updates that are taken back, starts that are replaced and rolled back,
  addresses that are resolved again under other requirements;
* one of many calls into the network failing: what was opened before it.

PROJECT.json lists each of them as a hazard at its line, with the properties
that would catch it.

## Modules

| Module | Source | Content |
|---|---|---|
| `PacketWindow` | | abstract: the newest `cap` numbers, by age |
| `Bucket` | bucket.go | the ring: slots, buffers, size fields |
| `NackQueue` | nack.go | the queue, backoff, purge, pair bitmaps |
| `WrapAround` | wraparound.go | unrolling, restart, undo |
| `PacedStream` | | abstract: a pacer, packets leave in order, once, and it ends after `Stop` |
| `PacerBase` | base.go | `SendPacket` |
| `NoQueue`, `LeakyBucket` | no_queue.go, leaky_bucket.go | the two pacers with a queue; they extend `PacerBase` and implement `PacedStream` |
| `Red` | red.go | recovery from redundant blocks |
| `Vp8Header` | vp8.go, helpers.go of codec | the payload descriptor, read and written |
| `KeyFrames` | keyframe.go, h26xhelper.go | key frames and parameter sets in payloads; extends `Vp8Header` |
| `OwdEstimator` | owd_estimator.go | the estimate and its resets |
| `StunLookup` | ip.go | `findExternalIP` and the network around it |
| `NatMapping` | webrtc_config.go | `getNAT1to1IPsForConf` over any lookups |
| `WebRTCConfig` | config.go, webrtc_config.go, ip.go, createmux.go, transport/ip.go, udpmultimux.go | from configuration to sockets; extends `NatMapping` |
| `NtpTime` | helpers.go | NTP times and the RTT of a report |
| `RttExchange` | rttfromxr.go | the interceptor; extends `NtpTime` |
| `BucketProofs`, `NackProofs`, `WrapAroundProofs`, `NoQueueProofs`, `PayloadProofs`, `StunProofs`, `WebRTCConfigProofs`, `TimingProofs` | | theorems; `PayloadProofs` covers RED and the codecs, `WebRTCConfigProofs` the configuration and the NAT mapping, `TimingProofs` the delay estimator, the round-trip times and the leaky bucket |

The type invariant of a module is `TypeOK`. `MCBucket` checks it by itself;
elsewhere it is a conjunct of the invariant it supports (`SpanExact`, `EachOnce`,
`WithinRate`, `HistoryExact`, `EstimateWithin`, `NothingAfterWait`,
`GraceWhenSettled`, `OpenIsAccounted`, `AnswersForBound`). That of `NackQueue` is
proved and not run. `LeakyBucket`, `RttExchange` and `WebRTCConfig` end the names
that every module has in their own (`SpecLeaky`, `SpecRtt`, `SpecConf`), so that they
can be extended together with others.

Modules whose name starts with `MC` extend modules with the definitions their
configurations need; `MCPayloads` also gives the codec parsers, which keep no
state, a payload at a time. The definitions keep the names of the source where
they can. Operators whose name starts with `Mut` are wrong versions of the
definition they precede; PROJECT.json pairs each with a property that it breaks.

### Bucket

`slots` is the slice of slices, `mem` what each buffer holds: size field, packet
and header number, and, as history, the extended number it was stored for. The
two are kept apart because `Grow` swaps slice headers while callers hold slices.
An action is a call; `Grow` is the loop of swaps, as a recursive function over
the slots. The size field has the width the code chooses and its all-ones value
marks a hole; `MaxPktSize = 255` puts the packets of the runs on both sides of
the longest length. `PacketWindow` is the promise: packets indexed by the
distance behind the newest number. `ImplementsWindow` says that every operation
of the ring is the operation of the window, return value included.

Header numbers are 2 and extended numbers 3 bits wide, which makes gaps longer
than the ring and wraps frequent. A ring that has outgrown the range of its
numbers is beyond that run; the theorems of `BucketProofs` cover it.

### NACK queue

An entry has tries, its age and the time since its last try, in place of two
time stamps; ages are cut off just above the largest limit they are compared
with. The backoff is a table, by default-like factor 1.25, so that products fall
below, between and above the two interval limits. `ClockMoves` lets the clock
advance in the middle of `Pairs`, which reads it once per entry. `quiet` is a
history variable, the time since a number was last pushed or asked for: a push
restarts it, and so does a request, so that `NackSpacing` covers the wait before
the first request as well as that between two.

`QueueByAge` and `PurgesTheExpired` hold when the clock stands still during a
call: the code computes the age of each entry with a new look at the clock, and
an entry may expire while the one before it just did not. `PushesForward`
restricts the caller to numbers ahead of the queue, as a receiver that pushes
the gaps of one stream does. `PairsNameAllSent` needs that (see the observations
below), and so does the wait after a push: of a number that is queued already the
older entry may be due at once. `MCNackTwice` lets the caller push anything, and takes three numbers so
that the queue of three holds all of them, or some of them twice.

### Wraparound

A value stands for a position in an endless stream and `span` counts positions
between start and highest. `SpanExact` says that extended numbers count the
same. The extended type has room for a few cycles; `MaxExtended` keeps the
extended highest from overflowing, which takes 2^32 values with the narrower of
the two extended types. `isRestartAllowed` is the tracker's parameter: a variable
that never changes, so that one run explores both settings. `Rollover` may name a
value behind the highest, as nothing in the code prevents it, and the first value
may be taken back; in both cases the highest may come to lie behind start, and
`ValuesInPlace` says nothing of an update in such a state. Taking back a first
value of 0 changes nothing, since the extended type cannot hold its predecessor.
`ResetHighest` is modelled for extended numbers between start and the highest.

### Pacers

The code between `Lock` and `Unlock` is a step; so are a receive from the wake
channel, a check of `isStopped` outside the lock, and `SendPacket`. A packet is
its number in the order of acceptance. In `SendPacket` the header extensions or
the writer may fail, and the buffer goes back on every path. `panicked` records
a send on, or a second close of, the closed channel.

In `LeakyBucket` time is counted in ticks and a bitrate in bytes per `Unit`
ticks. A tick may be worth 0 bytes, but only after a round that sent, when a
tick was already waiting. `excess` is the largest surplus of bytes sent over
bytes earned in any stretch of intervals, and `WithinRate` bounds it: overage
and shortage cannot let the rate drift.

### RED and codec payloads

RED: numbers of four bits with a history of four (64 in the code). A payload is the
list of its redundant lengths and its total size, so that whole, short and
truncated payloads are told apart. `HistoryExact` compares the bits with the
numbers really received; `RecoversTheLost` says which packets are recovered;
`BlocksApart` that their bytes do not overlap and lie inside the payload. A
number that was recovered is not marked as received, so the same packet may be
recovered again by the next payload.

The codec parsers work on sequences of bytes. `Vp8RoundTrip` takes a descriptor
apart, gives it another picture id in one or two bytes and puts it together
again, as a forwarder does with `VPxPictureIdSizeDiff`: the result has the
announced size and means what was meant. `Packet` builds what a sender sends,
from NAL units or OBUs, as the formats' documents (RFC 6184, RFC 7798, AV1's RTP
specification) have it; `KeyFramesFound` compares what the code finds in it, whole
or cut short anywhere, with what was put in. In H.264's packets with times (MTAP16
and MTAP24) the size in front of a unit counts the unit alone, and
`IsH264KeyFrame` takes it to count the time, too. Of these packets `KeyFramesFound`
promises less: a parameter set that comes first and is longer than its time is
found, and a part of the packet is a key frame only if the packet is. That a
parameter set behind the first unit is missed is among the observations below.

### One-way delay

Delays, sender steps and elapsed times from small sets, thresholds in units of
five milliseconds; factors are quotients truncated towards zero like Go's
conversions. The count of high deltas and their age are cut off where the reset
happens. `low`, `high`, `streak` and `step` are history.

### External IP

`resolver`, `query`, `probe` and `waiter` say where each goroutine is, `main`
where the read loop is. Everything done under `mu` is one step, everything else a
step of its own: in particular an answer is matched in one step and told to its
query in the next. A datagram stays readable once it was sent, so it may be
read late, twice or never. `Foreign` is a transaction nobody started, `Bad` an
answer without an address, and probes of other lookups may come in, since
`getNAT1to1IPsForConf` probes the same port from each of its lookups. What is
called, with which servers and families, is chosen at the start (`call`).

`NothingAfterWait` is the argument of lines 393-395. `Returns`, which also says
that every goroutine ends, is checked without assuming that `ctx1`'s timer fires,
that anybody answers, or that probes come back.

### NAT mapping

`lookup` says where each lookup is. What a lookup finds is any address of its
family: `StunLookup` shows that a lookup ends, which is all that is assumed. The
reports go through a channel with room for all of them; the loop that reads
them, the family counters and the timer are the code's. `GraceWhenSettled` ties
the timer to what lookups really did, `OnlyMappedPass` the filter to the result.
`FamilyOf` is a constant and the filter given by the caller lets everything
through.

### Configuration and sockets

`WebRTCConfig` extends `NatMapping` and runs it as one phase of
`NewWebRTCConfig`: `at` says where the call is, from `Validate` over the node's
address, the mapping and the two creations of UDP muxes to the TCP listener and
`stdnet.NewNet`. The interfaces are a constant list of addresses, and the two
enumerations of them (ip.go for lookups, transport/ip.go for sockets) are
operators that filter it differently; `ConfigAssumption` ties the addresses that
are looked up to the first. `work` is what the nested loops of
`CreateUDPMuxesFromPorts` still have to open. A socket is an address and a port;
a port that is open already cannot be opened again, and every call into the
network may fail as well. A caller may use a configuration whose resolution
failed, or resolve again (`ReloadExternalIP`), as the comment at config.go:143
invites it to.

`next` is one atomic increment of the counter of an IP and the pick it decides:
concurrent callers of `GetListenAddresses` interleave at exactly these steps. The
counter is signed, between `-CounterHalf` and `CounterHalf - 1`. ICE lite is off: it only keeps
STUN servers out.

### Round-trip times

`RttExchange` keeps the lists of SSRCs as the code does, first match replaced by
the last, and next to them how often each stream is bound. The goroutine reads
the SSRC and the writer under the lock and writes after it, in two steps. A
stamp of any request or sender report that was sent may be answered at any later
time, so answers are delayed, reordered and repeated; what the peer held it for
is quantified. `now` is the monotonic clock and `clockStep` what the wall clock was set
by. `NtpTime` has the arithmetic with the code's two roundings, over stamps and
words of reduced width; the millisecond is the smallest unit in which an RTT is told.
Two things wrap. A stamp holds `Seconds` seconds, 2^32 in the code: `sec<<32` loses
what is above (`helpers.go:54`), so a stamp starts over at the end of an era, next in
2036, and `Duration` counts from the start of the era the stamp is of. The 32-bit word
that RTCP carries wraps within an era; `NtpAssumption` says that an era is a whole
number of words, which makes the end of an era one for the word, too. Times before
1900, and those after 2192 for which `t.Sub` no longer has a `Duration`, are not
modelled.

## Runs

Every run ends within three minutes on two cores. There is one for each question,
and a second one for a component only where the two cannot share their
constants.

| Run | What it shows |
|---|---|
| `MCBucket` | 2 slots growing to 4, 3-bit numbers over 2-bit headers, three packet sizes: types, own buffers, order, no foreign packet, packets stay where they are, and refinement of the window |
| `MCNackQueue` | three entries, 3-bit numbers, the gaps of one stream, a moving clock: spacing of requests, exactness of pairs |
| `MCNackTwice` | any number in any order, queued twice too: order by age, exactness of the purge, and the queue empties when pushing stops |
| `MCWrapAround` | 3-bit values in 6-bit numbers, with and without restarts: distances stay exact, an undo restores |
| `MCNoQueue` | one worker, six packets, `Stop` anywhere: no panic, no lost wake-up, each packet once, refinement of `PacedStream` with the worker's end |
| `MCLeakyBucket` | two callers, three packets, bitrates that change and a latency limit: rate, overshoot, refinement |
| `MCPayloads` | RED numbers in any order with seven payloads: recovery is exact; codec payloads: descriptors survive, key frames are found |
| `MCOwdEstimator` | ten reports: the estimate stays within what was reported, resets only when persistent |
| `MCStunLookup` | a validating call over two servers and a plain one over both families: no panic, no misuse of the `WaitGroup`, only matched and validated results, always a reason or an address, IPv4 preferred, everything ends |
| `MCWebRTCConfig` | six configurations, seven addresses, three lookups with any outcome, failures anywhere: nothing leaks from a failed creation, sockets are mapped, rules or STUN servers, round robin, calls return |
| `MCRttExchange` | one interceptor, two SSRCs, clocks that are set, past the end of an era: exact times, answers for what is bound, the goroutine ends |
| `MCNatPublic` | violation: a local address without a mapping passes the filter of `ExternalIPOnly` |

Why the bounds are enough. Ring sizes, capacities and number ranges are chosen
so that the ring is shorter than half the range and then equal to it; a
queue of three has a first, a middle and a last entry; three packets fill,
overdraw and drain a budget; two servers are enough for an answer before, during
and after another; two addresses of a family and one of the other are enough for
a duplicate and for a family that is settled before the other; up to three ports
on two addresses put a failure at the start, in the middle and at the end of
either loop. Streams are bound up to twice in each direction (`MaxStreams`),
so the first, the last and the only one are taken out. Times run for `MaxTime`
units, from `StartTime` just before the end of an era of 80, and with the clock set
forward past the end of a word within the next one, of which it has two. The byte
sets of `MCPayloads` hold every combination of descriptor bits with extensions
valid and not, bytes of zero, of ones and in between, and picture ids on both
sides of one byte; units of 130 and 260 bytes put sizes into two bytes.
`MaxPackets`, `MaxReports`, `MaxExtended`, `MaxCycles`, `MaxCapacity`,
`MaxElapsed`, `MaxStreams`, `MaxTime` and `MaxRounds` bound what the code does
not; `Tries` and `CounterHalf` are smaller than the code's.

`CHECK_DEADLOCK FALSE` is set where the system really stops: pacers whose packets
are spent or that were stopped, and lookups, mappings and configurations that
have returned.

### What the runs found

**ExternalIPOnly lets an unmapped address through** (`webrtc_config.go:426`,
run `MCNatPublic`). If the external address found for `p` is the host's own
address `q`, mapping `q` to itself overwrites the mapping of `p`, which still
passes the filter.

Observations made while modelling, which no run of the project repeats:

* NACK: a number is counted as asked for but put into no pair when numbers are
  pushed out of order: `Pairs` sets its base 17 behind the first entry
  (`nack.go:142`), and if that entry is not due while a later one is due and up to
  17 behind it, line 161 takes the branch without an active pair.
* Wraparound: after the first value was taken back, a value half the range behind
  start is not recognised as one before start (`wraparound.go:207`), and its
  extended number is computed one cycle below zero (line 228).
* Delay: a persistent increase is neither followed nor counted while the
  long-term delta is 0 (`owd_estimator.go:131`).
* Leaky bucket: it stands still when a tick is worth less than a byte
  (`leaky_bucket.go:109`); `Start` called twice runs two workers, each with a
  full budget; packets queued at `Stop` never give their buffers back.
* Multi-port mux: the round robin counter is an `int32`, and after 2^31 - 1
  calls the index is negative (`udpmultimux.go:49`).
* Configuration: when the muxes of the STUN port, the TCP listener or
  `stdnet.NewNet` fail, `NewWebRTCConfig` returns without closing the muxes it
  created before; a `udp_port` range that includes 3478 together with
  `UseStunPortAsICE` always fails that way. A failed `ReloadExternalIP` under
  `UseExternalIP` leaves a configuration with neither rewrite rules nor STUN
  servers. `rand.Intn` panics when both ends of the ICE port range are equal
  (`webrtc_config.go:322`).
* Interceptor: `Close` panics when called twice (`rttfromxr.go:153`). While the
  first remote SSRC is 0 no requests are made. A clock set back between a request
  and its answer gives a huge RTT, as nothing corresponds to the check of
  helpers.go:91, and only the first report of a DLRR block is used.
* VP8: `Unmarshal` into a struct that was used before keeps the fields that the
  new descriptor leaves out. A descriptor that is extended by nothing is written
  without its extension bit, in a byte less than its size says.
* H.265: the type in the header of a fragment is read like that of a unit,
  `(b & 0x7E) >> 1`, where RFC 7798 has its lower six bits (`keyframe.go:141`);
  so the first fragment of a parameter set is missed.
* AV1: no key frame is found in packets that leave the number of units out
  (`keyframe.go:250`), and units are taken to have neither an extension nor a
  size of their own.
* H.264: `IsH264KeyFrame` takes the sizes in packets with times (MTAP16, MTAP24) to
  count the times (`keyframe.go:75-92`), where RFC 6184 has them count the unit
  alone. So it finds a parameter set in the first unit, if that is longer than its
  time, and then goes on three or four bytes too early: a parameter set behind the
  first unit is missed, and bytes of a unit may be taken for a size and a header, one
  of type 7 among them. Of the packets with times of `MCPayloads` that carry a
  parameter set, those where it comes first are key frames, 28 of 70, and the others
  are not. `ExtractH264VideoSize` skips a time once, in place of the decoding order
  number (`h26xhelper.go:532-537`), and reads other bytes as sizes again; in none of
  these packets does it come to the parameter set. In aggregations without times a
  unit of size zero ends the one and is skipped by the other.

## Fairness

Goroutines that can run do run (weak fairness of a worker's or a goroutine's
steps). A ticker ticks (`LeakyBucket`). The owner of a NACK queue calls `Pairs`
on a timer and time passes (`NackQueue`). The timers of `stunCtx` and of a probe
fire, and a resolver returns once its context has ended (`StunLookup`); a query
whose context has ended stops, with strong fairness because it alternates between
sending and waiting: `rto` doubles while `select` picks among ready cases. A call
that was made goes on: an external-IP lookup returns, the timer of the mapping
fires, a lookup of the mapping ends once it is cancelled (`WebRTCConfig`). The
interceptor's goroutine ends with strong fairness (`RttExchange`): while its
ticker and the closed channel are both ready `select` picks either, and the
closed channel stays ready. Nothing is assumed of callers of `Stop`, `Close` or
`ReloadExternalIP`, of networks or of servers.

## Proofs

The theorems hold for every value of the constants that satisfies the
assumptions named in the modules; none of them bounds the constants to small
values.

* `BucketProofs`: `TypeOK`, `OwnBuffer`, `WindowOrder` and `NeverAnotherPacket`
  for every capacity, number width, packet set and size. They are inductive
  only together: storing keeps other packets because no two slots share a
  buffer, and the first packet lands in a ring that must be empty
  (`FreshIsEmpty`). `Grow` is a loop, and its invariant is proved by downward
  induction over the slots: swapping slot `i` up keeps a permutation in which
  everything above `i` is already in place. On top of these: `PacketsStay`, the
  bytes a caller was handed stay in their buffer as long as their number is in
  the window; and `ImplementsWindow`, the refinement, operation by operation. A
  ring is a window because the slot `a` steps behind the head is entry `a`, which
  pushing (forward, late or past the end) and growing shift alike.
* `NackProofs`: `TypeOK`, `QueueByAge` and the action property
  `PurgesTheExpired`, for every capacity, limit and backoff table. The purge
  removes by number, which could take the wrong entry of a number queued twice;
  it does not, because expired entries are a prefix of a queue ordered by age.
  The queue's order is kept by a visit of an entry because an entry with more
  tries is visited before one with fewer. `NackSpacing` and `PairsNameAllSent` are
  proved for callers that push the gaps of one stream into a queue no longer than
  half of the numbers (`InOrder`; the observations say what happens to others).
  Their invariant says that the numbers of the queue are distinct and each within
  half the range ahead of those before it (`Ahead`), and that an entry has been
  idle no longer than its number has been quiet (`SpacedBy`), which a push keeps: the
  new entry and the quiet of its number both start at zero, and no older entry has
  that number. The pairs come
  from a loop whose first base lies where no entry reaches it, so that the first
  entry due opens a pair; from then on bitmaps and pairs name exactly the entries
  visited.
* `WrapAroundProofs`: `SpanExact` and the action properties `UndoRestores` and
  `ValuesInPlace`, for every pair of number types the wider of
  which has room for two cycles of the narrower (`2 * FullRange <= ERange`, true
  of every pair the code allows). The invariant adds what the operations that go
  back rely on: the extended highest is a whole number of cycles and the highest
  (`Joined`), and whatever a caller may hand back, the result of the last update,
  leads to a numbering in which distances are those before it (`Undoable`, for
  the highest, and `Reversible`, for a start that was replaced, which may have
  added a cycle to everything). `UndoRestores` needs one thing more: an update that
  `UndoUpdate` passes over did not move the highest (`Unmoved`); `ValuesInPlace`
  needs that the count of values fits the wider type (`Countable`).
* `NoQueueProofs`: `NeverPanics` and `NoLostWakeup` for any number of workers
  and packets. They need that the channel is closed exactly when `isStopped` is
  set, which holds as both happen in one critical section. `EachOnce`, for any
  finite set of workers (`IsFiniteSet(Workers)`): the invariant says that queue,
  hands and returned buffers share no packet (`Apart`), and that together they
  are all that were accepted, by number and by count (`Complete`). With one worker
  (`Workers = {w}`) its steps are those of `PacedStream` (`PacerSteps`): what was
  accepted and is not in the queue is what was sent, in order, and the packet in
  hand.
* `PayloadProofs`: `HistoryExact`, for every range of numbers and every width of the
  history below half of it. It needs that all numbers received since the last
  jump lie behind the newest one, by less than half the range (`Behind`).
  `RecoversTheLost` follows from it and from what the loop over the blocks takes:
  a bit that is clear is a packet that was lost. `BlocksApart` is an induction
  along that loop: every block starts where the one before ends.
  `DescriptorsSurvive` holds for every sequence of bytes and every picture id of 15
  bits (`DescriptorSurvives`; the run's `BytesAssumption` says that its payloads and
  ids are such). A descriptor that has a picture id is a fixed record of its first
  bytes (`Parsing`), each field written lies where the flags written
  in front of it say (`InPlace`), and every byte that packs several fields is read
  back as it was packed (`FlagsAreRead`, `TkRead`, `LongPicture`, `ShortPicture`).
  `WhatIsSentIsFound` is an instance of `KeyFramesAreFound`, which says of every
  packet of any units, and of each part of it, that H.264, H.265 and AV1 key frames
  and parameter sets are found where they were put, with what is left of that for
  packets with times. What a sender may put in is
  named (`Sent`): units of at least a byte (two in H.265, their header), of the types
  that are units and of sizes that the two or, in AV1, up to two bytes in front of
  them can announce; one unit unless the form is an aggregation; at most three OBUs,
  counted. A packet's units lie one behind the other
  (`Laid`, `ObusLaid`, from a property of `FlattenSeq`, `PiecesAreFlattened`), and
  the parsers' loops over them are unfolded by `ForwardRecursion`: a loop that
  always goes on to a higher byte ends, whatever the bytes. In a part of a packet
  the units found are those that are all there (`UnitsOfCut`), and for packets with
  times, where they need not be the ones sent, those found in a part lead those found
  in the whole (`UnitsOfPart`, for any bytes); those that are looked
  at without being taken are those whose first bytes are there (`StartsOfCut`); and in
  AV1 all units but one cut short are seen as they were sent, and that one only in
  its first bytes (`WhatIsSeen`), which are the ones that decide.
* `TimingProofs`, one way: `EstimateWithin`, for every choice of factors and
  thresholds. A truncated fraction of the way between two values lies between
  them, whatever the signs (lemma `MovedBetween`); the averaged spike needs the
  same (`SpikeWithin`), as the estimate may jump to it. `ResetOnlyIfPersistent`:
  what the code counts and times of high reports never exceeds the streak of them
  (`HighOfStreak`). And back, of the interceptor, `AnswersForBound`: a list of SSRCs
  holds each as often as it is bound (`Counted`), which replacing the first match by
  the last element keeps. `RttExact`: both stamps of a round trip are
  rounded down once, and their difference modulo the word is their distance as
  long as that is less than half a word. That a stamp starts over with an era makes
  no difference to it: every time has a counterpart in the first era with the same
  stamp (`EraOf`), the seconds lost are whole words (`WordOfMiddle`), and a time that
  is counted on from a stamp is off by whole eras (`EraIsForgotten`). `NtpAssumption`
  asks that the units of a stamp divide its fractions, those told divide the clock's
  and words divide an era, which the real 2^16 and 2^32, 10^3 and 10^9, 2^32 and 2^48
  do. Of the leaky bucket `WithinRate` and, step by
  step, `PacedStream` (`LeakySteps`), for any sizes, bitrates and callers.
  `LeakyInv` relates the budget left, with its sign, to what was sent (`Budget`):
  an interval starts with at most two intervals' worth, and only its last packet
  overdraws.
* `StunProofs`: `NothingAfterWait`, for any finite sets of servers and addresses.
  The count of the `WaitGroup` is the number of resolvers, requests and probes
  that hold one (`Counted`), so it does not reach 0, and `Wait` does not return,
  while any is left. Nothing joins later: a request that can still be matched has
  a goroutine that runs (`Held`), and the count of the probe that its answer asks
  for is taken while that one is held. A matched request is taken out and never
  put in again (`ToldOnce`), so its channel is closed once. `ResultIsMatched` adds
  where an address comes from on its way (`ResultInv`), and the action property
  `IPv4Preferred` that an IPv6 address is kept while anything else may come.
* `WebRTCConfigProofs`: of the mapping `GraceWhenSettled` and `OnlyMappedPass`,
  for any host and any order of answers; what the loop counts is what it has
  read, each lookup once (`Counted`, `Reports`), and what it keeps leads from an
  address found to the local one (`Kept`). `OnlyMappedPass`, and with it
  `SocketsMapped`, assume that no lookup finds one of the host's own addresses
  (`External \cap Local = {}`): exactly what `MCNatPublic` shows to be needed. Of
  the configuration `PublicAddress`, `OpenIsAccounted` and `SocketsMapped`, for any
  configurations, reloads and failures: the sockets open are those of the
  completed creations of muxes and of the one under way, each once (`Owned`), on
  addresses that pass the filters (`Allowed`), and each step of the call has settled
  its part of rules and servers (`Progress`). `RoundRobin` holds
  until the signed counter wraps (`Unwrapped`; the observations name what happens
  then), since turn `i` of an address is port `i` modulo their number
  (`Turns`).

The invariants that the theorems name are checked by the runs as well, and the
inductive ones were model-checked with the constants of those runs before they
were proved.

What stays with TLC: liveness and everything else that depends on fairness
(`Drains`, `Returns`, `CallsReturn`, `EndsAfterClose`, and the liveness half of the
refinements of `PacedStream`), as the prover does not handle `ENABLED`.

## Not modelled, and why

* The fields inside an H.264 or H.265 parameter set (`h26xhelper.go`):
  exponential-Golomb numbers read one after the other, without a state that
  could go wrong; better tested against real streams. `ExtractVP8VideoSize`
  reads two numbers at fixed places. VP9 is parsed by pion.
* `twcc`: one decision under one lock; the packets it depends on are in pion's
  recorder.
* YAML, defaults, CIDR lists that cannot be parsed, and settings that
  `NewWebRTCConfig` only copies to pion, ICE lite among them.
* `rtc_unix.go`, `rtc_windows.go`: read a buffer size and log a warning.
* `PassThrough`, the packet factory, packet times and header extensions: no
  state of their own.
* Parsing of a server's address and of STUN messages (`ip.go`): the answers of
  the model are what parsing yields, an address, none, or another transaction.
* A second `Close` or `Start`, where the code has no guard: see the
  observations. The models call `Close` and `Start` once.
* Goroutines that share memory without a lock do not occur in the modelled
  parts, so there are no data races to choose outcomes for.

## Plan

The order was: what media depends on packet by packet (bucket, NACK,
wraparound), what runs concurrently (pacers), what recovers (RED, delay), what
runs at start (external IP, NAT mapping), and then what composes or surrounds
these (configuration and sockets, round-trip times, payloads). All of that is
modelled. What could be added:

1. AV1 packets whose units are not counted, or begin with the rest of a unit, once
   the code looks for key frames in them; `Sent` then has to have them too.
2. Two interceptors that answer each other, in place of one and the stamps of
   all that was sent; it would need a bound on what is under way.
3. A caller that pushes NACKs out of order, with the pairs it then misses as a
   property that fails, once the documentation says what is promised there.
