# A TLA+ model of qed

qed is a QUIC implementation in Go (a fork of quic-go) with one addition: an
endpoint may use several network paths. This directory holds TLA+ modules that
model its transport state machines, TLC configurations that check them on small
instances, and TLAPS proofs of the safety properties that the passing runs check.
Source paths below are relative to the root of the repository; `PROJECT.json`
maps each definition to its lines.

    tlc -config Stream.cfg MCStream        # check one configuration
    tlapm SessionProofs.tla                # check the proofs of one module

A configuration belongs to the module of its name, or to `MC` and its name where
there is such a module.

## The system

One **session** (`session.go`) is one goroutine, its run loop. It takes packets,
timers and requests from channels, and composes and sends packets. Applications
call streams from goroutines of their own. The parts and how they meet:

| Part | State | Operations | Meets |
|---|---|---|---|
| Sent packet handler (`internal/ackhandler/sent_packet_handler.go`, `sent_packet_history.go`, `packet_number_generator.go`) | packets in flight and their links to retransmissions, retransmission queue, bytes in flight, probe permissions, alarm | sent, retransmitted, acknowledged, alarm, probe, handshake complete | run loop, congestion control |
| Run loop and `sendPackets` (`session.go`) | pacing deadline, keep-alive, what to send next | wait, fire alarm, pace, send | everything in the session |
| Received packet handler (`received_packet_handler.go`, `received_packet_history.go`) | ranges received, ACK queued or timed | packet received, ACK taken, old ranges ignored | the peer's sent packet handler |
| Streams maps (`streams_map*.go`) | next IDs, limits, waiting goroutines | open, accept, get or open, delete, MAX_STREAMS, close | run loop, application goroutines, `h2quic` |
| Streams and flow control (`send_stream.go`, `receive_stream.go`, `internal/flowcontrol`, `window_update_queue.go`, `framer.go`) | offsets, windows, cancellation flags | write, read, close, cancel, frames, window updates | run loop, application goroutines |
| Frame sorter (`frame_sorter.go`) | gaps, queue | push, pop | receive streams, crypto streams |
| Path scheduler (`scheduler.go`, `schedulerImplementation.go`, `path.go`) | paths, path IDs, weights, last path | add and withdraw addresses, choose a path, weigh paths | run loop, four unsynchronised goroutines |
| One-way delay (`session.go`, `internal/wire/owd*.go`) | delay per path | measure, answer, store | scheduler, peer |
| Handshake (`internal/handshake/crypto_setup.go`, `crypto_stream*.go`, `packet_packer.go`, `packet_unpacker.go`) | keys, messages of each encryption level, packets that cannot be decrypted yet | message read and written, key handed over, packet packed and received, close | three goroutines per endpoint: TLS, `RunHandshake`, run loop |
| Client (`client.go`) | version, connection IDs, token, current session | dial, Version Negotiation, Retry, cancel | session, packet handler map, server |
| Server (`server.go`, `server_session.go`) | accept queue, closed | Initial, Retry, Version Negotiation, accept, close | sessions, packet handler map |
| Packet handler map (`packet_handler_map.go`) | handler for each connection ID, pending deletions | add, remove, delete later, close server | client, server, sessions |
| Congestion control, wire formats, multiplexer, `h2quic` | | | not modelled, see below |

The behaviours that are hard to test, and that the properties aim at:

* packets, ACKs and window updates are lost, duplicated and reordered, so that a
  packet and its retransmissions are acknowledged or lost in any order;
* history, queue and counters of loss recovery are kept in step by increments;
* an alarm grants a probe, and by the time the probe is sent the reason is gone;
* a goroutine checks under a read lock and acts under a write lock;
* `sync.Cond` signals and one-element channels may be missed, mutexes are taken
  in two orders, timers are drained twice;
* the scheduler has no lock at all;
* TLS and the run loop hand over keys in an order that both must know;
* packets arrive before their keys, and Retry and Version Negotiation packets
  after they matter;
* a session stops before it is added to the map it removes itself from, and the
  timer of that removal fires later;
* Close waits for those who wait for somebody else;
* unsigned differences of clocks, windows and stream counts at zero.

`PROJECT.json` lists them as hazards, each at the line where it bites and with
the properties that would catch it.

## Modules

Each module has its state as variables, one action per method or per stretch of
code between two points where another goroutine matters, and its properties at
the end. Definitions named "Mutant of X" are deliberately wrong variants of X;
nothing uses them, except to see that a property notices.

**SentPacketHandler.** `gen` is the packet number generator, `hist` the history
with its incrementally kept `first`, `num` and `numHS`, `queue` the
retransmission queue. A packet carries a set of frames; new packet `pn` carries
the frames `<<pn, 1>>` and `<<pn, 2>>`, and a retransmission may be split in two
packets (`Packings`, for `packer.PackRetransmission`). `rAs` and `rOf` are
`retransmittedAs` and `retransmissionOf`. An ACK is any set of packet numbers.
Time is left out: lost are the oldest packets up to any point below the largest
acknowledged one (send times grow with packet numbers), and each alarm may fire
whenever `alarm` is set. The congestion window is any element of `Cwnds`.
`pending` is a history variable: frames sent and not acknowledged.
`StopRetransmissionsFor` is a least closed set instead of a recursion.

**SendLoop** extends SentPacketHandler by the run loop around it: an iteration
waits for an event, fires a due alarm, applies pacing, and calls `sendPackets`.

**StreamsMap** is the outgoing map of one endpoint, the incoming map of its peer,
goroutines blocked in `OpenStreamSync` and `AcceptStream`, and MAX_STREAMS frames
in between. `GetOrOpenStream` is two steps because it changes locks. Which streams
are in the outgoing map is left out: `openStreamImpl` does not look at it.

**Scheduler** is the path scheduler of one endpoint with the goroutines that use
it; each shared access that another goroutine can come between is a step. The
paths of a new address come in any order, since `localAddrs` is a Go map. A path ID
is the pair of addresses it is a checksum of (checksums that collide are left
out), and path zero, whose ID is 0, is none of these pairs. `panic` is the panic that
ended the process: `s.session` is nil, `ListenUDP` fails, `rand.Intn(0)`.
**PathMeasurement** is the exchange of OWD and OWD_ACK frames between two
endpoints, including that frames are recognised by their type byte.

**FrameSorter** runs `Push` on real gap lists and a queue keyed by offset. Bytes
are their own offsets, so data cut at the wrong place is visible. **ByteStream**
is what it promises: bytes arrive in any order, the reader gets them in order,
each once, and all of them in the end. FrameSorter implements it under the
mapping `arrived <- received, output <- delivered, failed <- err # "none"`.
**ReceivedPackets** keeps the range list and decides when an ACK is due.

**Stream** joins send streams, receive streams, stream and connection flow
control and the window update queue of two endpoints. A frame once sent stays in
`net` and can be delivered any number of times. `Read` is two steps, the copy without
the mutex and the accounting with it; so is `CancelWrite`, which completes the stream
after it has unlocked.
**SendStream** is one send stream lock by lock: one goroutine in `Write` or `Close`,
another in `SetWriteDeadline` at any time, the run loop in `AppendStreamFrames`, the
timer. `Write` reads the deadline and the timer without the mutex; if the deadline is
set and the timer not yet, it panics.

**Handshake** is a client and a server, each with three goroutines: TLS (external:
the script of one handshake, with the calls it makes into `cryptoSetup`),
`RunHandshake`, and the run loop with its crypto streams, packer and unpacker.
Unbuffered channels are one step of both sides. A packet is its encryption level
and the part of a flight it carries; a packet once sent stays in `sent`, and can
be received, lost, repeated and retransmitted.

**Dial** is a client that dials a server: `dial` and its sessions, the client's
entries in the packet handler map with their timers, and a server that answers
Initials with Version Negotiation, Retry or a session. Connection IDs are
numbers in the order they are chosen. Of the handshake there is what depends on
versions, tokens and connection IDs.

**Listener** is a server with the goroutines of `handleInitial`, the run loops of
its sessions, the accept queue, callers of `Accept` and `Close`, and the timers
of the packet handler map.

**MCStream** and **MCDial** are instances for TLC.

The proofs are in modules that extend the components they are about:

| Module | About |
|---|---|
| **SentHistoryProofs**, **SentPacketHandlerProofs** | loss recovery: SentPacketHandler |
| **SessionProofs** | StreamsMap, SendStream, Scheduler |
| **StreamProofs** | Stream |
| **ReceiveProofs** | FrameSorter with ByteStream, ReceivedPackets |
| **HandshakeProofs** | Handshake |
| **EndpointProofs** | Dial, Listener |
| **Sums** | sums over finite sets, which loss recovery and flow control need |

A module that extends two components sees the names of both. So SendStream, Scheduler,
ReceivedPackets and Listener have `SendSpec`, `SchedulerSpec`, `ReceivedSpec` and
`ListenerSpec` (and likewise `...Init`, `...Next`, `...TypeOK`) for the `Spec` of the others.

## What the runs show

| Run | Instance | Result |
|---|---|---|
| `sent_packets` | four packet numbers, one may be skipped, two windows, TLP and RTO | `NothingForgotten`: a frame is outstanding or queued until acknowledged. `HistoryConsistent`, `QueuedOnce`, `AlarmArmed`, `NoBug`, `SkippedUnused`. `InFlightCovered`: bytes in flight never wrap |
| `send_loop` | three packet numbers, pacing, keep-alives, fairness | a granted tail loss probe is sent in the end (`ProbeIsSent`) |
| `streams_map` | two openers, two acceptors, the run loop, limit 2, four streams, fairness | the limit holds for concurrent streams and no frame order makes the peer exceed it, no wake-up is lost; `BlockedCallsReturn`: blocked calls return when the peer accepts and completes streams, and when the session closes, unless a stream was reset before it was accepted |
| `scheduler` | two local and two remote addresses, IPv4 and IPv6, three ADDR_MOD frames | paths form a full mesh per IP version, a round uses each path once (unless its address was withdrawn and announced again); `StaleTotal`: the total that a weighted choice draws from is at most the sum of the weights and one for each path, and is zero only while it is being summed up |
| `frame_sorter` | seven bytes, three gaps, fairness | gaps are exactly what is missing; `InOrder`: the sorter implements `ByteStream!FairSpec` |
| `received_packets` | five packets, three ranges | ranges are exactly what was received, an ACK is due for what needs one and is never empty |
| `stream` | a bidirectional and a unidirectional stream share a window, each end may cancel the first and the reader the second, also during `Write`, fairness | `NoPeerError`: no limit is exceeded, and the final offset only by data sent after RESET_STREAM; `CreditExact`: what the application got is credited once, until RESET_STREAM; a stream that can send is queued for sending; each half is completed once; `Delivered`: without a cancel, all that was written is read, and so is the end of the stream |
| `send_stream` | four writes of up to three bytes, deadlines set and cleared at any time, fairness | neither a waiting writer nor a FIN is forgotten; until a deadline is set, every call returns |
| `handshake` | flights of up to two frames, one undecryptable packet, either side closes or fails, fairness | `InStep`: the run loop waits for what TLS hands over, TLS reads the messages it expects, and writes only while the run loop does not pack; `NothingLeftBehind`: no packet stays queued once its key is there; `HelloArrived`: the client stops sending Initials only when the server has them all; the client completes, and `Close` returns |
| `dial` | four versions, servers with and without Retry, each packet twice, cancellation, fairness | `Agreement` on session and version; a session that dial returned is not torn down; dial returns, if what is lost is sent again before a handshake timeout; a failed dial leaves no entry in the map |
| `listener` | two sessions, one acceptor, two closers, a queue of one, fairness | packets reach every session that runs, `Close` and `Accept` return, stopped sessions are forgotten |

The run `path_measurement` shows a disagreement between code and documentation:
`OwdAckFrame.Write` writes the type byte of an OWD frame, so that no measured
delay reaches `setOwd`, against "the OWD ACK frame is used to send the OWD back to
the initiating endpoint" (`docs/ba_mk_final.pdf`, p. 34). With the type byte that
the parser expects, the property holds.

### Properties that do not hold

These configurations are not among the runs. Each checks one property that a
comment, an API description or the thesis in `docs/` suggests; TLC answers with
a counterexample. They are kept because they say where the properties of the
runs end.

| Configuration | What happens |
|---|---|
| `SentPacketHandler_BytesInFlightExact` | `SetHandshakeComplete` removes packets and leaves their bytes in flight; `InFlightCovered` is what remains |
| `SendLoop_ProbeHasPacket` | with pacing, an ACK between alarm and probe makes the session close itself |
| `SendLoop_RTOProbesNotPaced` | RTO probes wait for pacing |
| `StreamsMap_AcceptFindsStream` | a stream that is reset before it is accepted blocks `AcceptStream` for all later ones |
| `StreamsMap_ZeroLimit` | a limit of zero streams still allows stream 0 |
| `StreamsMap_OpenedOnce` | two concurrent `GetOrOpenStream` calls move `nextStreamToOpen` back |
| `Scheduler_IntnPositive`, `Scheduler_RemoteAddrKnown`, `Scheduler_WithdrawnUnused` | `rand.Intn(0)` while weights are summed; an index used as path ID; withdrawn paths stay in use |
| `PathMeasurement_DeltaWritten` | with a clock that is behind, a delay wraps around |
| `FrameSorter_MoreDataIsUnread` | a covered frame stays in the queue after its bytes were read |
| `Stream_NoError` | a cancel while data waits: data is sent after RESET_STREAM announced the final offset, and the peer closes the connection; `NoPeerError` is what remains |
| `Stream_WriteReturns` | unread bytes of a reset stream are never credited to the connection |
| `SendStream_SetWriteDeadlineReturns`, `SendStream_NoDeadlock` | `SetWriteDeadline` waits for a drained timer; after an expired deadline the stream is still queued for sending, and two mutexes are taken in two orders |
| `Handshake_SecureMeansComplete` | the client receives a forward-secure packet before the server has completed: the server sends 1-RTT packets as soon as it has the key |
| `Handshake_ServerCompletes` | the client drops its handshake packets when it receives a forward-secure packet, and the server may still need them |
| `Handshake_RunHandshakeReturns` | when the session closes while TLS succeeds, `RunHandshake` takes the `closeChan` case and waits for a TLS error that never comes |
| `Dial_LiveReachable` | after a Retry the client uses its source connection ID again, and the timer of the first session's removal deletes it from the map |
| `Dial_EstablishedStays` | if `AcceptCookie` answers one copy of an Initial with a Retry and another with a session, the Retry, arriving late, destroys the established session |
| `Listener_CloseClosesAll` | `CloseServer` does not close a session that was created and is not yet in the map |
| `Listener_NoPanic` | `Close` of a server made by `ListenAddr` closes the socket, and `listenConn` panics with the error |
| `Listener_CloseEnds` | without a caller of `Accept`, `Close` waits forever for a session that waits for the queue |

### Bounds

Named in the modules' CONSTANTS as bounds; all others are the code's own limits, made
small so that they are reached. Four packet numbers allow a packet, its split
retransmission and a probe of one of the halves, with ACKs for any subset of them.
Four streams under a limit of two need two completions to go on. Seven bytes with
three gaps allow a frame that overlaps two gaps and a queued frame between them, and
one gap too many. Windows of one and two bytes close after every frame, and a stream
of two bytes needs a window update. Two addresses on both ends of which one has
another IP version give paths that must exist and paths that must not. Flights of more
units than a frame holds make handshake messages arrive in pieces. A queue of one
makes the second session wait for `Accept`. `CHECK_DEADLOCK FALSE` is set everywhere:
connections end, and bounds end every behaviour.

### Fairness

Weak fairness stands for the Go scheduler: a goroutine that can run, runs. Strong
fairness is used where a goroutine competes for a mutex (`SendStream`; Go's mutex
hands over to a waiter after 1 ms) and for a frame that is sent again and again
(`PathMeasurement`). In `StreamsMap` the fairness of the run loop is that of the
goroutine, not of each call: it handles some frame, not each of them first. Delivery
of stream frames is weakly fair because loss recovery retransmits them, which is what
`NothingForgotten` is about. Nothing is assumed about applications, except that in
`Stream` a reader reads, that the peer in `StreamsMap` accepts streams and completes
those it accepted, and that in `Listener` somebody calls `Accept` in a loop. In
`Handshake` and `Dial` packets are retransmitted, so that of packets sent again and
again not every one is lost; nobody has to cancel or close. In `Handshake` the
iterations of the run loop are strongly fair: packets that keep coming do not stop it
from sending, since every iteration ends with `sendPackets`.

## What is proved

**Loss recovery.** `SentPacketHandlerProofs` proves, for every value of the constants
that satisfies `ConstantsAssumption` (so for any number of packets, any limits, any
skipping), that `SentPacketHandler!Spec` implies always `TypeOK`, `HistoryConsistent`,
`NothingForgotten`, `NoBug`, `AlarmArmed`, `QueuedOnce`, `SkippedUnused` and
`InFlightCovered`.

None of them is inductive alone. The invariant `IInv` is their conjunction with

* `LinksOK`: what a packet was retransmitted as is in the history, is younger, has
  the same encryption level, points back, and carries nothing the original did
  not. It gives `NoBug` at once. It survives losses because lost are always the
  oldest packets, and `SetHandshakeComplete` because levels agree along links;
* `QueueInv`: a queued packet is not outstanding and is what the history says it
  is, so that sending it again preserves `LinksOK`;
* `GenInv`, and that all numbers in use are below the generator's next one, so
  that new packets extend the history at its end. This keeps `firstOutstanding`
  right when packets are added, and skipped numbers unused.

`NothingForgotten` needs one more argument, for an ACK: everything
`stopRetransmissionsFor` reaches from the acknowledged packets carries only frames
of those packets. `StopReaches` shows it by taking "carries only acknowledged
frames" for the closed set in the definition of `StopRetransmissionsFor`.

`InFlightCovered` compares a counter with a sum over the history. That
`bytesInFlight` covers the sum is inductive together with `IInv`, once it is known what
each step does to the sum: packets that leave the history, or stop counting, take
their bytes with them. It is not an equation, since
`SetHandshakeComplete` leaves bytes behind. A sum needs an induction over a finite
set; `Sums` does it for the one operator that is needed, over a set of good subsets.

`SentHistoryProofs` has the invariant and a lemma for each operation of the history,
the queue and the generator; `SentPacketHandlerProofs` has the actions, the
inductive step and the theorems. TLC also finds `IInv` invariant on the instance of
`sent_packets`.

**Stream limits and wake-ups.** `SessionProofs` proves `LimitRespected`,
`ConcurrentLimit` and `NoLostWakeup` for any number of goroutines and
streams, under `RunLoopOnly`: the limit is not zero (see `StreamsMap_ZeroLimit`), and
`GetOrOpenStream` is called by the run loop alone (with `h2quic` it is not, see
`StreamsMap_OpenedOnce`). The limits rest on a budget: the streams that are open and
those the peer may still open are together at most `MaxNumStreams`; with it,
`maxStream` never goes back, and no limit ever announced is above it. Wake-ups rest
on `WakeInv`: no goroutine waits in `OpenStreamSync` while a stream may be opened, and
while one waits in `AcceptStream` and the next stream is there, at least as many
goroutines are awake as there are streams to accept.

**Reassembly.** `ReceiveProofs` proves `SorterImplementsByteStream`, that is
`FrameSorter!Spec => ByteStream!Spec` under the mapping above, for every length and
every limit on gaps. The invariant `SInv` says that every queued frame holds the
bytes of the stream at its offset, all of them received, and that what was
delivered are the bytes up to `readPos`.

`GapsAreExact` proves `GapsExact`. Its invariant `GInv` orders any two gaps instead of
neighbours. The gap after the last byte of the stream is never filled, so the loops
of `push` always stop inside the list (`LoopsHit`) and neither BUG error is reached.
`RemainingGaps` and `FilledGaps` say what is left of the gaps a frame touches, and which
bytes are missing afterwards.

**Received packets.** `ReceiveProofs` also proves `RangesExact`, `AckNotEmpty` and
`AckDue` for every limit on ranges, every threshold and any number of packets. A
lemma for each thing the code does to the list (insert, extend, merge, cut) says
which numbers it holds afterwards; order is stated for any two ranges, since the
order of neighbours would need an induction. `AckNotEmpty` needs the peer: it
confirms only ACK frames it has received, so a packet confirms nothing above its
own number (`PeerInv`), and `IgnoreBelow` leaves the packet it came with.

**Streams and flow control.** `StreamProofs` proves `CreditExact`, `NotStalled`,
`CompletedOnce` and `NoPeerError` for any number of streams, any windows and any
amount of data. Whether the receiver accepts a frame depends on its own state alone; that
it does rests on a chain through both ends (`StreamInv`). What it has seen of a
stream is at most what was sent, that is at most the window the sender knows, and
that at most the window the receiver enforces. MAX_STREAM_DATA frames still on
their way carry no more than that. For the connection the same chain runs through sums
over the streams (`Connection`). `NoPeerError` also needs `EndInv`: as long as nothing was
sent after a RESET_STREAM, an end is final (`Ends`), that is, FIN and RESET_STREAM carry
the offset where the half stopped, and the receiver knows no other. A cancel during
Write ends that, and `SentAfterReset` stays true from then on. `CreditExact` needs that
what Read copied and what it accounted for add up to its position, until a reset.
All four hold for all cancels.

**Send stream.** `WritesAreNotForgotten` (in `SessionProofs`) proves `NothingForgotten`
of SendStream. `SendInv` says who holds the mutex in which state, that data which
is still there belongs to an active stream, or to a Write that is about to make it one,
and that a Write without data that is about to wait finds the signal.

**Listener.** `SessionStaysReachable` (in `EndpointProofs`) proves `SessionReachable`
for any number of sessions and goroutines. `ListenerInv` adds that deletion timers
only run for sessions that have stopped.

**Dial.** `DialAgrees` and `DialedSessionStays` (in `EndpointProofs`) prove
`Agreement` and `EstablishedStays` for all lists of versions and any number of copies
of packets, under `DialConstants`: the client has a version, and the server's
`AcceptCookie` always asks for a cookie or never does. The last is what
`Dial_EstablishedStays` shows to be needed. `DialInv` rests on connection IDs: those
an Initial is encrypted with tell the client's sessions apart, and the one in a Retry
is fresh until the client takes the Retry. So if the server answers an Initial without
a token only by a Retry, an established session has taken that Retry, and a second one
is ignored.

**Scheduler.** `MeshIsFull` and `PathsOncePerRound` (in `SessionProofs`) prove
`FullMesh` and `OncePerRound` for any finite set of local addresses, any remote ones
and any number of ADDR_MOD frames. `SchedulerInv` adds that a path ID in `pathIds`
belongs to an address that is known or was withdrawn. And it adds that the address
object in an ADDR_MOD frame is newer than those in the paths, so that `Path.contains`,
which compares pointers, finds none and no path is removed. `TotalIsRecent` proves
`StaleTotal`. While the runner weighs paths, the total may lag behind by one for each
path it has weighed; while it sums up, the total is at most the weights of the paths
it has visited (`TotalInv`). A new path comes with the largest weight, so it only
helps.

**Handshake.** `HandshakeProofs` proves `InStep`, `NothingLeftBehind` and `HelloArrived` for
every size of frames, every limit on the packets that wait for their keys, and
whoever closes or fails at any moment. Its `IInv` has three parts.

* `StepInv` says of each endpoint, apart from the other one, that its state is determined
  by two numbers: the steps TLS has done (`tls[e].pc`) and the messages the run loop
  has handled. The keys follow from the first. `messageChan` holds the messages
  handled and not yet read, in the order of `Inbound(e)`. The run loop waits for
  what the messages handled call for and TLS has not handed over yet, a stretch of
  `Handed(e)`. `InStep` compares `HandleMessage` with the script of TLS at the one place where
  both are. It needs all of this, because how far the run loop is ahead varies: the
  client may have handled several messages before TLS reads the first. When TLS has
  failed, only the bounds remain (`Progress`), and they suffice for the keys.
* `Undecryptable`: at no time is a packet queued whose key is there. A read key is the
  last thing that `HandleMessage` waits for, by `StepInv`, and the message is then the last
  of its level, so that `tryDecryptingQueuedPackets` follows at once. If a message went on
  waiting after its read key, packets could stay behind.
* `HelloFirst`: before the server has handled the ClientHello its TLS has written
  nothing, it has sent nothing but CONNECTION_CLOSE, and nothing else from it is on its
  way. So a packet that makes the client stop sending Initials, other than one that
  closes, is proof that the ClientHello arrived.

Of the constants only `HandshakeAssumption` is used: frames have a length. TLC finds
`IInv` invariant on the instance of `handshake`.

Two of these proofs changed a model. In Dial the cases of `SessionAfter` overlapped, so
that its value depended on which of them is chosen; they exclude each other now. In
Scheduler the new paths had come in one fixed order.

Only model-checked:

* liveness, and everything that uses fairness: `ProbeIsSent`, `BlockedCallsReturn`,
  `Delivered`, `EverybodyReturns`, `ClientCompletes`, `CloseCompletes`,
  `DialSucceeds`, `FailedIsForgotten`, `CloseEnds`, `StoppedIsForgotten`, and of
  `InOrder` the part that says that all bytes are delivered. The provers do not know
  fairness;
* `MeasurementReturns` of PathMeasurement, which does not hold (see above).

Every other property of the passing runs, that is every safety property, has a theorem.

## What is left out

* Byte layouts of frames and headers, variable-length integers, packet number
  encoding: sequential code, tested byte by byte, of which the state machines need
  the fields only. `AddrModFrame.Length` and the number of ACK ranges that fit into a
  packet belong here.
* Cryptography, and TLS beyond the order of its calls. HelloRetryRequest, session
  tickets, and messages of a wrong encryption level: no peer that runs this code sends
  them, and `HandleMessage` has the error path (`messageErrChan`) for them only.
* RTT samples, the cubic function (floating point) and slow start: the congestion
  window is arbitrary, pacing a deadline. Lengths of timeouts; idle timeouts and
  handshake timeouts, so that `handshake` and `dial` are about losses that are repaired
  before one expires.
* The shutdown of each stream when a session closes, and the locks of receive
  streams (read deadlines follow the pattern of write deadlines).
* The server's check of the size of an Initial, which the client pads, and what a session
  sends whose TLS refuses the client. In `Dial`, `ClosedSessionDeleteTimeout` (a minute) is
  assumed to be longer than a dial takes. The code does not ensure it: `HandshakeTimeout`
  may be configured, and counts for each session of a dial.
* Sockets (but for the panic when one cannot be opened), the multiplexer and logging;
  HTTP/2 except for its calls of `GetOrOpenStream`; generated lists and mocks.
* A crash of the Go runtime on concurrent map access; the interleaved accesses
  themselves are modelled.

Type invariants (`TypeOK`, `SendTypeOK` and so on) are invariants of the instances of
the runs as well; they are not among the properties listed there. (SendLoop has none
of its own.)

## Plan

1. The locks of receive streams (as SendStream does for send streams), the packet
   packer's choice of frames, the shutdown of streams.
2. Windows of the congestion controller and pacing with integer arithmetic.
3. Pure algorithms against reference definitions: packet number inference, ACK
   ranges and their encoding, variable-length integers.
4. Abstract specifications: a reliable byte stream between two endpoints that
   Stream implements; a bounded set of streams that StreamsMap implements.
