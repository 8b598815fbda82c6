----------------------------- MODULE StreamsMap -----------------------------
(***************************************************************************)
(* Opening, accepting and retiring the streams of one type and one         *)
(* initiator: the outgoing{Bidi,Uni}StreamsMap of the endpoint that opens  *)
(* them, the incoming{Bidi,Uni}StreamsMap of its peer, the goroutines that *)
(* block in OpenStreamSync and AcceptStream, and the MAX_STREAMS frames    *)
(* between the two, which may be delayed, reordered and duplicated.        *)
(*                                                                         *)
(* A method runs under its map's mutex and is one step; GetOrOpenStream    *)
(* drops its read lock before it takes the write lock, and is two.  A      *)
(* stream is its ID; what is sent on it is left out, and so is the set of  *)
(* streams in the outgoing map: openStreamImpl does not look at it.        *)
(***************************************************************************)
EXTENDS Integers, FiniteSets

CONSTANTS
    First,          \* the first stream ID of this type and initiator
    MaxNumStreams,  \* config.MaxIncoming(Uni)Streams of the accepting endpoint
    Openers,        \* goroutines that call OpenStreamSync
    Acceptors,      \* goroutines that call AcceptStream
    Callers,        \* goroutines that call GetOrOpenStream: the run loop, and
                    \* h2quic's server through session.GetOrOpenStream
    EarlyReset,     \* whether streams may be completed before they are accepted
    MaxOpened       \* bound: the number of streams ever opened

ASSUME StreamsAssumption ==
    /\ First \in 0..3
    /\ MaxNumStreams \in Nat
    /\ "run" \in Callers /\ Callers \subseteq {"run", "h2"}
    /\ EarlyReset \in BOOLEAN
    /\ MaxOpened \in Nat
    /\ IsFiniteSet(Acceptors) /\ IsFiniteSet(Openers)

VARIABLES
    out,       \* outgoingItemsMap: next, max, set, blocked(Sent), closed
    in,        \* incomingItemsMap: streams, toAccept, toOpen, max, closed
    opener,    \* where each opener is: "idle", "waiting" in cond.Wait, "woken"
    acceptor,  \* the same for each acceptor
    call,      \* the ID a caller is about to open, between the two locks
    frames,    \* stream limits announced: transport parameter and MAX_STREAMS
    err        \* the error that closes the accepting session

vars == <<out, in, opener, acceptor, call, frames, err>>

None == -1
Thread == {"idle", "waiting", "woken"}

-----------------------------------------------------------------------------
(* protocol.StreamID *)

\* Mutant of MaxStreamID: the n-th stream after the first.
MaxStreamIDAfter(n) == First + 4 * n

MaxStreamID(n) == IF n = 0 THEN 0 ELSE First + 4 * (n - 1)
StreamNum(id) == id \div 4 + 1
IDs == {First + 4 * k : k \in 0..MaxOpened - 1}

Waiting(threads) == {t \in DOMAIN threads : threads[t] = "waiting"}

Broadcast(threads) ==
    [t \in DOMAIN threads |-> IF threads[t] = "waiting" THEN "woken" ELSE threads[t]]

\* Mutant of Signal: once, however many streams were opened.
SignalOnce(threads, n) ==
    {[threads EXCEPT ![t] = "woken"] : t \in Waiting(threads)}
        \cup (IF Waiting(threads) = {} THEN {threads} ELSE {})

\* cond.Signal, n times: each wakes one waiting goroutine, if there is one.
Signal(threads, n) ==
    {[t \in DOMAIN threads |-> IF t \in w THEN "woken" ELSE threads[t]] :
        w \in {w \in SUBSET Waiting(threads) :
                 \/ Cardinality(w) = n
                 \/ w = Waiting(threads) /\ Cardinality(w) < n}}

-----------------------------------------------------------------------------
(* outgoingItemsMap *)

CanOpen == out.set /\ out.next <= out.max

OpenNext ==
    /\ CanOpen /\ ~out.closed
    /\ out.next < First + 4 * MaxOpened
    /\ out' = [out EXCEPT !.next = @ + 4]

\* qerr.TooManyOpenStreams, and one STREAMS_BLOCKED frame for each limit, which
\* the peer ignores.
TooManyOpenStreams ==
    /\ ~CanOpen /\ ~out.closed
    /\ out' = [out EXCEPT !.blocked = TRUE]

OpenStream ==
    /\ OpenNext \/ TooManyOpenStreams
    /\ UNCHANGED <<in, opener, acceptor, call, frames, err>>

\* One turn of the loop in OpenStreamSync, by a new caller or a woken one.
OpenStreamSync(o) ==
    /\ opener[o] # "waiting"
    /\ \/ OpenNext /\ opener' = [opener EXCEPT ![o] = "idle"]
       \/ TooManyOpenStreams /\ opener' = [opener EXCEPT ![o] = "waiting"]
       \/ /\ out.closed /\ opener' = [opener EXCEPT ![o] = "idle"]
          /\ UNCHANGED out
    /\ UNCHANGED <<in, acceptor, call, frames, err>>

\* UpdateLimits or HandleMaxStreamsFrame, and SetMaxStream.
SetMaxStream(n) ==
    LET id == MaxStreamID(n)
    IN  /\ n \in frames
        /\ ~out.set \/ id > out.max
        /\ out' = [out EXCEPT !.max = id, !.set = TRUE, !.blocked = FALSE]
        /\ opener' = Broadcast(opener)
        /\ UNCHANGED <<in, acceptor, call, frames, err>>

CloseOutgoing ==
    /\ ~out.closed
    /\ out' = [out EXCEPT !.closed = TRUE]
    /\ opener' = Broadcast(opener)
    /\ UNCHANGED <<in, acceptor, call, frames, err>>

-----------------------------------------------------------------------------
(* incomingItemsMap *)

NextToAccept == in.toAccept + 4

\* One turn of the loop in AcceptStream.
AcceptStream(a) ==
    /\ acceptor[a] # "waiting"
    /\ \/ /\ in.closed
          /\ acceptor' = [acceptor EXCEPT ![a] = "idle"] /\ UNCHANGED in
       \/ /\ ~in.closed /\ in.toAccept \in in.streams
          /\ acceptor' = [acceptor EXCEPT ![a] = "idle"]
          /\ in' = [in EXCEPT !.toAccept = NextToAccept]
       \/ /\ ~in.closed /\ in.toAccept \notin in.streams
          /\ acceptor' = [acceptor EXCEPT ![a] = "waiting"] /\ UNCHANGED in
    /\ UNCHANGED <<out, opener, call, frames, err>>

\* Mutant of AboveLimit: off by one.
AtLimit(id) == id >= in.max

AboveLimit(id) == id > in.max

\* GetOrOpenStream for a stream the peer opened, under the read lock.  (For
\* an ID below toOpen it returns the stream, or nil, and changes nothing.)
CheckStream(c, id) ==
    /\ err = "none" /\ call[c] = None /\ ~in.closed
    /\ id < out.next
    /\ IF AboveLimit(id) THEN err' = "limit" /\ UNCHANGED call
       ELSE id >= in.toOpen /\ call' = [call EXCEPT ![c] = id] /\ UNCHANGED err
    /\ UNCHANGED <<out, in, opener, acceptor, frames>>

NewStreams(c) == {in.toOpen + 4 * k : k \in 0..((call[c] - in.toOpen) \div 4)}

\* The rest of it, under the write lock.
OpenUpTo(c) ==
    LET new == NewStreams(c)
    IN  /\ call[c] # None
        /\ in' = [in EXCEPT !.streams = @ \cup new, !.toOpen = call[c] + 4]
        /\ acceptor' \in Signal(acceptor, Cardinality(new))
        /\ call' = [call EXCEPT ![c] = None]
        /\ UNCHANGED <<out, opener, frames, err>>

MaxAllowed(left) == in.toOpen + 4 * (MaxNumStreams - Cardinality(left) - 1)

\* Mutant of Announce: the MAX_STREAMS frame is forgotten.
AnnounceNothing(max) == frames

\* queueControlFrame(&wire.MaxStreamsFrame{...})
Announce(max) == frames \cup {StreamNum(max)}

\* DeleteStream, from onStreamCompleted: the peer may open another stream.
DeleteStream(id) ==
    LET left == in.streams \ {id}
        max == MaxAllowed(left)
    IN  /\ id \in in.streams
        /\ EarlyReset \/ id < in.toAccept
        /\ IF MaxNumStreams > Cardinality(left)
           THEN /\ in' = [in EXCEPT !.streams = left, !.max = max]
                /\ frames' = Announce(max)
           ELSE in' = [in EXCEPT !.streams = left] /\ UNCHANGED frames
        /\ UNCHANGED <<out, opener, acceptor, call, err>>

\* CloseWithError: the run loop has ended.
CloseIncoming ==
    /\ ~in.closed /\ call["run"] = None
    /\ in' = [in EXCEPT !.closed = TRUE]
    /\ acceptor' = Broadcast(acceptor)
    /\ UNCHANGED <<out, opener, call, frames, err>>

-----------------------------------------------------------------------------
Init ==
    /\ out = [next |-> First, max |-> 0, set |-> FALSE, blocked |-> FALSE,
              closed |-> FALSE]
    /\ in = [streams |-> {}, toAccept |-> First, toOpen |-> First,
             max |-> MaxStreamID(MaxNumStreams), closed |-> FALSE]
    /\ opener = [o \in Openers |-> "idle"]
    /\ acceptor = [a \in Acceptors |-> "idle"]
    /\ call = [c \in Callers |-> None]
    /\ frames = {MaxNumStreams}
    /\ err = "none"

Opener ==
    \/ OpenStream
    \/ \E o \in Openers : OpenStreamSync(o)
    \/ \E n \in frames : SetMaxStream(n)
    \/ CloseOutgoing

Acceptor ==
    \/ \E a \in Acceptors : AcceptStream(a)
    \/ \E c \in Callers, id \in IDs : CheckStream(c, id)
    \/ \E c \in Callers : OpenUpTo(c)
    \/ \E id \in in.streams : DeleteStream(id)
    \/ CloseIncoming

Next == Opener \/ Acceptor

Spec == Init /\ [][Next]_vars

\* Every goroutine keeps running, stream and MAX_STREAMS frames are delivered
\* (they are retransmitted until they are), applications call AcceptStream and
\* finish the streams they accepted.  Nobody has to open or close anything, and
\* the peer does not have to reset streams that were not accepted yet.
Fairness ==
    /\ \A o \in Openers : WF_vars(opener[o] = "woken" /\ OpenStreamSync(o))
    /\ \A a \in Acceptors : WF_vars(AcceptStream(a))
    /\ WF_vars(\E n \in frames : SetMaxStream(n))
    /\ \A c \in Callers : WF_vars((\E id \in IDs : CheckStream(c, id)) \/ OpenUpTo(c))
    /\ WF_vars(\E id \in in.streams : id < in.toAccept /\ DeleteStream(id))

FairSpec == Spec /\ Fairness

-----------------------------------------------------------------------------
\* Type invariant.
TypeOK ==
    /\ out \in [next : Nat, max : Nat, set : BOOLEAN, blocked : BOOLEAN,
                closed : BOOLEAN]
    /\ in \in [streams : SUBSET IDs, toAccept : Nat, toOpen : Nat, max : Nat,
               closed : BOOLEAN]
    /\ opener \in [Openers -> Thread] /\ acceptor \in [Acceptors -> Thread]
    /\ call \in [Callers -> IDs \cup {None}]
    /\ frames \subseteq 0..MaxNumStreams + MaxOpened
    /\ err \in {"none", "limit"}

\* "MaxIncomingStreams is the maximum number of concurrent bidirectional
\* streams that a peer is allowed to open": GetOrOpenStream and DeleteStream,
\* which only adjust maxStream, never let more than that many be open at once.
ConcurrentLimit == Cardinality(in.streams) <= MaxNumStreams

\* A peer that runs this code never gets "peer tried to open stream": what
\* SetMaxStream learned from MAX_STREAMS frames, in whatever order they came,
\* is never more than what GetOrOpenStream allows now.
LimitRespected == err = "none"

\* "highestStream is only modified by this function", so GetOrOpenStream does
\* not check again under the write lock: still no stream is created twice, since
\* nextStreamToOpen never goes back and only streams it passes are created.
OpenedOnce ==
    [][/\ in'.toOpen >= in.toOpen
       /\ \A id \in in'.streams \ in.streams : in.toOpen <= id /\ id < in'.toOpen]_vars

\* No wake-up is lost: when the stream that AcceptStream waits for is there, or
\* the session is closed, not all blocked callers are still asleep; the same
\* for OpenStreamSync and the limit it waits for.
NoLostWakeup ==
    /\ Waiting(acceptor) # {} /\ (in.closed \/ in.toAccept \in in.streams)
        => \E a \in Acceptors : acceptor[a] = "woken"
    /\ Waiting(opener) # {} /\ (out.closed \/ CanOpen)
        => \E o \in Openers : opener[o] = "woken"

\* AcceptStream "returns the next stream opened by the peer": if a stream is
\* open that was not accepted, AcceptStream finds one.
AcceptFindsStream ==
    (\E id \in in.streams : id >= in.toAccept) => in.toAccept \in in.streams

\* AcceptStream waits for a stream that was reset and deleted before it was
\* accepted, and hands out none of the later ones.
AcceptStuck == in.toAccept < in.toOpen /\ in.toAccept \notin in.streams

\* OpenStreamSync "blocks until the peer's concurrent stream limit allows a new
\* stream to be opened": as long as the peer's application accepts streams and
\* finishes those it accepted, the stream that a blocked call waits for is opened,
\* by that call or by one that overtakes it.  Exceptions are that either side
\* closed, and that the peer's AcceptStream is stuck: the application then gets,
\* and finishes, no more streams.  CloseWithError unblocks everybody.
BlockedCallsReturn ==
    /\ \A id \in IDs :
          Waiting(opener) # {} /\ out.next = id ~>
              out.next > id \/ out.closed \/ in.closed \/ AcceptStuck
    /\ in.closed ~> \A a \in Acceptors : acceptor[a] = "idle"
    /\ out.closed ~> \A o \in Openers : opener[o] = "idle"

====
