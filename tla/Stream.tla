------------------------------- MODULE Stream --------------------------------
(***************************************************************************)
(* The sending halves of some streams at one endpoint and their receiving  *)
(* halves at the other, with flow control on streams and connection:       *)
(* sendStream, receiveStream, streamFlowController,                        *)
(* connectionFlowController, windowUpdateQueue and the part of framerI     *)
(* that chooses streams.  Applications write, read, close and cancel.      *)
(*                                                                         *)
(* Packets are left out: a frame that was sent is delivered any number of  *)
(* times and in any order, which is what loss, retransmission and          *)
(* reordering of packets come to.  A byte stands for a unit of data, and   *)
(* whether auto-tuning enlarges a window is arbitrary (it depends on the   *)
(* clock and the RTT).                                                     *)
(***************************************************************************)
EXTENDS Integers, FiniteSets, FiniteSetsExt, Functions

CONSTANTS
    Streams,
    Bidi,             \* the streams that are halves of bidirectional ones
    Cancels,          \* who cancels each stream: "write", "read"
    StreamWindow,     \* InitialMaxStreamData
    MaxStreamWindow,  \* Config.MaxReceiveStreamFlowControlWindow
    ConnWindow,       \* InitialMaxData
    MaxConnWindow,    \* Config.MaxReceiveConnectionFlowControlWindow
    MaxBytes          \* bound: the bytes written on each stream

ASSUME StreamAssumption ==
    /\ IsFiniteSet(Streams)
    /\ Bidi \subseteq Streams
    /\ Cancels \in [Streams -> SUBSET {"write", "read"}]
    /\ StreamWindow \in Nat \ {0} /\ MaxStreamWindow \in Nat
    /\ ConnWindow \in Nat \ {0} /\ MaxConnWindow \in Nat
    /\ StreamWindow <= MaxStreamWindow /\ ConnWindow <= MaxConnWindow
    /\ MaxBytes \in [Streams -> Nat]

VARIABLES
    snd,      \* the sendStreams
    rcv,      \* the receiveStreams
    sndConn,  \* connectionFlowController of the sender
    rcvConn,  \* connectionFlowController of the receiver
    queue,    \* windowUpdateQueue.queue
    queuedConn,
    net,      \* the frames that were sent
    err       \* the error the receiver closes the connection with

vars == <<snd, rcv, sndConn, rcvConn, queue, queuedConn, net, err>>

None == -1
Frame(kind, s, from, to, fin) ==
    [kind |-> kind, id |-> s, from |-> from, to |-> to, fin |-> fin]

\* A unidirectional stream is deleted once its half is completed; then
\* GetOrOpenSendStream and GetOrOpenReceiveStream return nil.
SndDeleted(s) == s \notin Bidi /\ snd[s].completed > 0
RcvDeleted(s) == s \notin Bidi /\ rcv[s].completed > 0

-----------------------------------------------------------------------------
(* The sender. *)

\* baseFlowController.sendWindowSize
SendWindowSize(c) == IF c.sent > c.sendWindow THEN 0 ELSE c.sendWindow - c.sent

\* Write, until it waits for writeChan.
Write(s) ==
    /\ err = "none"
    /\ ~snd[s].finished /\ ~snd[s].canceled
    /\ snd[s].data = 0
    /\ \E n \in 1..(MaxBytes[s] - snd[s].sent) :
          snd' = [snd EXCEPT ![s].data = n, ![s].active = TRUE]
    /\ UNCHANGED <<rcv, sndConn, rcvConn, queue, queuedConn, net, err>>

\* Close, which "must not be called concurrently with Write".
Close(s) ==
    /\ err = "none"
    /\ snd[s].data = 0 /\ ~snd[s].finished /\ ~snd[s].canceled
    /\ snd' = [snd EXCEPT ![s].finished = TRUE, ![s].active = TRUE]
    /\ UNCHANGED <<rcv, sndConn, rcvConn, queue, queuedConn, net, err>>

\* cancelWriteImpl
CancelWriteImpl(s) ==
    /\ snd' = [snd EXCEPT ![s].canceled = TRUE, ![s].canceling = TRUE]
    /\ net' = net \cup {Frame("reset", s, None, snd[s].sent, TRUE)}

\* CancelWrite, which may be called while Write is blocked, up to the unlock ...
CancelWrite(s) ==
    /\ err = "none"
    /\ "write" \in Cancels[s]
    /\ ~snd[s].canceled /\ ~snd[s].finished
    /\ CancelWriteImpl(s)
    /\ UNCHANGED <<rcv, sndConn, rcvConn, queue, queuedConn, err>>

\* ... and its call of onStreamCompleted.
CancelWriteCompletes(s) ==
    /\ err = "none"
    /\ snd[s].canceling
    /\ snd' = [snd EXCEPT ![s].canceling = FALSE, ![s].completed = @ + 1]
    /\ UNCHANGED <<rcv, sndConn, rcvConn, queue, queuedConn, net, err>>

\* streamFlowController.SendWindowSize
Window(s) == Min({SendWindowSize(snd[s]), SendWindowSize(sndConn)})

\* Whether the frame with the next n bytes has the FIN bit.
IsFin(c, n) == c.finished /\ ~c.finSent /\ n = c.data

\* framerI.AppendStreamFrames for a stream that is not deleted, and
\* popStreamFrame for as many bytes as fit into the packet.
PopStreamFrame(s) ==
    LET c      == snd[s]
        window == Window(s)
        newlyBlocked == SendWindowSize(c) = 0 /\ c.sendWindow # c.lastBlockedAt
    IN  /\ err = "none" /\ c.active
        /\ IF SndDeleted(s)
           THEN /\ snd' = [snd EXCEPT ![s].active = FALSE]
                /\ UNCHANGED <<sndConn, net>>
           ELSE IF c.data > 0 /\ window = 0
           THEN /\ newlyBlocked
                /\ snd' = [snd EXCEPT ![s].lastBlockedAt = c.sendWindow, ![s].active = FALSE]
                /\ UNCHANGED <<sndConn, net>>
           ELSE \E n \in IF c.data = 0 THEN {0} ELSE 1..Min({c.data, window}) :
                LET fin == IsFin(c, n)
                IN  /\ snd' = [snd EXCEPT ![s].data = @ - n, ![s].sent = @ + n,
                                          ![s].finSent = @ \/ fin,
                                          ![s].completed = IF fin THEN @ + 1 ELSE @,
                                          ![s].active = n < c.data]
                    /\ sndConn' = [sndConn EXCEPT !.sent = @ + n]
                    /\ net' = IF n = 0 /\ ~fin THEN net
                              ELSE net \cup {Frame("stream", s, c.sent, c.sent + n, fin)}
        /\ UNCHANGED <<rcv, rcvConn, queue, queuedConn, err>>

\* Mutant of HandleMaxStreamDataFrame: the framer is not told.
HandleMaxStreamDataFrameOnly(f) ==
    /\ snd' = IF SndDeleted(f.id) THEN snd
              ELSE [snd EXCEPT ![f.id].sendWindow = Max({@, f.to})]
    /\ UNCHANGED <<sndConn, net>>

\* handleMaxStreamDataFrame
HandleMaxStreamDataFrame(f) ==
    LET s == f.id
    IN  /\ snd' = IF SndDeleted(s) THEN snd
                  ELSE [snd EXCEPT ![s].sendWindow = Max({@, f.to}),
                                   ![s].active = @ \/ snd[s].data > 0]
        /\ UNCHANGED <<sndConn, net>>

HandleMaxDataFrame(f) ==
    /\ sndConn' = [sndConn EXCEPT !.sendWindow = Max({@, f.to})]
    /\ UNCHANGED <<snd, net>>

\* Mutant of HandleStopSendingFrame: a cancelled stream is cancelled again.
HandleStopSendingFrameAgain(f) ==
    LET s == f.id
    IN  /\ ~SndDeleted(s) /\ ~snd[s].finished
        /\ snd' = [snd EXCEPT ![s].canceled = TRUE, ![s].completed = @ + 1]
        /\ net' = net \cup {Frame("reset", s, None, snd[s].sent, TRUE)}
        /\ UNCHANGED sndConn

\* handleStopSendingFrame runs in the goroutine of the framer, so that nothing is
\* sent before it completes the stream.
HandleStopSendingFrame(f) ==
    LET s == f.id
    IN  /\ ~SndDeleted(s) /\ ~snd[s].canceled /\ ~snd[s].finished
        /\ snd' = [snd EXCEPT ![s].canceled = TRUE, ![s].completed = @ + 1]
        /\ net' = net \cup {Frame("reset", s, None, snd[s].sent, TRUE)}
        /\ UNCHANGED sndConn

SenderReceives(f) ==
    /\ err = "none"
    /\ \/ f.kind = "max_stream_data" /\ HandleMaxStreamDataFrame(f)
       \/ f.kind = "max_data" /\ HandleMaxDataFrame(f)
       \/ f.kind = "stop_sending" /\ HandleStopSendingFrame(f)
    /\ UNCHANGED <<rcv, rcvConn, queue, queuedConn, err>>

-----------------------------------------------------------------------------
(* The receiver. *)

\* Mutant of HasWindowUpdate: not yet at the threshold.
HasWindowUpdateLate(c) == c.window - c.read < (3 * c.size) \div 4

\* baseFlowController.hasWindowUpdate, with WindowUpdateThreshold = 0.25
HasWindowUpdate(c) == c.window - c.read <= (3 * c.size) \div 4

\* Mutant of Exceeds: off by one.
Reaches(highest, window) == highest >= window

\* checkFlowControlViolation
Exceeds(highest, window) == highest > window

\* streamFlowController.UpdateHighestReceived and IncrementHighestReceived: the
\* error, if any.
HighestReceivedError(c, to, final) ==
    IF \/ c.final /\ final /\ to # c.highest
       \/ c.final /\ to > c.highest
       \/ final /\ to < c.highest
    THEN "data after termination"
    ELSE IF to > c.highest
            /\ \/ Exceeds(to, c.window)
               \/ Exceeds(rcvConn.highest + to - c.highest, rcvConn.window)
    THEN "received too much data"
    ELSE "none"

UpdateHighestReceived(s, to) ==
    rcvConn' = [rcvConn EXCEPT !.highest = @ + Max({0, to - rcv[s].highest})]

HandleStreamFrame(f) ==
    LET s == f.id
        c == rcv[s]
    IN  /\ err' = HighestReceivedError(c, f.to, f.fin)
        /\ UpdateHighestReceived(s, f.to)
        /\ rcv' = [rcv EXCEPT ![s].highest = Max({@, f.to}), ![s].final = @ \/ f.fin,
                              ![s].got = @ \cup (f.from..(f.to - 1)),
                              ![s].finAt = IF f.fin THEN f.to ELSE @]

ResetCompletes(c) == ~c.reset

HandleResetStreamFrame(f) ==
    LET s == f.id
        c == rcv[s]
    IN  /\ err' = HighestReceivedError(c, f.to, TRUE)
        /\ UpdateHighestReceived(s, f.to)
        /\ rcv' = [rcv EXCEPT ![s].highest = Max({@, f.to}), ![s].final = TRUE,
                              ![s].reset = TRUE,
                              ![s].completed = IF ResetCompletes(c) /\ err' = "none" THEN @ + 1 ELSE @]

ReceiverReceives(f) ==
    /\ err = "none"
    /\ f.kind \in {"stream", "reset"}
    /\ IF RcvDeleted(f.id) THEN UNCHANGED <<rcv, rcvConn, err>>
       ELSE \/ f.kind = "stream" /\ HandleStreamFrame(f)
            \/ f.kind = "reset" /\ HandleResetStreamFrame(f)
    /\ UNCHANGED <<snd, sndConn, queue, queuedConn, net>>

\* Read copies data to the application while it does not hold the mutex ...
ReadCopy(s) ==
    LET c == rcv[s]
    IN  /\ err = "none"
        /\ c.copied = None
        /\ ~c.finRead /\ ~c.canceled /\ ~c.reset
        /\ \E n \in 0..MaxBytes[s] :
              /\ (c.pos..(c.pos + n - 1)) \subseteq c.got
              /\ n > 0 \/ c.pos = c.finAt
              /\ rcv' = [rcv EXCEPT ![s].copied = n, ![s].pos = @ + n,
                                    ![s].last = c.pos + n = c.finAt]
    /\ UNCHANGED <<snd, sndConn, rcvConn, queue, queuedConn, net, err>>

\* Mutant of AddBytesRead: not for the connection once the final offset is known.
AddBytesReadOpen(s, n) ==
    rcvConn' = [rcvConn EXCEPT !.read = IF rcv[s].final THEN @ ELSE @ + n]

\* streamFlowController.AddBytesRead also counts for the connection.
AddBytesRead(s, n) == rcvConn' = [rcvConn EXCEPT !.read = @ + n]

\* ... and accounts for it when it does: AddBytesRead, MaybeQueueWindowUpdate.
ReadAccount(s) ==
    LET c == rcv[s]
        n == IF c.reset THEN 0 ELSE c.copied
    IN  /\ err = "none"
        /\ c.copied # None
        /\ rcv' = [rcv EXCEPT ![s].copied = None, ![s].read = @ + n,
                              ![s].finRead = c.last,
                              ![s].completed = IF c.last THEN @ + 1 ELSE @]
        /\ AddBytesRead(s, n)
        /\ queue' = IF ~c.final /\ HasWindowUpdate(rcv'[s]) THEN queue \cup {s} ELSE queue
        /\ queuedConn' = (queuedConn \/ HasWindowUpdate(rcvConn'))
        /\ UNCHANGED <<snd, sndConn, net, err>>

CancelRead(s) ==
    /\ err = "none"
    /\ "read" \in Cancels[s]
    /\ ~rcv[s].finRead /\ ~rcv[s].canceled
    /\ rcv' = [rcv EXCEPT ![s].canceled = TRUE]
    /\ net' = net \cup {Frame("stop_sending", s, None, None, FALSE)}
    /\ UNCHANGED <<snd, sndConn, rcvConn, queue, queuedConn, err>>

\* maybeAdjustWindowSize: the window may be doubled.
NewSizes(size, max) == {size, Min({2 * size, max})}

\* windowUpdateQueue.QueueAll: the connection's update, or a MAX_DATA frame with
\* offset 0 if it has none by then ...
QueueConn ==
    /\ err = "none"
    /\ queuedConn
    /\ queuedConn' = FALSE
    /\ IF HasWindowUpdate(rcvConn)
       THEN \E size \in NewSizes(rcvConn.size, MaxConnWindow) :
              /\ rcvConn' = [rcvConn EXCEPT !.size = size, !.window = rcvConn.read + size]
              /\ net' = net \cup {Frame("max_data", None, None, rcvConn'.window, FALSE)}
       ELSE /\ net' = net \cup {Frame("max_data", None, None, 0, FALSE)}
            /\ UNCHANGED rcvConn
    /\ UNCHANGED <<snd, rcv, sndConn, queue, err>>

\* ... and the update of a stream.  One that is deleted or needs none stays in
\* the queue.
QueueStream(s) ==
    LET c == rcv[s]
    IN  /\ err = "none"
        /\ s \in queue /\ ~RcvDeleted(s) /\ ~c.final /\ HasWindowUpdate(c)
        /\ queue' = queue \ {s}
        /\ \E size \in NewSizes(c.size, MaxStreamWindow) :
              /\ rcv' = [rcv EXCEPT ![s].size = size, ![s].window = c.read + size]
              /\ rcvConn' = [rcvConn EXCEPT !.size =
                                IF size > c.size /\ (3 * size) \div 2 > @
                                THEN Min({(3 * size) \div 2, MaxConnWindow}) ELSE @]
              /\ net' = net \cup {Frame("max_stream_data", s, None, rcv'[s].window, FALSE)}
        /\ UNCHANGED <<snd, sndConn, queuedConn, err>>

-----------------------------------------------------------------------------
Init ==
    /\ snd = [s \in Streams |->
                [data |-> 0, sent |-> 0, sendWindow |-> StreamWindow,
                 lastBlockedAt |-> 0, active |-> FALSE, finished |-> FALSE,
                 finSent |-> FALSE, canceled |-> FALSE, canceling |-> FALSE,
                 completed |-> 0]]
    /\ rcv = [s \in Streams |->
                [got |-> {}, highest |-> 0, final |-> FALSE, finAt |-> None,
                 pos |-> 0, copied |-> None, last |-> FALSE, read |-> 0,
                 window |-> StreamWindow, size |-> StreamWindow, finRead |-> FALSE,
                 canceled |-> FALSE, reset |-> FALSE, completed |-> 0]]
    /\ sndConn = [sent |-> 0, sendWindow |-> ConnWindow]
    /\ rcvConn = [highest |-> 0, read |-> 0, window |-> ConnWindow, size |-> ConnWindow]
    /\ queue = {} /\ queuedConn = FALSE
    /\ net = {}
    /\ err = "none"

Next ==
    \/ \E s \in Streams :
          \/ Write(s) \/ Close(s) \/ PopStreamFrame(s)
          \/ CancelWrite(s) \/ CancelWriteCompletes(s)
          \/ ReadCopy(s) \/ ReadAccount(s) \/ CancelRead(s) \/ QueueStream(s)
    \/ \E f \in net : SenderReceives(f) \/ ReceiverReceives(f)
    \/ QueueConn

Spec == Init /\ [][Next]_vars

\* The run loops of both endpoints send what there is to send, frames that were
\* sent arrive, and the application reads what it can.
Fairness ==
    /\ WF_vars(\E s \in Streams : PopStreamFrame(s))
    /\ WF_vars(\E s \in Streams : ReadCopy(s) \/ ReadAccount(s))
    /\ WF_vars(QueueConn \/ \E s \in Streams : QueueStream(s))
    /\ WF_vars(\E f \in net : SenderReceives(f) \/ ReceiverReceives(f))

FairSpec == Spec /\ Fairness

-----------------------------------------------------------------------------
\* Type invariant.
TypeOK ==
    /\ \A s \in Streams :
          /\ snd[s].data \in 0..MaxBytes[s] /\ snd[s].sent \in 0..MaxBytes[s]
          /\ snd[s].sendWindow \in Nat /\ snd[s].active \in BOOLEAN
          /\ rcv[s].got \subseteq 0..(MaxBytes[s] - 1)
          /\ rcv[s].read \in 0..MaxBytes[s] /\ rcv[s].size \in 1..MaxStreamWindow
    /\ rcvConn.size \in 1..MaxConnWindow
    /\ queue \subseteq Streams

\* A RESET_STREAM frame was sent whose final offset is behind what was sent since:
\* CancelWrite or STOP_SENDING met a blocked Write, whose data popStreamFrame still
\* sends.
SentAfterReset == \E f \in net : f.kind = "reset" /\ f.to < snd[f.id].sent

\* With both endpoints running this code the receiver never finds a flow control
\* limit exceeded, and it finds data after the final offset only if the sender sent
\* some after RESET_STREAM, as it may when a stream is cancelled during Write.
NoPeerError == err = "none" \/ (err = "data after termination" /\ SentAfterReset)

\* The receiver never closes the connection with an error.
NoError == err = "none"

\* What Read copied and has yet to account for.
Unaccounted(c) == IF c.copied = None THEN 0 ELSE c.copied

\* The bytes the application got from a stream are credited to it once, however
\* Read, which copies without the mutex, interleaves with frames and cancels; only
\* after RESET_STREAM some may be missing.  The connection gets the same credit.
CreditExact ==
    /\ rcvConn.read = SumFunctionOnSet([s \in Streams |-> rcv[s].read], Streams)
    /\ \A s \in Streams :
          LET c == rcv[s]
          IN  /\ c.read + Unaccounted(c) <= c.pos /\ c.pos <= c.highest
              /\ ~c.reset => c.read + Unaccounted(c) = c.pos

\* A stream that has data and window left is in the framer's queue, so that the
\* data is sent without waiting for another event.
NotStalled ==
    \A s \in Streams :
        snd[s].data > 0 /\ SendWindowSize(snd[s]) > 0 /\ ~SndDeleted(s) => snd[s].active

\* Each half of a stream is completed at most once; a second time, DeleteStream
\* returns an error that closes the session.
CompletedOnce ==
    \A s \in Streams : snd[s].completed <= 1 /\ rcv[s].completed <= 1

\* Every byte written, which is a bounded number of them, is read by the peer in
\* the end, whichever limit blocks it meanwhile, and so is the end of a stream that
\* is closed, unless a stream is cancelled.
Delivered ==
    []<>(\/ \A s \in Streams : /\ rcv[s].pos = snd[s].sent + snd[s].data
                               /\ snd[s].finished => rcv[s].finRead
         \/ \E s \in Streams : snd[s].canceled \/ rcv[s].canceled)

\* A blocked Write returns: because its data was sent, or because of a cancel.
WriteReturns == \A s \in Streams : snd[s].data > 0 ~> (snd[s].data = 0 \/ snd[s].canceled)

====
