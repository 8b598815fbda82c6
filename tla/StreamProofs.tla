---------------------------- MODULE StreamProofs ----------------------------
(***************************************************************************)
(* Streams and flow control for any number of streams, any windows and any *)
(* amount of data.                                                         *)
(*                                                                         *)
(* What the receiver checks when a frame arrives is about its own state;   *)
(* that the check succeeds rests on a chain through both endpoints: what   *)
(* the receiver has seen of a stream is at most what was sent, that is at  *)
(* most the window the sender knows, and that window is at most the one    *)
(* the receiver enforces.  For the connection the same chain runs through  *)
(* the sums over all streams.                                              *)
(***************************************************************************)
EXTENDS Stream, Sums

SendStreams ==
    [data : Nat, sent : Nat, sendWindow : Nat, lastBlockedAt : Nat, active : BOOLEAN,
     finished : BOOLEAN, finSent : BOOLEAN, canceled : BOOLEAN, canceling : BOOLEAN,
     completed : Nat]

ReceiveStreams ==
    [got : SUBSET Int, highest : Nat, final : BOOLEAN, finAt : Int, pos : Nat, copied : Int,
     last : BOOLEAN, read : Nat, window : Nat, size : Nat, finRead : BOOLEAN,
     canceled : BOOLEAN, reset : BOOLEAN, completed : Nat]

Types ==
    /\ snd \in [Streams -> SendStreams]
    /\ rcv \in [Streams -> ReceiveStreams]
    /\ sndConn \in [sent : Nat, sendWindow : Nat]
    /\ rcvConn \in [highest : Nat, read : Nat, window : Nat, size : Nat]
    /\ queue \subseteq Streams /\ queuedConn \in BOOLEAN

\* A sending half: it is ended by FIN or by a cancel, never by both, and is
\* completed by the one that ended it.
SendHalf(c) ==
    /\ c.sent <= c.sendWindow
    /\ c.completed <= 1
    /\ c.canceling => c.canceled
    /\ c.canceled => ~c.finished
    /\ c.finSent => c.finished /\ c.data = 0
    /\ c.completed > 0 => c.finSent \/ (c.canceled /\ ~c.canceling)

\* A stream that has data and window is active.
Queued(s, c) == c.data > 0 /\ c.sent < c.sendWindow => c.active \/ (s \notin Bidi /\ c.completed > 0)

\* A receiving half c of the stream whose sending half is d.
ReceiveHalf(c, d) ==
    /\ c.got \subseteq 0..(c.highest - 1)
    /\ c.highest <= d.sent
    /\ c.copied = None \/ c.copied \in Nat
    /\ c.read + (IF c.copied = None THEN 0 ELSE c.copied) <= c.pos
    /\ c.reset \/ c.read + (IF c.copied = None THEN 0 ELSE c.copied) = c.pos
    /\ c.pos <= c.highest
    /\ c.size \in 1..MaxStreamWindow
    /\ d.sendWindow <= c.window
    /\ c.completed <= 1
    /\ c.completed > 0 => c.finRead \/ c.reset
    /\ c.finAt = None \/ (c.finAt \in Nat /\ d.finSent)
    /\ c.last => c.finAt # None
    /\ c.finRead => c.last
    /\ c.copied # None => ~c.finRead
    /\ c.reset => d.canceled

Halves ==
    \A s \in Streams :
        /\ snd[s].data + snd[s].sent <= MaxBytes[s]
        /\ SendHalf(snd[s])
        /\ Queued(s, snd[s])
        /\ ReceiveHalf(rcv[s], snd[s])

\* A frame that was sent.
FrameOK(f) ==
    /\ f.kind = "stream" =>
          /\ f.id \in Streams /\ f.from \in Nat /\ f.to \in Nat /\ f.fin \in BOOLEAN
          /\ f.from <= f.to /\ f.to <= snd[f.id].sent
          /\ f.fin => snd[f.id].finSent
    /\ f.kind = "reset" =>
          /\ f.id \in Streams /\ f.to \in Nat /\ f.fin
          /\ f.to <= snd[f.id].sent /\ snd[f.id].canceled
    /\ f.kind = "max_stream_data" =>
          f.id \in Streams /\ f.to \in Nat /\ f.to <= rcv[f.id].window
    /\ f.kind = "max_data" => f.to \in Nat /\ f.to <= rcvConn.window
    /\ f.kind = "stop_sending" => f.id \in Streams /\ "read" \in Cancels[f.id]

Frames == \A f \in net : FrameOK(f)

\* The connection counts what its streams do.
Sent == [s \in Streams |-> snd[s].sent]
Highest == [s \in Streams |-> rcv[s].highest]
ReadOf == [s \in Streams |-> rcv[s].read]

Connection ==
    /\ sndConn.sent = SumFunctionOnSet(Sent, Streams)
    /\ sndConn.sent <= sndConn.sendWindow
    /\ sndConn.sendWindow <= rcvConn.window
    /\ rcvConn.highest = SumFunctionOnSet(Highest, Streams)
    /\ rcvConn.read = SumFunctionOnSet(ReadOf, Streams)
    /\ rcvConn.size \in 1..MaxConnWindow

StreamInv == Types /\ Halves /\ Frames /\ Connection

\* A sending half that was ended.
Ended(c) == c.finSent \/ c.canceled

ResetSent(s) == \E f \in net : f.kind = "reset" /\ f.id = s

\* An end is final: FIN and RESET_STREAM have the offset where the half stopped, and
\* the receiver knows no other.
Ends ==
    /\ err = "none"
    /\ \A s \in Streams :
          /\ snd[s].canceled => ResetSent(s)
          /\ rcv[s].final => Ended(snd[s]) /\ rcv[s].highest = snd[s].sent
    /\ \A f \in net :
          f.kind \in {"stream", "reset"} /\ f.fin => Ended(snd[f.id]) /\ f.to = snd[f.id].sent

EndInv == err \in {"none", "data after termination"} /\ (SentAfterReset \/ Ends)

-----------------------------------------------------------------------------
USE DEF None

LEMMA OneChanged ==
    ASSUME NEW S, NEW T, NEW g \in [S -> T], NEW s \in S, NEW x \in T
    PROVE  /\ [g EXCEPT ![s] = x] \in [S -> T]
           /\ [g EXCEPT ![s] = x][s] = x
BY Zenon

\* A sum over the streams when one of them changes.
LEMMA StreamSum ==
    ASSUME NEW f, NEW h, NEW s \in Streams, DifferAt(f, h, Streams, s), NEW n \in Int, h[s] = f[s] + n
    PROVE  SumFunctionOnSet(h, Streams) = SumFunctionOnSet(f, Streams) + n
<1>1. IsFiniteSet(Streams)
    BY StreamAssumption, Zenon
<1>2. SumFunctionOnSet(h, Streams) = SumFunctionOnSet(f, Streams) + (h[s] - f[s])
    BY <1>1, SumChange, SMTT(30), Z3T(30)
<1>3. f[s] \in Int
    BY Zenon DEF DifferAt
<1>4. QED
    BY <1>2, <1>3

\* A step of the sending half s from c to d: it sends more, learns of larger
\* windows and is ended, and none of it is taken back.
SendMoves(s, c, d, window) ==
    /\ c.sent <= d.sent /\ d.data + d.sent <= MaxBytes[s]
    /\ d.sendWindow <= window
    /\ c.finSent => d.finSent
    /\ c.canceled => d.canceled
    /\ SendHalf(d) /\ Queued(s, d)

LEMMA SendStep ==
    ASSUME StreamInv, NEW s \in Streams, snd' \in [Streams -> SendStreams],
           \A t \in Streams : t # s => snd'[t] = snd[t],
           SendMoves(s, snd[s], snd'[s], rcv[s].window),
           UNCHANGED <<rcv, rcvConn>>
    PROVE  Halves' /\ \A f \in net : FrameOK(f)'
<1>1. \A t \in Streams : snd[t] \in SendStreams /\ snd'[t] \in SendStreams /\ rcv[t] \in ReceiveStreams
    BY Zenon DEF StreamInv, Types
<1>2. ASSUME NEW t \in Streams
      PROVE  /\ snd'[t].data + snd'[t].sent <= MaxBytes[t]
             /\ SendHalf(snd'[t])
             /\ Queued(t, snd'[t])
             /\ ReceiveHalf(rcv'[t], snd'[t])
    <2>1. CASE t # s
        BY <1>2, <2>1, Zenon DEF StreamInv, Halves
    <2>2. CASE t = s
        <3>1. ReceiveHalf(rcv[s], snd[s])
            BY ZenonT(60) DEF StreamInv, Halves
        <3>2. ReceiveHalf(rcv[s], snd'[s])
            BY <1>1, <3>1, SMTT(30), Z3T(30) DEF SendMoves, ReceiveHalf, SendStreams, ReceiveStreams
        <3>3. QED
            BY <2>2, <3>2, Zenon DEF SendMoves
    <2>3. QED
        BY <2>1, <2>2, Zenon
<1>3. ASSUME NEW f \in net
      PROVE  FrameOK(f)'
    <2>1. FrameOK(f)
        BY Zenon DEF StreamInv, Frames
    <2>2. ASSUME f.id \in Streams
          PROVE  /\ snd[f.id].sent <= snd'[f.id].sent
                 /\ snd[f.id].finSent => snd'[f.id].finSent
                 /\ snd[f.id].canceled => snd'[f.id].canceled
                 /\ snd[f.id].sent \in Nat /\ snd'[f.id].sent \in Nat
        BY <1>1, <2>2, SMTT(30), Z3T(30) DEF SendMoves, SendStreams
    <2>3. QED
        BY <2>1, <2>2 DEF FrameOK
<1>4. QED
    BY <1>2, <1>3, Zenon DEF Halves

\* The same for a step that sends no data.
LEMMA SendKeeps ==
    ASSUME StreamInv, NEW s \in Streams, snd' \in [Streams -> SendStreams],
           \A t \in Streams : t # s => snd'[t] = snd[t],
           SendMoves(s, snd[s], snd'[s], rcv[s].window),
           snd'[s].sent = snd[s].sent,
           UNCHANGED <<rcv, sndConn, rcvConn, queue, queuedConn>>,
           \A f \in net' : f \in net \/ FrameOK(f)'
    PROVE  StreamInv'
<1>1. Halves' /\ \A f \in net : FrameOK(f)'
    BY SendStep, ZenonT(30)
<1>2. Sent' = Sent /\ Highest' = Highest /\ ReadOf' = ReadOf
    BY Zenon DEF Sent, Highest, ReadOf
<1>3. Connection'
    BY <1>2, Zenon DEF StreamInv, Connection
<1>4. Types'
    BY Zenon DEF StreamInv, Types
<1>5. Frames'
    BY <1>1, Zenon DEF Frames
<1>6. QED
    BY <1>1, <1>3, <1>4, <1>5, Zenon DEF StreamInv

LEMMA WriteKeeps ==
    ASSUME StreamInv, NEW s \in Streams, Write(s)
    PROVE  StreamInv'
<1>1. /\ snd \in [Streams -> SendStreams] /\ rcv[s] \in ReceiveStreams
      /\ SendHalf(snd[s]) /\ ReceiveHalf(rcv[s], snd[s]) /\ MaxBytes[s] \in Nat
    BY StreamAssumption, ZenonT(30) DEF StreamInv, Types, Halves
<1>2. PICK n \in 1..(MaxBytes[s] - snd[s].sent) :
          snd' = [snd EXCEPT ![s].data = n, ![s].active = TRUE]
    BY Zenon DEF Write
<1>3. snd[s].data = 0 /\ ~snd[s].finished /\ ~snd[s].canceled
    BY Zenon DEF Write
<1>4. snd' \in [Streams -> SendStreams]
    <2>1. n \in Nat
        BY <1>1 DEF SendStreams
    <2>2. QED
        BY <1>1, <1>2, <2>1, ZenonT(120) DEF SendStreams
<1>5. SendMoves(s, snd[s], snd'[s], rcv[s].window) /\ snd'[s].sent = snd[s].sent
    BY <1>1, <1>2, <1>3 DEF SendMoves, SendHalf, ReceiveHalf, Queued, SendStreams, ReceiveStreams
<1>6. \A t \in Streams : t # s => snd'[t] = snd[t]
    BY <1>1, <1>2, Zenon
<1>7. QED
    BY <1>4, <1>5, <1>6, SendKeeps, ZenonT(30) DEF Write

LEMMA CloseKeeps ==
    ASSUME StreamInv, NEW s \in Streams, Close(s)
    PROVE  StreamInv'
<1>1. /\ snd \in [Streams -> SendStreams] /\ rcv[s] \in ReceiveStreams
      /\ SendHalf(snd[s]) /\ ReceiveHalf(rcv[s], snd[s]) /\ MaxBytes[s] \in Nat
      /\ snd[s].data + snd[s].sent <= MaxBytes[s]
    BY StreamAssumption, Zenon DEF StreamInv, Types, Halves
<1>2. snd' = [snd EXCEPT ![s].finished = TRUE, ![s].active = TRUE]
    BY Zenon DEF Close
<1>3. snd[s].data = 0 /\ ~snd[s].finished /\ ~snd[s].canceled
    BY Zenon DEF Close
<1>4. snd' \in [Streams -> SendStreams]
    <2> DEFINE x == [snd[s] EXCEPT !.finished = TRUE, !.active = TRUE]
    <2>1. snd' = [snd EXCEPT ![s] = x]
        BY <1>1, <1>2, Zenon
    <2>2. x \in SendStreams
        BY <1>1, ZenonT(30) DEF SendStreams
    <2> HIDE DEF x
    <2>3. QED
        BY <1>1, <2>1, <2>2, OneChanged, Zenon
<1>5. SendMoves(s, snd[s], snd'[s], rcv[s].window) /\ snd'[s].sent = snd[s].sent
    BY <1>1, <1>2, <1>3, SMTT(30), Z3T(30)
    DEF SendMoves, SendHalf, ReceiveHalf, Queued, SendStreams, ReceiveStreams
<1>6. \A t \in Streams : t # s => snd'[t] = snd[t]
    BY <1>1, <1>2, ZenonT(30)
<1>7. QED
    BY <1>4, <1>5, <1>6, SendKeeps, Zenon DEF Close

LEMMA CancelWriteKeeps ==
    ASSUME StreamInv, NEW s \in Streams, CancelWrite(s)
    PROVE  StreamInv'
<1>1. /\ snd \in [Streams -> SendStreams] /\ rcv[s] \in ReceiveStreams
      /\ SendHalf(snd[s]) /\ ReceiveHalf(rcv[s], snd[s]) /\ MaxBytes[s] \in Nat
      /\ snd[s].data + snd[s].sent <= MaxBytes[s] /\ Queued(s, snd[s])
    BY StreamAssumption, ZenonT(30) DEF StreamInv, Types, Halves
<1>2. /\ snd' = [snd EXCEPT ![s].canceled = TRUE, ![s].canceling = TRUE]
      /\ net' = net \cup {Frame("reset", s, None, snd[s].sent, TRUE)}
    BY ZenonT(30) DEF CancelWrite, CancelWriteImpl
<1>3. ~snd[s].finished /\ ~snd[s].canceled
    BY ZenonT(30) DEF CancelWrite
<1>4. snd' \in [Streams -> SendStreams]
    <2> DEFINE x == [snd[s] EXCEPT !.canceled = TRUE, !.canceling = TRUE]
    <2>1. snd' = [snd EXCEPT ![s] = x]
        BY <1>1, <1>2, Zenon
    <2>2. x \in SendStreams
        BY <1>1, ZenonT(30) DEF SendStreams
    <2> HIDE DEF x
    <2>3. QED
        BY <1>1, <2>1, <2>2, OneChanged, Zenon
<1>5. SendMoves(s, snd[s], snd'[s], rcv[s].window) /\ snd'[s].sent = snd[s].sent
    BY <1>1, <1>2, <1>3 DEF SendMoves, SendHalf, ReceiveHalf, Queued, SendStreams, ReceiveStreams
<1>6. \A t \in Streams : t # s => snd'[t] = snd[t]
    BY <1>1, <1>2, Zenon
<1>7. snd'[s].canceled /\ snd[s].sent \in Nat
    BY <1>1, <1>2, ZenonT(30) DEF SendStreams
<1>8. \A f : f = Frame("reset", s, None, snd[s].sent, TRUE) => FrameOK(f)'
    BY <1>5, <1>7, SMTT(30), Z3T(30) DEF FrameOK, Frame
<1>9. QED
    BY <1>2, <1>4, <1>5, <1>6, <1>8, SendKeeps, ZenonT(60) DEF CancelWrite

LEMMA CancelWriteCompletesKeeps ==
    ASSUME StreamInv, NEW s \in Streams, CancelWriteCompletes(s)
    PROVE  StreamInv'
<1>1. /\ snd \in [Streams -> SendStreams] /\ rcv[s] \in ReceiveStreams
      /\ SendHalf(snd[s]) /\ ReceiveHalf(rcv[s], snd[s]) /\ MaxBytes[s] \in Nat
      /\ snd[s].data + snd[s].sent <= MaxBytes[s] /\ Queued(s, snd[s])
    BY StreamAssumption, Zenon DEF StreamInv, Types, Halves
<1>2. snd' = [snd EXCEPT ![s].canceling = FALSE, ![s].completed = @ + 1] /\ snd[s].canceling
    BY ZenonT(30) DEF CancelWriteCompletes
<1>3. snd' \in [Streams -> SendStreams]
    BY <1>1, <1>2, SMTT(30), Z3T(30) DEF SendStreams
<1>4. SendMoves(s, snd[s], snd'[s], rcv[s].window) /\ snd'[s].sent = snd[s].sent
    BY <1>1, <1>2, SMTT(30), Z3T(30)
    DEF SendMoves, SendHalf, ReceiveHalf, Queued, SendStreams, ReceiveStreams
<1>5. \A t \in Streams : t # s => snd'[t] = snd[t]
    BY <1>1, <1>2, ZenonT(30)
<1>6. QED
    BY <1>3, <1>4, <1>5, SendKeeps, ZenonT(30) DEF CancelWriteCompletes

LEMMA MinOfTwo ==
    ASSUME NEW a \in Int, NEW b \in Int
    PROVE  Min({a, b}) = IF a <= b THEN a ELSE b
BY DEF Min

LEMMA MaxOfTwo ==
    ASSUME NEW a \in Int, NEW b \in Int
    PROVE  Max({a, b}) = IF a <= b THEN b ELSE a
BY DEF Max

\* popStreamFrame takes at most the data there is, and what both windows allow.
LEMMA Popped ==
    ASSUME StreamInv, NEW s \in Streams, snd[s].data = 0 \/ Window(s) # 0,
           NEW n \in IF snd[s].data = 0 THEN {0} ELSE 1..Min({snd[s].data, Window(s)})
    PROVE  /\ n \in Nat /\ n <= snd[s].data
           /\ snd[s].sent + n <= snd[s].sendWindow
           /\ sndConn.sent + n <= sndConn.sendWindow
<1> DEFINE a == SendWindowSize(snd[s])
           b == SendWindowSize(sndConn)
           m == Min({a, b})
           d == snd[s].data
<1>1. /\ snd[s] \in SendStreams /\ SendHalf(snd[s])
      /\ sndConn \in [sent : Nat, sendWindow : Nat] /\ sndConn.sent <= sndConn.sendWindow
    BY ZenonT(30) DEF StreamInv, Types, Halves, Connection
<1>2. a \in Nat /\ a = snd[s].sendWindow - snd[s].sent
    BY <1>1, SMTT(30), Z3T(30) DEF SendHalf, SendWindowSize, SendStreams
<1>3. b \in Nat /\ b = sndConn.sendWindow - sndConn.sent
    BY <1>1 DEF SendWindowSize
<1>4. d \in Nat /\ snd[s].sent \in Nat /\ snd[s].sendWindow \in Nat /\ sndConn.sent \in Nat /\ sndConn.sendWindow \in Nat
    BY <1>1, ZenonT(30) DEF SendStreams
<1>5. snd[s].sent <= snd[s].sendWindow /\ sndConn.sent <= sndConn.sendWindow
    BY <1>1, ZenonT(30) DEF SendHalf
<1>6. n \in IF d = 0 THEN {0} ELSE 1..Min({d, m})
    BY ZenonT(30) DEF Window
<1> HIDE DEF a, b, d
<1>7. m \in Nat /\ m <= a /\ m <= b
    <2>1. m = IF a <= b THEN a ELSE b
        BY <1>2, <1>3, MinOfTwo, SMTT(30), Z3T(30)
    <2>2. QED
        BY <1>2, <1>3, <2>1, SMTT(30), Z3T(30)
<1> HIDE DEF m
<1>8. CASE d = 0
    BY <1>4, <1>5, <1>6, <1>8, SMTT(30), Z3T(30) DEF d
<1>9. CASE d # 0
    <2>1. Min({d, m}) = IF d <= m THEN d ELSE m
        BY <1>4, <1>7, MinOfTwo, SMTT(30), Z3T(30)
    <2>2. n \in Nat /\ n <= d /\ n <= m
        BY <1>4, <1>6, <1>7, <1>9, <2>1, SMTT(30), Z3T(30)
    <2>3. QED
        BY <1>2, <1>3, <1>4, <1>7, <2>2, SMTT(30), Z3T(30) DEF d
<1>10. QED
    BY <1>8, <1>9, ZenonT(30)

LEMMA PopStreamFrameKeeps ==
    ASSUME StreamInv, NEW s \in Streams, PopStreamFrame(s)
    PROVE  StreamInv'
<1> DEFINE c == snd[s]
<1>1. /\ snd \in [Streams -> SendStreams] /\ rcv[s] \in ReceiveStreams
      /\ SendHalf(snd[s]) /\ ReceiveHalf(rcv[s], snd[s]) /\ MaxBytes[s] \in Nat
      /\ snd[s].data + snd[s].sent <= MaxBytes[s] /\ Queued(s, snd[s])
    BY StreamAssumption, Zenon DEF StreamInv, Types, Halves
<1>2. CASE SndDeleted(s)
    <2>1. snd' = [snd EXCEPT ![s].active = FALSE] /\ net' = net /\ sndConn' = sndConn
        BY <1>2, ZenonT(30) DEF PopStreamFrame
    <2>2. snd' \in [Streams -> SendStreams]
        BY <1>1, <2>1, ZenonT(120) DEF SendStreams
    <2>3. SendMoves(s, snd[s], snd'[s], rcv[s].window) /\ snd'[s].sent = snd[s].sent
        BY <1>1, <1>2, <2>1
        DEF SendMoves, SendHalf, ReceiveHalf, Queued, SendStreams, ReceiveStreams, SndDeleted
    <2>4. \A t \in Streams : t # s => snd'[t] = snd[t]
        BY <1>1, <2>1, Zenon
    <2>5. QED
        BY <2>1, <2>2, <2>3, <2>4, SendKeeps, ZenonT(60) DEF PopStreamFrame
<1>3. CASE ~SndDeleted(s) /\ c.data > 0 /\ Window(s) = 0
    <2>1. /\ snd' = [snd EXCEPT ![s].lastBlockedAt = c.sendWindow, ![s].active = FALSE]
          /\ SendWindowSize(c) = 0 /\ net' = net /\ sndConn' = sndConn
        BY <1>3, Zenon DEF PopStreamFrame
    <2>2. snd' \in [Streams -> SendStreams]
        BY <1>1, <2>1, ZenonT(120) DEF SendStreams
    <2>3. SendMoves(s, snd[s], snd'[s], rcv[s].window) /\ snd'[s].sent = snd[s].sent
        BY <1>1, <2>1
        DEF SendMoves, SendHalf, ReceiveHalf, Queued, SendStreams, ReceiveStreams, SendWindowSize
    <2>4. \A t \in Streams : t # s => snd'[t] = snd[t]
        BY <1>1, <2>1, Zenon
    <2>5. QED
        BY <2>1, <2>2, <2>3, <2>4, SendKeeps, ZenonT(60) DEF PopStreamFrame
<1>4. CASE ~SndDeleted(s) /\ ~(c.data > 0 /\ Window(s) = 0)
    <2>1. PICK n \in IF c.data = 0 THEN {0} ELSE 1..Min({c.data, Window(s)}) :
              /\ snd' = [snd EXCEPT ![s].data = @ - n, ![s].sent = @ + n,
                                    ![s].finSent = @ \/ IsFin(c, n),
                                    ![s].completed = IF IsFin(c, n) THEN @ + 1 ELSE @,
                                    ![s].active = n < c.data]
              /\ sndConn' = [sndConn EXCEPT !.sent = @ + n]
              /\ net' = IF n = 0 /\ ~IsFin(c, n) THEN net
                        ELSE net \cup {Frame("stream", s, c.sent, c.sent + n, IsFin(c, n))}
        BY <1>4, Zenon DEF PopStreamFrame
    <2> DEFINE fin == IsFin(c, n)
    <2>2. c \in SendStreams /\ c.data \in Nat /\ c.sent \in Nat /\ (c.data = 0 \/ Window(s) # 0)
        BY <1>1, <1>4 DEF SendStreams
    <2>3. /\ n \in Nat /\ n <= c.data
          /\ c.sent + n <= c.sendWindow
          /\ sndConn.sent + n <= sndConn.sendWindow
        BY <2>2, Popped, Zenon
    <2>4. fin \in BOOLEAN /\ (fin => c.finished /\ ~c.finSent /\ n = c.data)
        BY <2>2, ZenonT(30) DEF IsFin, SendStreams
    <2> HIDE DEF fin
    <2>5. /\ snd' \in [Streams -> SendStreams]
          /\ snd'[s].data = c.data - n /\ snd'[s].sent = c.sent + n
          /\ snd'[s].finSent = (c.finSent \/ fin) /\ snd'[s].active = (n < c.data)
          /\ snd'[s].completed = IF fin THEN c.completed + 1 ELSE c.completed
          /\ snd'[s].sendWindow = c.sendWindow /\ snd'[s].finished = c.finished
          /\ snd'[s].canceled = c.canceled /\ snd'[s].canceling = c.canceling
        <3> DEFINE data == c.data - n
                   sent == c.sent + n
                   finSent == c.finSent \/ fin
                   completed == IF fin THEN c.completed + 1 ELSE c.completed
                   active == n < c.data
                   x == [c EXCEPT !.data = data, !.sent = sent, !.finSent = finSent,
                                  !.completed = completed, !.active = active]
        <3>1. snd' = [snd EXCEPT ![s] = x]
            BY <1>1, <2>1, ZenonT(60) DEF fin
        <3>2. /\ data \in Nat /\ sent \in Nat /\ finSent \in BOOLEAN /\ completed \in Nat
              /\ active \in BOOLEAN
            BY <2>2, <2>3, <2>4 DEF SendStreams
        <3>3. /\ x \in SendStreams /\ x.data = data /\ x.sent = sent /\ x.finSent = finSent
              /\ x.active = active /\ x.completed = completed
              /\ x.sendWindow = c.sendWindow /\ x.finished = c.finished
              /\ x.canceled = c.canceled /\ x.canceling = c.canceling
            <4> HIDE DEF data, sent, finSent, completed, active
            <4>1. QED
                BY <2>2, <3>2, ZenonT(120) DEF SendStreams
        <3> HIDE DEF x
        <3>4. snd' \in [Streams -> SendStreams] /\ snd'[s] = x
            BY <1>1, <3>1, <3>3, OneChanged, ZenonT(30)
        <3>5. QED
            BY <3>3, <3>4, Zenon
    <2>6. SendHalf(snd'[s]) /\ Queued(s, snd'[s])
        <3>1. /\ SendHalf(c) /\ c.sendWindow \in Nat /\ c.completed \in Nat
              /\ c.finished \in BOOLEAN /\ c.finSent \in BOOLEAN
              /\ c.canceled \in BOOLEAN /\ c.canceling \in BOOLEAN
            BY <1>1, <2>2, ZenonT(30) DEF SendStreams
        <3>2. SendHalf(snd'[s])
            BY <2>2, <2>3, <2>4, <2>5, <3>1, SMTT(30), Z3T(30) DEF SendHalf
        <3>3. Queued(s, snd'[s])
            <4>1. snd'[s].data > 0 => n < c.data
                BY <2>2, <2>3, <2>5, SMTT(30), Z3T(30)
            <4>2. QED
                BY <2>5, <4>1, ZenonT(60) DEF Queued
        <3>4. QED
            BY <3>2, <3>3, Zenon
    <2>7. SendMoves(s, snd[s], snd'[s], rcv[s].window)
        <3>1. c.data + c.sent <= MaxBytes[s] /\ c.sendWindow <= rcv[s].window
            BY <1>1, ZenonT(60) DEF ReceiveHalf
        <3>2. c.sent <= snd'[s].sent /\ snd'[s].data + snd'[s].sent = c.data + c.sent
            BY <2>2, <2>3, <2>5, SMTT(30), Z3T(30)
        <3>3. QED
            BY <2>5, <2>6, <3>1, <3>2, ZenonT(60) DEF SendMoves
    <2>8. \A t \in Streams : t # s => snd'[t] = snd[t]
        BY <1>1, <2>1, ZenonT(30)
    <2>9. Halves' /\ \A f \in net : FrameOK(f)'
        BY <2>5, <2>7, <2>8, SendStep, ZenonT(60) DEF PopStreamFrame
    <2>10. \A f : f = Frame("stream", s, c.sent, c.sent + n, fin) => FrameOK(f)'
        BY <2>2, <2>3, <2>4, <2>5, SMTT(30), Z3T(30) DEF FrameOK, Frame
    <2>11. Frames'
        BY <2>1, <2>9, <2>10, ZenonT(30) DEF Frames, fin
    <2>12. /\ sndConn \in [sent : Nat, sendWindow : Nat] /\ sndConn' \in [sent : Nat, sendWindow : Nat]
           /\ sndConn'.sent = sndConn.sent + n /\ sndConn'.sendWindow = sndConn.sendWindow
        BY <2>1, <2>3, SMTT(30), Z3T(30) DEF StreamInv, Types
    <2>13. SumFunctionOnSet(Sent', Streams) = SumFunctionOnSet(Sent, Streams) + n
        <3>1. DifferAt(Sent, Sent', Streams, s)
            BY <1>1, <2>5, <2>8, SMTT(30), Z3T(30) DEF DifferAt, Sent, SendStreams
        <3>2. Sent'[s] = Sent[s] + n
            BY <2>2, <2>3, <2>5, ZenonT(30) DEF Sent
        <3>3. QED
            BY <3>1, <3>2, <2>3, StreamSum, SMTT(30), Z3T(30)
    <2>14. Highest' = Highest /\ ReadOf' = ReadOf /\ rcvConn' = rcvConn
        BY Zenon DEF Highest, ReadOf, PopStreamFrame
    <2>15. Connection'
        BY <2>3, <2>12, <2>13, <2>14, ZenonT(30) DEF StreamInv, Connection
    <2>16. Types'
        BY <2>5, <2>12, ZenonT(30) DEF StreamInv, Types, PopStreamFrame
    <2>17. QED
        BY <2>9, <2>11, <2>15, <2>16, Zenon DEF StreamInv
<1>5. QED
    BY <1>2, <1>3, <1>4, ZenonT(30)

LEMMA HandleMaxStreamDataFrameKeeps ==
    ASSUME StreamInv, NEW f \in net, f.kind = "max_stream_data", HandleMaxStreamDataFrame(f),
           UNCHANGED <<rcv, rcvConn, queue, queuedConn>>
    PROVE  StreamInv'
<1> DEFINE s == f.id
<1>1. s \in Streams /\ f.to \in Nat /\ f.to <= rcv[s].window
    BY ZenonT(30) DEF StreamInv, Frames, FrameOK
<1>2. /\ snd \in [Streams -> SendStreams] /\ rcv[s] \in ReceiveStreams
      /\ SendHalf(snd[s]) /\ ReceiveHalf(rcv[s], snd[s]) /\ MaxBytes[s] \in Nat
      /\ snd[s].data + snd[s].sent <= MaxBytes[s] /\ Queued(s, snd[s])
    BY <1>1, StreamAssumption, ZenonT(30) DEF StreamInv, Types, Halves
<1> DEFINE w == Max({snd[s].sendWindow, f.to})
<1>3. w \in Nat /\ snd[s].sendWindow <= w /\ w <= rcv[s].window
    <2>1. snd[s].sendWindow \in Nat /\ snd[s].sendWindow <= rcv[s].window /\ rcv[s].window \in Nat
        BY <1>1, <1>2, ZenonT(30) DEF SendStreams, ReceiveStreams, ReceiveHalf
    <2>2. w = IF snd[s].sendWindow <= f.to THEN f.to ELSE snd[s].sendWindow
        BY <1>1, <2>1, MaxOfTwo, SMTT(30), Z3T(30)
    <2>3. QED
        BY <1>1, <2>1, <2>2, SMTT(30), Z3T(30)
<1>4. snd' = IF SndDeleted(s) THEN snd
             ELSE [snd EXCEPT ![s].sendWindow = w, ![s].active = @ \/ snd[s].data > 0]
    BY <1>1, <1>2, ZenonT(30) DEF HandleMaxStreamDataFrame
<1> HIDE DEF w, s
<1>5. snd' \in [Streams -> SendStreams]
    <2>1. CASE SndDeleted(s)
        BY <1>2, <1>4, <2>1, ZenonT(30)
    <2>2. CASE ~SndDeleted(s)
        <3> DEFINE x == [snd[s] EXCEPT !.sendWindow = w, !.active = @ \/ snd[s].data > 0]
        <3>1. snd' = [snd EXCEPT ![s] = x]
            BY <1>1, <1>2, <1>4, <2>2, ZenonT(60)
        <3>2. x \in SendStreams
            BY <1>1, <1>2, <1>3, ZenonT(60) DEF SendStreams
        <3>3. QED
            BY <1>1, <1>2, <3>1, <3>2, OneChanged, ZenonT(30)
    <2>3. QED
        BY <2>1, <2>2, ZenonT(30)
<1>6. SendMoves(s, snd[s], snd'[s], rcv[s].window) /\ snd'[s].sent = snd[s].sent
    <2>1. CASE SndDeleted(s)
        BY <1>1, <1>2, <1>4, <2>1 DEF SendMoves, SendStreams, ReceiveHalf
    <2>2. CASE ~SndDeleted(s)
        BY <1>1, <1>2, <1>3, <1>4, <2>2, SMTT(30), Z3T(30)
        DEF SendMoves, SendHalf, Queued, SendStreams, ReceiveStreams
    <2>3. QED
        BY <2>1, <2>2, Zenon
<1>7. \A t \in Streams : t # s => snd'[t] = snd[t]
    BY <1>2, <1>4, ZenonT(30)
<1>8. QED
    BY <1>1, <1>5, <1>6, <1>7, SendKeeps, ZenonT(60) DEF HandleMaxStreamDataFrame

LEMMA HandleStopSendingFrameKeeps ==
    ASSUME StreamInv, NEW f \in net, f.kind = "stop_sending", HandleStopSendingFrame(f),
           UNCHANGED <<rcv, rcvConn, queue, queuedConn>>
    PROVE  StreamInv'
<1> DEFINE s == f.id
<1>1. s \in Streams
    BY Zenon DEF StreamInv, Frames, FrameOK
<1>2. /\ snd \in [Streams -> SendStreams] /\ rcv[s] \in ReceiveStreams
      /\ SendHalf(snd[s]) /\ ReceiveHalf(rcv[s], snd[s]) /\ MaxBytes[s] \in Nat
      /\ snd[s].data + snd[s].sent <= MaxBytes[s] /\ Queued(s, snd[s])
    BY <1>1, StreamAssumption, ZenonT(30) DEF StreamInv, Types, Halves
<1>3. /\ snd' = [snd EXCEPT ![s].canceled = TRUE, ![s].completed = @ + 1]
      /\ net' = net \cup {Frame("reset", s, None, snd[s].sent, TRUE)}
      /\ ~snd[s].canceled /\ ~snd[s].finished
    BY ZenonT(30) DEF HandleStopSendingFrame
<1> HIDE DEF s
<1>4. snd' \in [Streams -> SendStreams]
    BY <1>1, <1>2, <1>3, SMTT(30), Z3T(30) DEF SendStreams
<1>5. SendMoves(s, snd[s], snd'[s], rcv[s].window) /\ snd'[s].sent = snd[s].sent
    BY <1>1, <1>2, <1>3, SMTT(30), Z3T(30)
    DEF SendMoves, SendHalf, ReceiveHalf, Queued, SendStreams, ReceiveStreams
<1>6. \A t \in Streams : t # s => snd'[t] = snd[t]
    BY <1>2, <1>3, ZenonT(30)
<1>7. snd'[s].canceled /\ snd[s].sent \in Nat
    BY <1>1, <1>2, <1>3, ZenonT(30) DEF SendStreams
<1>8. \A g : g = Frame("reset", s, None, snd[s].sent, TRUE) => FrameOK(g)'
    BY <1>1, <1>5, <1>7, SMTT(30), Z3T(30) DEF FrameOK, Frame
<1>9. QED
    BY <1>1, <1>3, <1>4, <1>5, <1>6, <1>8, SendKeeps, ZenonT(60) DEF HandleStopSendingFrame

LEMMA HandleMaxDataFrameKeeps ==
    ASSUME StreamInv, NEW f \in net, f.kind = "max_data", HandleMaxDataFrame(f),
           UNCHANGED <<rcv, rcvConn, queue, queuedConn>>
    PROVE  StreamInv'
<1>1. f.to \in Nat /\ f.to <= rcvConn.window
    BY Zenon DEF StreamInv, Frames, FrameOK
<1> DEFINE w == Max({sndConn.sendWindow, f.to})
<1>2. /\ sndConn \in [sent : Nat, sendWindow : Nat]
      /\ rcvConn \in [highest : Nat, read : Nat, window : Nat, size : Nat]
      /\ sndConn.sent <= sndConn.sendWindow /\ sndConn.sendWindow <= rcvConn.window
    BY Zenon DEF StreamInv, Types, Connection
<1>3. w \in Nat /\ sndConn.sent <= w /\ w <= rcvConn.window
    <2>1. w = IF sndConn.sendWindow <= f.to THEN f.to ELSE sndConn.sendWindow
        BY <1>1, <1>2, MaxOfTwo, SMTT(30), Z3T(30)
    <2>2. QED
        BY <1>1, <1>2, <2>1, SMTT(30), Z3T(30)
<1>4. sndConn' = [sndConn EXCEPT !.sendWindow = w] /\ snd' = snd /\ net' = net
    BY Zenon DEF HandleMaxDataFrame
<1> HIDE DEF w
<1>5. sndConn' \in [sent : Nat, sendWindow : Nat] /\ sndConn'.sent = sndConn.sent /\ sndConn'.sendWindow = w
    BY <1>2, <1>3, <1>4, ZenonT(30)
<1>6. Types'
    BY <1>4, <1>5, ZenonT(30) DEF StreamInv, Types
<1>7. Halves'
    BY <1>4, ZenonT(30) DEF StreamInv, Halves
<1>8. Frames'
    BY <1>4 DEF StreamInv, Frames, FrameOK
<1>9. Sent' = Sent /\ Highest' = Highest /\ ReadOf' = ReadOf
    BY <1>4, Zenon DEF Sent, Highest, ReadOf
<1>10. Connection'
    BY <1>3, <1>5, <1>9, ZenonT(30) DEF StreamInv, Connection
<1>11. QED
    BY <1>6, <1>7, <1>8, <1>10, ZenonT(30) DEF StreamInv

\* A step of the receiving half s.
LEMMA ReceiveStep ==
    ASSUME StreamInv, NEW s \in Streams, rcv' \in [Streams -> ReceiveStreams],
           \A t \in Streams : t # s => rcv'[t] = rcv[t],
           ReceiveHalf(rcv'[s], snd[s]), rcv[s].window <= rcv'[s].window,
           rcvConn' \in [highest : Nat, read : Nat, window : Nat, size : Nat],
           rcvConn.window <= rcvConn'.window,
           UNCHANGED <<snd, sndConn>>
    PROVE  Halves' /\ \A f \in net : FrameOK(f)'
<1>1. /\ \A t \in Streams : rcv[t] \in ReceiveStreams /\ rcv'[t] \in ReceiveStreams
      /\ rcvConn \in [highest : Nat, read : Nat, window : Nat, size : Nat]
    BY ZenonT(30) DEF StreamInv, Types
<1>2. Halves'
    BY ZenonT(30) DEF StreamInv, Halves
<1>3. ASSUME NEW f \in net
      PROVE  FrameOK(f)'
    <2>1. FrameOK(f)
        BY ZenonT(30) DEF StreamInv, Frames
    <2>2. ASSUME f.id \in Streams
          PROVE  /\ rcv[f.id].window <= rcv'[f.id].window
                 /\ rcv[f.id].window \in Nat /\ rcv'[f.id].window \in Nat
        BY <1>1, <2>2, SMTT(30), Z3T(30) DEF ReceiveStreams
    <2>3. rcvConn.window \in Nat /\ rcvConn'.window \in Nat
        BY <1>1, Zenon
    <2>4. QED
        BY <2>1, <2>2, <2>3, SMTT(30), Z3T(30) DEF FrameOK
<1>4. QED
    BY <1>2, <1>3, ZenonT(30)

\* UpdateHighestReceived counts for the connection what is new on the stream.
LEMMA HighestMoves ==
    ASSUME StreamInv, NEW s \in Streams, NEW to \in Nat, rcv' \in [Streams -> ReceiveStreams],
           \A t \in Streams : t # s => rcv'[t] = rcv[t],
           rcv'[s].highest = Max({rcv[s].highest, to}), rcv'[s].read = rcv[s].read,
           UpdateHighestReceived(s, to), UNCHANGED <<snd, sndConn>>
    PROVE  /\ rcvConn' \in [highest : Nat, read : Nat, window : Nat, size : Nat]
           /\ rcvConn.window = rcvConn'.window /\ rcvConn.window \in Nat
           /\ Connection'
<1> DEFINE h == rcv[s].highest
           d == Max({0, to - h})
<1>1. h \in Nat /\ \A t \in Streams : rcv[t].highest \in Nat /\ rcv'[t].highest \in Nat
    BY ZenonT(30) DEF StreamInv, Types, ReceiveStreams
<1>2. d \in Nat /\ rcv'[s].highest = h + d
    <2>1. d = IF 0 <= to - h THEN to - h ELSE 0
        BY <1>1, MaxOfTwo, SMTT(30), Z3T(30)
    <2>2. rcv'[s].highest = IF h <= to THEN to ELSE h
        BY <1>1, MaxOfTwo, SMTT(30), Z3T(30)
    <2>3. QED
        BY <1>1, <2>1, <2>2, SMTT(30), Z3T(30)
<1>3. /\ rcvConn \in [highest : Nat, read : Nat, window : Nat, size : Nat]
      /\ rcvConn' = [rcvConn EXCEPT !.highest = @ + d]
    BY ZenonT(30) DEF StreamInv, Types, UpdateHighestReceived
<1> HIDE DEF d, h
<1>4. /\ rcvConn' \in [highest : Nat, read : Nat, window : Nat, size : Nat]
      /\ rcvConn'.highest = rcvConn.highest + d /\ rcvConn'.read = rcvConn.read
      /\ rcvConn'.window = rcvConn.window /\ rcvConn'.size = rcvConn.size
    BY <1>2, <1>3, SMTT(30), Z3T(30)
<1>5. SumFunctionOnSet(Highest', Streams) = SumFunctionOnSet(Highest, Streams) + d
    <2>1. DifferAt(Highest, Highest', Streams, s)
        BY <1>1 DEF DifferAt, Highest
    <2>2. Highest'[s] = Highest[s] + d
        BY <1>1, <1>2, ZenonT(30) DEF Highest, h
    <2>3. QED
        BY <2>1, <2>2, <1>2, StreamSum, SMTT(30), Z3T(30)
<1>6. Sent' = Sent
    BY ZenonT(30) DEF Sent
<1>7. ReadOf' = ReadOf
    BY ZenonT(30) DEF ReadOf
<1>8. Connection'
    BY <1>4, <1>5, <1>6, <1>7, ZenonT(30) DEF StreamInv, Connection
<1>9. QED
    BY <1>3, <1>4, <1>8, ZenonT(30)

LEMMA HandleStreamFrameKeeps ==
    ASSUME StreamInv, NEW f \in net, f.kind = "stream", HandleStreamFrame(f),
           UNCHANGED <<snd, sndConn, queue, queuedConn, net>>
    PROVE  StreamInv'
<1> DEFINE s == f.id
           c == rcv[s]
           m == Max({c.highest, f.to})
<1>1. /\ s \in Streams /\ f.from \in Nat /\ f.to \in Nat /\ f.fin \in BOOLEAN
      /\ f.to <= snd[s].sent /\ (f.fin => snd[s].finSent)
    BY ZenonT(30) DEF StreamInv, Frames, FrameOK
<1>2. /\ rcv \in [Streams -> ReceiveStreams] /\ c \in ReceiveStreams /\ snd[s] \in SendStreams
      /\ ReceiveHalf(c, snd[s])
    BY <1>1, ZenonT(30) DEF StreamInv, Types, Halves
<1>3. m \in Nat /\ c.highest <= m /\ f.to <= m /\ m <= snd[s].sent
    <2>1. c.highest \in Nat /\ c.highest <= snd[s].sent /\ snd[s].sent \in Nat
        BY <1>2, ZenonT(30) DEF ReceiveStreams, ReceiveHalf, SendStreams
    <2>2. m = IF c.highest <= f.to THEN f.to ELSE c.highest
        BY <1>1, <2>1, MaxOfTwo, SMTT(30), Z3T(30)
    <2>3. QED
        BY <1>1, <2>1, <2>2, SMTT(30), Z3T(30)
<1>4. /\ rcv' = [rcv EXCEPT ![s].highest = m, ![s].final = @ \/ f.fin,
                            ![s].got = @ \cup (f.from..(f.to - 1)),
                            ![s].finAt = IF f.fin THEN f.to ELSE @]
      /\ UpdateHighestReceived(s, f.to)
    BY <1>1, <1>2, ZenonT(30) DEF HandleStreamFrame
<1> HIDE DEF m, s
<1>5. c.got \cup (f.from..(f.to - 1)) \in SUBSET Int
    BY <1>1, <1>2, SMTT(30), Z3T(30) DEF ReceiveStreams
<1>6. /\ rcv' \in [Streams -> ReceiveStreams] /\ rcv'[s].highest = m /\ rcv'[s].read = c.read
      /\ rcv'[s].window = c.window /\ c.window \in Nat
    <2> DEFINE final == c.final \/ f.fin
               got == c.got \cup (f.from..(f.to - 1))
               finAt == IF f.fin THEN f.to ELSE c.finAt
               x == [c EXCEPT !.highest = m, !.final = final, !.got = got, !.finAt = finAt]
    <2>1. rcv' = [rcv EXCEPT ![s] = x]
        BY <1>1, <1>2, <1>4, ZenonT(60)
    <2>2. final \in BOOLEAN /\ got \in SUBSET Int /\ finAt \in Int
        BY <1>1, <1>2, <1>5, SMTT(30), Z3T(30) DEF ReceiveStreams
    <2>3. x \in ReceiveStreams /\ x.highest = m /\ x.read = c.read /\ x.window = c.window /\ c.window \in Nat
        <3> HIDE DEF final, got, finAt
        <3>1. QED
            BY <1>2, <1>3, <2>2, ZenonT(30) DEF ReceiveStreams
    <2> HIDE DEF x
    <2>4. QED
        BY <1>1, <1>2, <2>1, <2>3, OneChanged, ZenonT(60)
<1>7. ReceiveHalf(rcv'[s], snd[s])
    <2>1. rcv'[s].got \subseteq 0..(m - 1)
        <3>1. c.got \subseteq 0..(c.highest - 1) /\ c.highest \in Nat
            BY <1>2, ZenonT(30) DEF ReceiveHalf, ReceiveStreams
        <3>2. rcv'[s].got = c.got \cup (f.from..(f.to - 1))
            BY <1>1, <1>2, <1>4, ZenonT(30) DEF ReceiveStreams
        <3>3. QED
            BY <1>1, <1>3, <3>1, <3>2, SMTT(30), Z3T(30)
    <2>2. QED
        <3> DEFINE d == snd[s]
                   x == rcv'[s]
                   final == c.final \/ f.fin
                   got == c.got \cup (f.from..(f.to - 1))
                   finAt == IF f.fin THEN f.to ELSE c.finAt
        <3>1. /\ x.highest = m /\ x.finAt = finAt /\ x.copied = c.copied /\ x.pos = c.pos
              /\ x.last = c.last /\ x.read = c.read /\ x.size = c.size /\ x.window = c.window
              /\ x.completed = c.completed /\ x.finRead = c.finRead /\ x.reset = c.reset
            <4>1. rcv' = [rcv EXCEPT ![s] = [c EXCEPT !.highest = m, !.final = final,
                                                      !.got = got, !.finAt = finAt]]
                BY <1>1, <1>2, <1>4, ZenonT(60)
            <4> HIDE DEF final, got, finAt
            <4>2. x = [c EXCEPT !.highest = m, !.final = final, !.got = got, !.finAt = finAt]
                BY <1>1, <1>2, <4>1, Zenon
            <4> HIDE DEF x, c
            <4>3. QED
                BY <1>2, <4>2, ZenonT(30) DEF ReceiveStreams
        <3>2. /\ c.highest \in Nat /\ c.pos \in Nat /\ c.pos <= c.highest
              /\ (c.finAt = None \/ (c.finAt \in Nat /\ d.finSent))
            BY <1>2, Zenon DEF ReceiveStreams, ReceiveHalf
        <3>3. finAt = None \/ (finAt \in Nat /\ d.finSent)
            BY <1>1, <3>2, Zenon
        <3>4. c.last => finAt # None
            <4>1. f.to # None
                BY <1>1, SMTT(30), Z3T(30) DEF None
            <4>2. QED
                BY <1>2, <4>1, ZenonT(60) DEF ReceiveHalf
        <3> HIDE DEF d, x, c, finAt
        <3>5. c.pos <= m
            BY <1>3, <3>2, SMTT(30), Z3T(30)
        <3>6. ReceiveHalf(x, d)
            <4>1. m <= d.sent /\ ReceiveHalf(c, d) /\ x.got \subseteq 0..(m - 1)
                BY <1>2, <1>3, <2>1, ZenonT(60) DEF d, x, c
            <4>2. QED
                BY <3>1, <3>3, <3>4, <3>5, <4>1, ZenonT(30) DEF ReceiveHalf
        <3>7. QED
            BY <3>6, Zenon DEF d, x
<1>8. \A t \in Streams : t # s => rcv'[t] = rcv[t]
    BY <1>1, <1>2, <1>4, ZenonT(30)
<1>9. /\ rcvConn' \in [highest : Nat, read : Nat, window : Nat, size : Nat]
      /\ rcvConn.window = rcvConn'.window /\ rcvConn.window \in Nat
      /\ Connection'
    <2>1. rcv'[s].highest = Max({rcv[s].highest, f.to}) /\ rcv'[s].read = rcv[s].read
        BY <1>6, Zenon DEF m
    <2>2. rcv' \in [Streams -> ReceiveStreams] /\ s \in Streams /\ f.to \in Nat
        BY <1>1, <1>6, ZenonT(60)
    <2>3. UpdateHighestReceived(s, f.to) /\ UNCHANGED <<snd, sndConn>>
        BY <1>4, ZenonT(60)
    <2>4. QED
        BY <1>8, <2>1, <2>2, <2>3, HighestMoves, ZenonT(30)
<1>10. Halves' /\ \A g \in net : FrameOK(g)'
    BY <1>1, <1>6, <1>7, <1>8, <1>9, ReceiveStep, SMTT(30), Z3T(30)
<1>11. Types'
    BY <1>6, <1>9, ZenonT(30) DEF StreamInv, Types
<1>12. QED
    BY <1>9, <1>10, <1>11, ZenonT(30) DEF StreamInv, Frames

LEMMA HandleResetStreamFrameKeeps ==
    ASSUME StreamInv, NEW f \in net, f.kind = "reset", HandleResetStreamFrame(f),
           UNCHANGED <<snd, sndConn, queue, queuedConn, net>>
    PROVE  StreamInv'
<1> DEFINE s == f.id
           c == rcv[s]
           m == Max({c.highest, f.to})
           completes == ResetCompletes(c) /\ err' = "none"
<1>1. /\ s \in Streams /\ f.to \in Nat
      /\ f.to <= snd[s].sent /\ snd[s].canceled
    BY Zenon DEF StreamInv, Frames, FrameOK
<1>2. /\ rcv \in [Streams -> ReceiveStreams] /\ c \in ReceiveStreams /\ snd[s] \in SendStreams
      /\ ReceiveHalf(c, snd[s]) /\ SendHalf(snd[s])
    BY <1>1, ZenonT(30) DEF StreamInv, Types, Halves
<1>3. m \in Nat /\ c.highest <= m /\ f.to <= m /\ m <= snd[s].sent
    <2>1. c.highest \in Nat /\ c.highest <= snd[s].sent /\ snd[s].sent \in Nat
        BY <1>2, ZenonT(30) DEF ReceiveStreams, ReceiveHalf, SendStreams
    <2>2. m = IF c.highest <= f.to THEN f.to ELSE c.highest
        BY <1>1, <2>1, MaxOfTwo, SMTT(30), Z3T(30)
    <2>3. QED
        BY <1>1, <2>1, <2>2, SMTT(30), Z3T(30)
<1>4. /\ rcv' = [rcv EXCEPT ![s].highest = m, ![s].final = TRUE, ![s].reset = TRUE,
                            ![s].completed = IF completes THEN @ + 1 ELSE @]
      /\ UpdateHighestReceived(s, f.to)
    BY <1>1, <1>2, ZenonT(60) DEF HandleResetStreamFrame
<1>5. completes => c.completed = 0
    BY <1>1, <1>2, SMTT(30), Z3T(30)
    DEF ResetCompletes, ReceiveHalf, SendHalf, ReceiveStreams, SendStreams
<1> HIDE DEF m, s, completes
<1>6. /\ rcv' \in [Streams -> ReceiveStreams] /\ rcv'[s].highest = m /\ rcv'[s].read = c.read
      /\ rcv'[s].window = c.window /\ c.window \in Nat
    <2> DEFINE completed == IF completes THEN c.completed + 1 ELSE c.completed
               x == [c EXCEPT !.highest = m, !.final = TRUE, !.reset = TRUE, !.completed = completed]
    <2>1. rcv' = [rcv EXCEPT ![s] = x]
        BY <1>1, <1>2, <1>4, ZenonT(60)
    <2>2. completed \in Nat
        BY <1>2 DEF ReceiveStreams
    <2>3. x \in ReceiveStreams /\ x.highest = m /\ x.read = c.read /\ x.window = c.window /\ c.window \in Nat
        <3> HIDE DEF completed
        <3>1. QED
            BY <1>2, <1>3, <2>2, ZenonT(60) DEF ReceiveStreams
    <2> HIDE DEF x
    <2>4. QED
        BY <1>1, <1>2, <2>1, <2>3, OneChanged, ZenonT(60)
<1>7. ReceiveHalf(rcv'[s], snd[s])
    <2>1. rcv'[s].got \subseteq 0..(m - 1)
        <3>1. c.got \subseteq 0..(c.highest - 1) /\ c.highest \in Nat
            BY <1>2, ZenonT(30) DEF ReceiveHalf, ReceiveStreams
        <3>2. rcv'[s].got = c.got
            BY <1>1, <1>2, <1>4, ZenonT(30) DEF ReceiveStreams
        <3>3. QED
            BY <1>1, <1>3, <3>1, <3>2, SMTT(30), Z3T(30)
    <2>2. QED
        BY <1>1, <1>2, <1>3, <1>4, <1>5, <2>1, SMTT(30), Z3T(30)
           DEF ReceiveHalf, ReceiveStreams, SendStreams
<1>8. \A t \in Streams : t # s => rcv'[t] = rcv[t]
    BY <1>1, <1>2, <1>4, ZenonT(30)
<1>9. /\ rcvConn' \in [highest : Nat, read : Nat, window : Nat, size : Nat]
      /\ rcvConn.window = rcvConn'.window /\ rcvConn.window \in Nat
      /\ Connection'
    <2>1. rcv'[s].highest = Max({rcv[s].highest, f.to}) /\ rcv'[s].read = rcv[s].read
        BY <1>6, Zenon DEF m
    <2>2. rcv' \in [Streams -> ReceiveStreams] /\ s \in Streams /\ f.to \in Nat
        BY <1>1, <1>6, Zenon
    <2>3. UpdateHighestReceived(s, f.to) /\ UNCHANGED <<snd, sndConn>>
        BY <1>4, ZenonT(60)
    <2>4. QED
        BY <1>8, <2>1, <2>2, <2>3, HighestMoves, ZenonT(30)
<1>10. Halves' /\ \A g \in net : FrameOK(g)'
    BY <1>1, <1>6, <1>7, <1>8, <1>9, ReceiveStep, SMTT(30), Z3T(30)
<1>11. Types'
    BY <1>6, <1>9, ZenonT(30) DEF StreamInv, Types
<1>12. QED
    BY <1>9, <1>10, <1>11, ZenonT(30) DEF StreamInv, Frames

LEMMA ReadCopyKeeps ==
    ASSUME StreamInv, NEW s \in Streams, ReadCopy(s)
    PROVE  StreamInv'
<1> DEFINE c == rcv[s]
<1>1. /\ rcv \in [Streams -> ReceiveStreams] /\ c \in ReceiveStreams /\ snd[s] \in SendStreams
      /\ ReceiveHalf(c, snd[s]) /\ MaxBytes[s] \in Nat
    BY StreamAssumption, ZenonT(30) DEF StreamInv, Types, Halves
<1>2. PICK n \in 0..MaxBytes[s] :
          /\ (c.pos..(c.pos + n - 1)) \subseteq c.got
          /\ rcv' = [rcv EXCEPT ![s].copied = n, ![s].pos = @ + n, ![s].last = c.pos + n = c.finAt]
    BY Zenon DEF ReadCopy
<1>3. n \in Nat /\ c.copied = None /\ ~c.finRead /\ ~c.canceled /\ ~c.reset
    BY <1>1, SMTT(30), Z3T(30) DEF ReadCopy
<1>4. c.pos \in Nat /\ c.highest \in Nat /\ c.pos + n <= c.highest
    <2>1. c.pos \in Nat /\ c.highest \in Nat /\ c.pos <= c.highest /\ c.got \subseteq 0..(c.highest - 1)
        BY <1>1, ZenonT(30) DEF ReceiveStreams, ReceiveHalf
    <2>2. CASE n = 0
        BY <2>1, <2>2, SMTT(30), Z3T(30)
    <2>3. CASE n # 0
        <3>1. c.pos + n - 1 \in c.pos..(c.pos + n - 1)
            BY <1>3, <2>1, <2>3, SMTT(30), Z3T(30)
        <3>2. c.pos + n - 1 \in 0..(c.highest - 1)
            BY <1>2, <2>1, <3>1, ZenonT(30)
        <3>3. QED
            BY <1>3, <2>1, <3>2, SMTT(30), Z3T(30)
    <2>4. QED
        BY <2>2, <2>3, Zenon
<1>5. /\ rcv' \in [Streams -> ReceiveStreams] /\ rcv'[s].highest = c.highest /\ rcv'[s].read = c.read
      /\ rcv'[s].window = c.window /\ c.window \in Nat /\ rcv'[s].got = c.got
    <2> DEFINE pos == c.pos + n
               last == c.pos + n = c.finAt
               x == [c EXCEPT !.copied = n, !.pos = pos, !.last = last]
    <2>1. rcv' = [rcv EXCEPT ![s] = x]
        BY <1>1, <1>2, Zenon
    <2>2. n \in Int /\ pos \in Nat /\ last \in BOOLEAN
        BY <1>3, <1>4, SMTT(30), Z3T(30)
    <2>3. /\ x \in ReceiveStreams /\ x.highest = c.highest /\ x.read = c.read /\ x.window = c.window
          /\ c.window \in Nat /\ x.got = c.got
        <3> HIDE DEF pos, last
        <3>1. QED
            BY <1>1, <2>2, Zenon DEF ReceiveStreams
    <2> HIDE DEF x
    <2>4. QED
        BY <1>1, <2>1, <2>3, OneChanged, ZenonT(30)
<1>6. ReceiveHalf(rcv'[s], snd[s])
    <2> DEFINE d == snd[s]
               x == rcv'[s]
    <2>1. /\ x.copied = n /\ x.pos = c.pos + n /\ x.last = (c.pos + n = c.finAt)
          /\ x.got = c.got /\ x.highest = c.highest /\ x.read = c.read /\ x.size = c.size
          /\ x.window = c.window /\ x.completed = c.completed /\ x.finRead = c.finRead
          /\ x.reset = c.reset /\ x.finAt = c.finAt
        <3> DEFINE pos == c.pos + n
                   last == c.pos + n = c.finAt
        <3>1. rcv' = [rcv EXCEPT ![s] = [c EXCEPT !.copied = n, !.pos = pos, !.last = last]]
            BY <1>1, <1>2, Zenon
        <3> HIDE DEF pos, last
        <3>2. x = [c EXCEPT !.copied = n, !.pos = pos, !.last = last]
            BY <1>1, <3>1, Zenon
        <3> HIDE DEF x, c
        <3>3. QED
            BY <1>1, <3>2, ZenonT(30) DEF ReceiveStreams, pos, last
    <2>2. /\ c.read \in Nat /\ c.finAt \in Int /\ c.read + 0 = c.pos
          /\ c.got \subseteq 0..(c.highest - 1) /\ c.highest <= d.sent
          /\ c.size \in 1..MaxStreamWindow /\ d.sendWindow <= c.window /\ c.completed <= 1
          /\ (c.completed > 0 => c.finRead \/ c.reset)
          /\ (c.finAt = None \/ (c.finAt \in Nat /\ d.finSent)) /\ (c.reset => d.canceled)
        BY <1>1, <1>3, Zenon DEF ReceiveHalf, ReceiveStreams
    <2> HIDE DEF d, x, c
    <2>3. /\ x.copied \in Nat /\ x.copied # None
          /\ x.read + x.copied = x.pos /\ x.read + x.copied <= x.pos
          /\ x.pos <= x.highest /\ (x.last => x.finAt # None)
        <3>1. (x.last => c.pos + n = c.finAt) /\ x.copied = n /\ x.pos = c.pos + n
              /\ x.read = c.read /\ x.highest = c.highest /\ x.finAt = c.finAt
            BY <2>1, Zenon
        <3>2. c.read \in Nat /\ c.read + 0 = c.pos /\ c.finAt \in Int
            BY <2>2, Zenon
        <3>3. QED
            BY <1>3, <1>4, <3>1, <3>2, SMTT(30), Z3T(30) DEF None
    <2>4. ReceiveHalf(x, d)
        BY <1>3, <2>1, <2>2, <2>3, ZenonT(30) DEF ReceiveHalf
    <2>5. QED
        BY <2>4, Zenon DEF d, x
<1>7. \A t \in Streams : t # s => rcv'[t] = rcv[t]
    BY <1>1, <1>2, ZenonT(30)
<1>8. /\ rcvConn' = rcvConn /\ rcvConn \in [highest : Nat, read : Nat, window : Nat, size : Nat]
      /\ rcvConn.window <= rcvConn'.window
    BY SMTT(30), Z3T(30) DEF ReadCopy, StreamInv, Types
<1>9. Halves' /\ \A f \in net : FrameOK(f)'
    <2>1. UNCHANGED <<snd, sndConn>>
        BY Zenon DEF ReadCopy
    <2>2. rcv[s].window <= rcv'[s].window
        <3>1. rcv'[s].window = rcv[s].window /\ rcv[s].window \in Nat
            BY <1>5, Zenon
        <3>2. QED
            BY <3>1
    <2>3. QED
        BY <1>5, <1>6, <1>7, <1>8, <2>1, <2>2, ReceiveStep, ZenonT(60)
<1>10. Types'
    BY <1>5, ZenonT(30) DEF StreamInv, Types, ReadCopy
<1>11. Sent' = Sent /\ Highest' = Highest /\ ReadOf' = ReadOf
    BY <1>5, <1>7, SMTT(30), Z3T(30) DEF Sent, Highest, ReadOf, ReadCopy
<1>12. Connection'
    BY <1>11, Zenon DEF StreamInv, Connection, ReadCopy
<1>13. QED
    BY <1>9, <1>10, <1>12, ZenonT(30) DEF StreamInv, Frames, ReadCopy

LEMMA ReadAccountKeeps ==
    ASSUME StreamInv, NEW s \in Streams, ReadAccount(s)
    PROVE  StreamInv'
<1> DEFINE c == rcv[s]
           n == IF c.reset THEN 0 ELSE c.copied
<1>1. /\ rcv \in [Streams -> ReceiveStreams] /\ c \in ReceiveStreams /\ snd[s] \in SendStreams
      /\ ReceiveHalf(c, snd[s]) /\ SendHalf(snd[s])
    BY Zenon DEF StreamInv, Types, Halves
<1>2. /\ rcv' = [rcv EXCEPT ![s].copied = None, ![s].read = @ + n, ![s].finRead = c.last,
                            ![s].completed = IF c.last THEN @ + 1 ELSE @]
      /\ c.copied # None
      /\ rcvConn' = [rcvConn EXCEPT !.read = @ + n]
    BY Zenon DEF ReadAccount, AddBytesRead
<1>3. n \in Nat /\ n <= c.copied /\ (c.reset \/ n = c.copied)
    BY <1>1, <1>2, SMTT(30), Z3T(30) DEF ReceiveHalf
<1>4. c.last => c.completed = 0
    BY <1>1, <1>2, SMTT(30), Z3T(30) DEF ReceiveHalf, SendHalf, ReceiveStreams, SendStreams
<1> HIDE DEF n
<1>5. /\ rcv' \in [Streams -> ReceiveStreams] /\ rcv'[s].highest = c.highest
      /\ rcv'[s].read = c.read + n
      /\ rcv'[s].window = c.window /\ c.window \in Nat /\ rcv'[s].got = c.got
      /\ rcv'[s].copied = None /\ rcv'[s].finRead = c.last /\ rcv'[s].last = c.last
      /\ rcv'[s].completed = (IF c.last THEN c.completed + 1 ELSE c.completed)
      /\ rcv'[s].pos = c.pos /\ rcv'[s].size = c.size /\ rcv'[s].finAt = c.finAt
      /\ rcv'[s].reset = c.reset
    <2> DEFINE copied == None
               read == c.read + n
               last == c.last
               completed == IF c.last THEN c.completed + 1 ELSE c.completed
               x == [c EXCEPT !.copied = copied, !.read = read, !.finRead = last,
                              !.completed = completed]
    <2>1. rcv' = [rcv EXCEPT ![s] = x]
        BY <1>1, <1>2, Zenon
    <2>2. copied \in Int /\ read \in Nat /\ last \in BOOLEAN /\ completed \in Nat
        BY <1>1, <1>3, SMTT(30), Z3T(30) DEF ReceiveStreams
    <2>3. /\ x \in ReceiveStreams /\ x.highest = c.highest /\ x.read = read /\ x.window = c.window
          /\ c.window \in Nat /\ x.got = c.got
          /\ x.copied = copied /\ x.finRead = last /\ x.last = c.last /\ x.completed = completed
          /\ x.pos = c.pos /\ x.size = c.size /\ x.finAt = c.finAt /\ x.reset = c.reset
        <3> HIDE DEF copied, read, last, completed
        <3>1. QED
            BY <1>1, <2>2, ZenonT(60) DEF ReceiveStreams
    <2> HIDE DEF x
    <2>4. QED
        BY <1>1, <2>1, <2>3, OneChanged, Zenon
<1>6. ReceiveHalf(rcv'[s], snd[s])
    BY <1>1, <1>3, <1>4, <1>5, SMTT(30), Z3T(30) DEF ReceiveHalf, ReceiveStreams, SendStreams
<1>7. \A t \in Streams : t # s => rcv'[t] = rcv[t]
    BY <1>1, <1>2, ZenonT(30)
<1>8. /\ rcvConn \in [highest : Nat, read : Nat, window : Nat, size : Nat]
      /\ rcvConn' \in [highest : Nat, read : Nat, window : Nat, size : Nat]
      /\ rcvConn'.window = rcvConn.window /\ rcvConn'.read = rcvConn.read + n
      /\ rcvConn'.highest = rcvConn.highest /\ rcvConn'.size = rcvConn.size
      /\ rcvConn.window <= rcvConn'.window
    BY <1>2, <1>3, SMTT(30), Z3T(30) DEF StreamInv, Types
<1>9. Halves' /\ \A f \in net : FrameOK(f)'
    <2>1. UNCHANGED <<snd, sndConn>>
        BY Zenon DEF ReadAccount
    <2>2. rcv[s].window <= rcv'[s].window
        <3>1. rcv'[s].window = rcv[s].window /\ rcv[s].window \in Nat
            BY <1>5, Zenon
        <3>2. QED
            BY <3>1, SMTT(30), Z3T(30)
    <2>3. QED
        BY <1>5, <1>6, <1>7, <1>8, <2>1, <2>2, ReceiveStep, ZenonT(60)
<1>10. Types'
    <2>1. queue' \subseteq Streams
        BY ZenonT(30) DEF ReadAccount, StreamInv, Types
    <2>2. queuedConn' \in BOOLEAN
        BY ZenonT(30) DEF ReadAccount
    <2>3. QED
        BY <1>5, <1>8, <2>1, <2>2, ZenonT(30) DEF StreamInv, Types, ReadAccount
<1>11. Sent' = Sent /\ Highest' = Highest
    BY <1>5, <1>7, ZenonT(60) DEF Sent, Highest, ReadAccount
<1>12. SumFunctionOnSet(ReadOf', Streams) = SumFunctionOnSet(ReadOf, Streams) + n
    <2>1. DifferAt(ReadOf, ReadOf', Streams, s)
        BY <1>1, <1>5, <1>7, SMTT(30), Z3T(30) DEF DifferAt, ReadOf, ReceiveStreams
    <2>2. ReadOf'[s] = ReadOf[s] + n
        BY <1>1, <1>3, <1>5, ZenonT(30) DEF ReadOf, ReceiveStreams
    <2>3. QED
        BY <2>1, <2>2, <1>3, StreamSum, SMTT(30), Z3T(30)
<1>13. Connection'
    BY <1>8, <1>11, <1>12, ZenonT(30) DEF StreamInv, Connection, ReadAccount
<1>14. QED
    BY <1>9, <1>10, <1>13, ZenonT(30) DEF StreamInv, Frames, ReadAccount

LEMMA CancelReadKeeps ==
    ASSUME StreamInv, NEW s \in Streams, CancelRead(s)
    PROVE  StreamInv'
<1> DEFINE c == rcv[s]
<1>1. /\ rcv \in [Streams -> ReceiveStreams] /\ c \in ReceiveStreams /\ snd[s] \in SendStreams
      /\ ReceiveHalf(c, snd[s])
    BY ZenonT(30) DEF StreamInv, Types, Halves
<1>2. /\ rcv' = [rcv EXCEPT ![s].canceled = TRUE] /\ "read" \in Cancels[s]
      /\ net' = net \cup {Frame("stop_sending", s, None, None, FALSE)}
    BY ZenonT(30) DEF CancelRead
<1>3. /\ rcv' \in [Streams -> ReceiveStreams] /\ rcv'[s].highest = c.highest /\ rcv'[s].read = c.read
      /\ rcv'[s].window = c.window /\ c.window \in Nat /\ rcv'[s].got = c.got
    BY <1>1, <1>2, ZenonT(60) DEF ReceiveStreams
<1>4. ReceiveHalf(rcv'[s], snd[s])
    BY <1>1, <1>2, <1>3, SMTT(30), Z3T(30) DEF ReceiveHalf, ReceiveStreams, SendStreams
<1>5. \A t \in Streams : t # s => rcv'[t] = rcv[t]
    BY <1>1, <1>2, ZenonT(30)
<1>6. /\ rcvConn' = rcvConn /\ rcvConn \in [highest : Nat, read : Nat, window : Nat, size : Nat]
      /\ rcvConn.window <= rcvConn'.window
    BY SMTT(30), Z3T(30) DEF CancelRead, StreamInv, Types
<1>7. Halves' /\ \A f \in net : FrameOK(f)'
    <2>1. c.window <= rcv'[s].window /\ UNCHANGED <<snd, sndConn>>
        BY <1>3, SMTT(30), Z3T(30) DEF CancelRead
    <2>2. QED
        BY <1>3, <1>4, <1>5, <1>6, <2>1, ReceiveStep, ZenonT(60)
<1>8. \A f : f = Frame("stop_sending", s, None, None, FALSE) => FrameOK(f)'
    BY <1>2 DEF FrameOK, Frame
<1>9. Types'
    BY <1>3, ZenonT(30) DEF StreamInv, Types, CancelRead
<1>10. Sent' = Sent /\ Highest' = Highest /\ ReadOf' = ReadOf
    BY <1>3, <1>5, ZenonT(30) DEF Sent, Highest, ReadOf, CancelRead
<1>11. Connection'
    BY <1>10, ZenonT(30) DEF StreamInv, Connection, CancelRead
<1>12. QED
    BY <1>2, <1>7, <1>8, <1>9, <1>11, ZenonT(60) DEF StreamInv, Frames

\* A new window is at least the one before: maybeAdjustWindowSize does not shrink
\* it, and it is only moved when a quarter of it was read.
LEMMA WindowGrows ==
    ASSUME NEW window \in Nat, NEW read \in Nat, NEW size \in Nat, NEW max \in Nat,
           1 <= size, size <= max, window - read <= (3 * size) \div 4,
           NEW new \in NewSizes(size, max)
    PROVE  new \in 1..max /\ size <= new /\ window <= read + new
<1>1. Min({2 * size, max}) = IF 2 * size <= max THEN 2 * size ELSE max
    BY MinOfTwo, SMTT(30), Z3T(30)
<1>2. new = size \/ new = IF 2 * size <= max THEN 2 * size ELSE max
    BY <1>1, Zenon DEF NewSizes
<1>3. new \in Nat /\ 1 <= new /\ new <= max /\ size <= new
    BY <1>2, SMTT(30), Z3T(30)
<1>4. (3 * size) \div 4 <= size
    OBVIOUS
<1>5. QED
    BY <1>3, <1>4, SMTT(30), Z3T(30)

LEMMA QueueConnKeeps ==
    ASSUME StreamInv, QueueConn
    PROVE  StreamInv'
<1>1. /\ rcvConn \in [highest : Nat, read : Nat, window : Nat, size : Nat]
      /\ rcvConn.size \in 1..MaxConnWindow /\ MaxConnWindow \in Nat
      /\ sndConn \in [sent : Nat, sendWindow : Nat]
    BY StreamAssumption, ZenonT(30) DEF StreamInv, Types, Connection
<1>2. UNCHANGED <<snd, rcv, sndConn, queue>> /\ queuedConn' \in BOOLEAN
    BY Zenon DEF QueueConn
<1>3. Sent' = Sent /\ Highest' = Highest /\ ReadOf' = ReadOf
    BY <1>2, ZenonT(30) DEF Sent, Highest, ReadOf
<1>4. Halves'
    BY <1>2, ZenonT(30) DEF StreamInv, Halves
<1>5. CASE ~HasWindowUpdate(rcvConn)
    <2>1. UNCHANGED rcvConn /\ net' = net \cup {Frame("max_data", None, None, 0, FALSE)}
        BY <1>5, ZenonT(30) DEF QueueConn
    <2>2. \A f : f = Frame("max_data", None, None, 0, FALSE) => FrameOK(f)'
        BY <1>1, <2>1, SMTT(30), Z3T(30) DEF FrameOK, Frame
    <2>3. \A f \in net : FrameOK(f)'
        BY <1>2, <2>1, Zenon DEF StreamInv, Frames, FrameOK
    <2>4. Frames'
        BY <2>1, <2>2, <2>3, Zenon DEF Frames
    <2>5. Connection' /\ Types'
        BY <1>2, <1>3, <2>1, Zenon DEF StreamInv, Connection, Types
    <2>6. QED
        BY <1>4, <2>4, <2>5, ZenonT(30) DEF StreamInv
<1>6. CASE HasWindowUpdate(rcvConn)
    <2>1. PICK size \in NewSizes(rcvConn.size, MaxConnWindow) :
            /\ rcvConn' = [rcvConn EXCEPT !.size = size, !.window = rcvConn.read + size]
            /\ net' = net \cup {Frame("max_data", None, None, rcvConn'.window, FALSE)}
        BY <1>6, Zenon DEF QueueConn
    <2>2. rcvConn.window - rcvConn.read <= (3 * rcvConn.size) \div 4
        BY <1>6, ZenonT(30) DEF HasWindowUpdate
    <2>3. size \in 1..MaxConnWindow /\ rcvConn.window <= rcvConn.read + size
        BY <1>1, <2>2, WindowGrows, SMTT(30), Z3T(30)
    <2>4. /\ rcvConn' \in [highest : Nat, read : Nat, window : Nat, size : Nat]
          /\ rcvConn'.size \in 1..MaxConnWindow /\ rcvConn.window <= rcvConn'.window
          /\ rcvConn'.highest = rcvConn.highest /\ rcvConn'.read = rcvConn.read
        <3>1. size \in Nat /\ rcvConn.read + size \in Nat
            BY <1>1, <2>3, SMTT(30), Z3T(30)
        <3>2. QED
            BY <1>1, <2>1, <2>3, <3>1, Zenon
    <2>5. \A f : f = Frame("max_data", None, None, rcvConn'.window, FALSE) => FrameOK(f)'
        BY <2>4, SMTT(30), Z3T(30) DEF FrameOK, Frame
    <2>6. \A f \in net : FrameOK(f)'
        BY <1>1, <1>2, <2>4, SMTT(30), Z3T(30) DEF StreamInv, Frames, FrameOK
    <2>7. Frames'
        BY <2>1, <2>5, <2>6, Zenon DEF Frames
    <2>8. Types'
        BY <1>2, <2>4, ZenonT(30) DEF StreamInv, Types
    <2>9. Connection'
        BY <1>1, <1>2, <1>3, <2>4, SMTT(30), Z3T(30) DEF StreamInv, Connection
    <2>10. QED
        BY <1>4, <2>7, <2>8, <2>9, ZenonT(30) DEF StreamInv
<1>7. QED
    BY <1>5, <1>6, ZenonT(30)

LEMMA QueueStreamKeeps ==
    ASSUME StreamInv, NEW s \in Streams, QueueStream(s)
    PROVE  StreamInv'
<1> DEFINE c == rcv[s]
<1>1. /\ rcv \in [Streams -> ReceiveStreams] /\ c \in ReceiveStreams /\ snd[s] \in SendStreams
      /\ ReceiveHalf(c, snd[s]) /\ MaxStreamWindow \in Nat /\ MaxConnWindow \in Nat
      /\ rcvConn \in [highest : Nat, read : Nat, window : Nat, size : Nat]
      /\ rcvConn.size \in 1..MaxConnWindow
    BY StreamAssumption, ZenonT(30) DEF StreamInv, Types, Halves, Connection
<1>2. PICK size \in NewSizes(c.size, MaxStreamWindow) :
          /\ rcv' = [rcv EXCEPT ![s].size = size, ![s].window = c.read + size]
          /\ rcvConn' = [rcvConn EXCEPT !.size =
                            IF size > c.size /\ (3 * size) \div 2 > @
                            THEN Min({(3 * size) \div 2, MaxConnWindow}) ELSE @]
          /\ net' = net \cup {Frame("max_stream_data", s, None, rcv'[s].window, FALSE)}
    BY Zenon DEF QueueStream
<1>3. c.window - c.read <= (3 * c.size) \div 4
    BY ZenonT(30) DEF QueueStream, HasWindowUpdate
<1>4. size \in 1..MaxStreamWindow /\ c.window <= c.read + size
    <2>1. /\ c.window \in Nat /\ c.read \in Nat /\ c.size \in Nat
          /\ 1 <= c.size /\ c.size <= MaxStreamWindow
        BY <1>1, SMTT(30), Z3T(30) DEF ReceiveStreams, ReceiveHalf
    <2>2. QED
        BY <1>1, <1>3, <2>1, WindowGrows, ZenonT(60)
<1>5. /\ rcv' \in [Streams -> ReceiveStreams] /\ rcv'[s].highest = c.highest /\ rcv'[s].read = c.read
      /\ c.window <= rcv'[s].window /\ rcv'[s].window \in Nat /\ rcv'[s].got = c.got
    <2> DEFINE x == [c EXCEPT !.size = size, !.window = c.read + size]
    <2>1. rcv' = [rcv EXCEPT ![s] = x]
        BY <1>1, <1>2, Zenon
    <2>2. size \in Nat /\ c.read + size \in Nat
        BY <1>1, <1>4, SMTT(30), Z3T(30) DEF ReceiveStreams
    <2>3. /\ x \in ReceiveStreams /\ x.highest = c.highest /\ x.read = c.read /\ x.window = c.read + size
          /\ x.got = c.got
        BY <1>1, <2>2, ZenonT(60) DEF ReceiveStreams
    <2> HIDE DEF x
    <2>4. QED
        BY <1>1, <1>4, <2>1, <2>2, <2>3, OneChanged, SMTT(30), Z3T(30)
<1>6. ReceiveHalf(rcv'[s], snd[s])
    BY <1>1, <1>2, <1>4, <1>5, SMTT(30), Z3T(30) DEF ReceiveHalf, ReceiveStreams, SendStreams
<1>7. \A t \in Streams : t # s => rcv'[t] = rcv[t]
    BY <1>1, <1>2, ZenonT(30)
<1>8. /\ rcvConn' \in [highest : Nat, read : Nat, window : Nat, size : Nat]
      /\ rcvConn'.size \in 1..MaxConnWindow /\ rcvConn.window = rcvConn'.window
      /\ rcvConn'.highest = rcvConn.highest /\ rcvConn'.read = rcvConn.read
      /\ rcvConn.window <= rcvConn'.window
    <2> DEFINE k == (3 * size) \div 2
               z == IF size > c.size /\ k > rcvConn.size THEN Min({k, MaxConnWindow}) ELSE rcvConn.size
    <2>1. k \in Int
        BY <1>4, SMTT(30), Z3T(30)
    <2> HIDE DEF k
    <2>2. Min({k, MaxConnWindow}) = IF k <= MaxConnWindow THEN k ELSE MaxConnWindow
        BY <1>1, <2>1, MinOfTwo, SMTT(30), Z3T(30)
    <2>3. z \in 1..MaxConnWindow
        BY <1>1, <2>1, <2>2, SMTT(30), Z3T(30)
    <2>4. rcvConn' = [rcvConn EXCEPT !.size = z]
        BY <1>1, <1>2, ZenonT(30) DEF k
    <2> HIDE DEF z
    <2>5. QED
        BY <1>1, <2>3, <2>4, SMTT(30), Z3T(30)
<1>9. snd' = snd /\ sndConn' = sndConn /\ queuedConn' = queuedConn /\ queue' = queue \ {s}
    BY ZenonT(30) DEF QueueStream
<1>10. Halves' /\ \A f \in net : FrameOK(f)'
    BY <1>5, <1>6, <1>7, <1>8, <1>9, ReceiveStep, ZenonT(30)
<1>11. \A f : f = Frame("max_stream_data", s, None, rcv'[s].window, FALSE) => FrameOK(f)'
    BY <1>5, SMTT(30), Z3T(30) DEF FrameOK, Frame
<1>12. Types'
    BY <1>5, <1>8, <1>9, ZenonT(60) DEF StreamInv, Types
<1>13. Sent' = Sent /\ Highest' = Highest /\ ReadOf' = ReadOf
    BY <1>5, <1>7, <1>9, ZenonT(30) DEF Sent, Highest, ReadOf
<1>14. Connection'
    BY <1>8, <1>9, <1>13, ZenonT(30) DEF StreamInv, Connection
<1>15. QED
    BY <1>2, <1>10, <1>11, <1>12, <1>14, ZenonT(60) DEF StreamInv, Frames

LEMMA StreamInitially == Init => StreamInv
<1> SUFFICES ASSUME Init PROVE StreamInv
    BY ZenonT(30)
<1>1. Types
    <2>1. snd \in [Streams -> SendStreams]
        BY StreamAssumption, ZenonT(30) DEF Init, SendStreams
    <2>2. rcv \in [Streams -> ReceiveStreams]
        <3> DEFINE none == [got |-> {}, highest |-> 0, final |-> FALSE, finAt |-> None,
                            pos |-> 0, copied |-> None, last |-> FALSE, read |-> 0,
                            window |-> StreamWindow, size |-> StreamWindow, finRead |-> FALSE,
                            canceled |-> FALSE, reset |-> FALSE, completed |-> 0]
        <3>1. StreamWindow \in Nat /\ None \in Int
            BY StreamAssumption, SMTT(30), Z3T(30) DEF None
        <3>2. none \in ReceiveStreams
            BY <3>1, SMTT(30), Z3T(30) DEF ReceiveStreams
        <3>3. rcv = [s \in Streams |-> none]
            BY Zenon DEF Init
        <3> HIDE DEF none
        <3>4. QED
            BY <3>2, <3>3, Zenon
    <2>3. QED
        BY <2>1, <2>2, StreamAssumption, ZenonT(30) DEF Init, Types
<1>2. Halves
    <2> SUFFICES ASSUME NEW s \in Streams
                 PROVE  /\ snd[s].data + snd[s].sent <= MaxBytes[s] /\ SendHalf(snd[s])
                        /\ Queued(s, snd[s]) /\ ReceiveHalf(rcv[s], snd[s])
        BY Zenon DEF Halves
    <2> DEFINE c == rcv[s]
               d == snd[s]
    <2>1. d = [data |-> 0, sent |-> 0, sendWindow |-> StreamWindow,
               lastBlockedAt |-> 0, active |-> FALSE, finished |-> FALSE,
               finSent |-> FALSE, canceled |-> FALSE, canceling |-> FALSE, completed |-> 0]
        BY Zenon DEF Init
    <2>2. c = [got |-> {}, highest |-> 0, final |-> FALSE, finAt |-> None,
               pos |-> 0, copied |-> None, last |-> FALSE, read |-> 0,
               window |-> StreamWindow, size |-> StreamWindow, finRead |-> FALSE,
               canceled |-> FALSE, reset |-> FALSE, completed |-> 0]
        BY Zenon DEF Init
    <2>3. /\ StreamWindow \in Nat \ {0} /\ StreamWindow <= MaxStreamWindow
          /\ MaxStreamWindow \in Nat /\ MaxBytes[s] \in Nat
        BY StreamAssumption, ZenonT(60)
    <2> HIDE DEF c, d
    <2>4. /\ d.data = 0 /\ d.sent = 0 /\ d.sendWindow = StreamWindow /\ d.completed = 0
          /\ ~d.finSent /\ ~d.canceled /\ ~d.canceling
        BY <2>1, SMTT(30), Z3T(30)
    <2>5. /\ c.got = {} /\ c.highest = 0 /\ c.finAt = None /\ c.pos = 0 /\ c.copied = None
          /\ c.read = 0 /\ c.window = StreamWindow /\ c.size = StreamWindow /\ c.completed = 0
          /\ ~c.last /\ ~c.finRead /\ ~c.reset
        BY <2>2, SMTT(30), Z3T(30)
    <2>6. d.data + d.sent <= MaxBytes[s] /\ SendHalf(d) /\ Queued(s, d)
        BY <2>3, <2>4, SMTT(30), Z3T(30) DEF SendHalf, Queued
    <2>7. ReceiveHalf(c, d)
        BY <2>3, <2>4, <2>5, SMTT(30), Z3T(30) DEF ReceiveHalf
    <2>8. QED
        BY <2>6, <2>7, Zenon DEF c, d
<1>3. Frames
    BY ZenonT(30) DEF Init, Frames
<1>4. \A s \in Streams : Sent[s] = 0 /\ Highest[s] = 0 /\ ReadOf[s] = 0
    BY Zenon DEF Init, Sent, Highest, ReadOf
<1>5. /\ SumFunctionOnSet(Sent, Streams) = 0
      /\ SumFunctionOnSet(Highest, Streams) = 0
      /\ SumFunctionOnSet(ReadOf, Streams) = 0
    BY <1>4, SumZero, StreamAssumption, ZenonT(30)
<1>6. Connection
    BY <1>5, StreamAssumption, SMTT(30), Z3T(30) DEF Init, Connection
<1>7. QED
    BY <1>1, <1>2, <1>3, <1>6, ZenonT(30) DEF StreamInv

LEMMA StreamInvKept == StreamInv /\ [Next]_vars => StreamInv'
<1> SUFFICES ASSUME StreamInv, [Next]_vars PROVE StreamInv'
    BY ZenonT(30)
<1>1. ASSUME NEW s \in Streams, 
             \/ Write(s) \/ Close(s) \/ PopStreamFrame(s)
             \/ CancelWrite(s) \/ CancelWriteCompletes(s)
             \/ ReadCopy(s) \/ ReadAccount(s) \/ CancelRead(s) \/ QueueStream(s)
      PROVE  StreamInv'
    BY <1>1, WriteKeeps, CloseKeeps, PopStreamFrameKeeps, CancelWriteKeeps, CancelWriteCompletesKeeps,
       ReadCopyKeeps, ReadAccountKeeps, CancelReadKeeps, QueueStreamKeeps, ZenonT(30)
<1>2. ASSUME NEW f \in net, SenderReceives(f)
      PROVE  StreamInv'
    BY <1>2, HandleMaxStreamDataFrameKeeps, HandleMaxDataFrameKeeps, HandleStopSendingFrameKeeps, ZenonT(30)
    DEF SenderReceives
<1>3. CASE UNCHANGED vars
    <2>1. Sent' = Sent /\ Highest' = Highest /\ ReadOf' = ReadOf
        BY <1>3, ZenonT(30) DEF vars, Sent, Highest, ReadOf
    <2>2. Types' /\ Halves' /\ Frames'
        <3>1. Types'
            BY <1>3, ZenonT(30) DEF vars, StreamInv, Types
        <3>2. Halves'
            BY <1>3, ZenonT(30) DEF vars, StreamInv, Halves
        <3>3. Frames'
            BY <1>3, ZenonT(30) DEF vars, StreamInv, Frames, FrameOK
        <3>4. QED
            BY <3>1, <3>2, <3>3, ZenonT(60)
    <2>3. QED
        BY <1>3, <2>1, <2>2, ZenonT(30) DEF vars, StreamInv, Connection
<1>4. ASSUME NEW f \in net, ReceiverReceives(f)
      PROVE  StreamInv'
    <2>1. CASE RcvDeleted(f.id)
        <3>1. UNCHANGED vars
            BY <1>4, <2>1, ZenonT(30) DEF ReceiverReceives, vars
        <3>2. QED
            BY <1>3, <3>1, ZenonT(30)
    <2>2. CASE ~RcvDeleted(f.id)
        BY <1>4, <2>2, HandleStreamFrameKeeps, HandleResetStreamFrameKeeps, ZenonT(30)
        DEF ReceiverReceives
    <2>3. QED
        BY <2>1, <2>2, Zenon
<1>5. QED
    BY <1>1, <1>2, <1>3, <1>4, QueueConnKeeps, ZenonT(30) DEF Next

\* Stream and connection are credited the bytes the application got, each once,
\* but for what RESET_STREAM keeps Read from accounting for (AddBytesRead): for every
\* schedule of Read, frames and cancels.
THEOREM CreditIsExact == Spec => []CreditExact
<1>1. StreamInv => CreditExact
    <2> SUFFICES ASSUME StreamInv PROVE CreditExact
        BY ZenonT(30)
    <2>1. rcvConn.read = SumFunctionOnSet([s \in Streams |-> rcv[s].read], Streams)
        BY ZenonT(30) DEF StreamInv, Connection, ReadOf
    <2>2. ASSUME NEW s \in Streams
          PROVE  ReceiveHalf(rcv[s], snd[s])
        BY Zenon DEF StreamInv, Halves
    <2>3. QED
        BY <2>1, <2>2, ZenonT(30) DEF CreditExact, ReceiveHalf, Unaccounted
<1>2. QED
    BY <1>1, StreamInitially, StreamInvKept, PTL DEF Spec

\* A stream with data and window left is in the framer's queue: no interleaving of
\* Write, MAX_STREAM_DATA and the framer loses it (AppendStreamFrames,
\* handleMaxStreamDataFrame).
THEOREM NeverStalled == Spec => []NotStalled
<1>1. StreamInv => NotStalled
    <2> SUFFICES ASSUME StreamInv, NEW s \in Streams, snd[s].data > 0, SendWindowSize(snd[s]) > 0,
                        ~SndDeleted(s)
                 PROVE  snd[s].active
        BY ZenonT(30) DEF NotStalled
    <2>1. snd[s] \in SendStreams /\ Queued(s, snd[s]) /\ SendHalf(snd[s])
        BY ZenonT(30) DEF StreamInv, Types, Halves
    <2>2. snd[s].sent < snd[s].sendWindow
        BY <2>1, SMTT(30), Z3T(30) DEF SendWindowSize, SendStreams
    <2>3. QED
        BY <2>1, <2>2, ZenonT(30) DEF Queued, SndDeleted
<1>2. QED
    BY <1>1, StreamInitially, StreamInvKept, PTL DEF Spec

\* Each half is completed at most once, whatever FIN, RESET_STREAM, STOP_SENDING,
\* Close and the cancels race with (onStreamCompleted).
THEOREM CompletesOnce == Spec => []CompletedOnce
<1>1. StreamInv => CompletedOnce
    BY ZenonT(30) DEF StreamInv, Halves, SendHalf, ReceiveHalf, CompletedOnce
<1>2. QED
    BY <1>1, StreamInitially, StreamInvKept, PTL DEF Spec

-----------------------------------------------------------------------------
(* The final offset, and what the receiver checks. *)

\* A frame that was sent is within the limits of its stream and of the connection.
LEMMA WithinLimits ==
    ASSUME StreamInv, NEW f \in net, f.kind \in {"stream", "reset"}
    PROVE  /\ ~Exceeds(f.to, rcv[f.id].window)
           /\ ~Exceeds(rcvConn.highest + f.to - rcv[f.id].highest, rcvConn.window)
<1> DEFINE s == f.id
           c == rcv[s]
           d == snd[s]
<1>1. s \in Streams /\ f.to \in Nat /\ f.to <= d.sent
    BY ZenonT(30) DEF StreamInv, Frames, FrameOK
<1>2. c \in ReceiveStreams /\ d \in SendStreams /\ ReceiveHalf(c, d) /\ SendHalf(d)
    BY <1>1, ZenonT(30) DEF StreamInv, Types, Halves
<1>3. c.highest \in Nat /\ d.sent \in Nat /\ c.highest <= d.sent /\ d.sent <= c.window /\ c.window \in Nat
    <2>1. c.highest \in Nat /\ c.window \in Nat
        BY <1>2, ZenonT(30) DEF ReceiveStreams
    <2>2. d.sent \in Nat /\ d.sendWindow \in Nat
        BY <1>2, ZenonT(30) DEF SendStreams
    <2>3. c.highest <= d.sent /\ d.sent <= d.sendWindow /\ d.sendWindow <= c.window
        BY <1>2, ZenonT(60) DEF ReceiveHalf, SendHalf
    <2>4. QED
        BY <2>1, <2>2, <2>3, SMTT(30), Z3T(30)
<1>4. rcvConn.highest + f.to - c.highest <= rcvConn.window
    <2> DEFINE g == [Highest EXCEPT ![s] = d.sent]
    <2>1. \A t \in Streams : /\ Highest[t] \in Nat /\ Sent[t] \in Nat /\ Highest[t] <= Sent[t]
        BY ZenonT(30)
        DEF StreamInv, Types, Halves, ReceiveHalf, Highest, Sent, ReceiveStreams, SendStreams
    <2>2. DifferAt(Highest, g, Streams, s) /\ g[s] = Highest[s] + (d.sent - c.highest)
        BY <1>1, <1>3, <2>1, SMTT(30), Z3T(30) DEF DifferAt, Highest
    <2>3. \A t \in Streams : g[t] \in Int /\ Sent[t] \in Int /\ g[t] <= Sent[t]
        BY <1>1, <1>3, <2>1, SMTT(30), Z3T(30) DEF Highest, Sent
    <2> HIDE DEF g
    <2>4. SumFunctionOnSet(g, Streams) = SumFunctionOnSet(Highest, Streams) + (d.sent - c.highest)
        BY <1>1, <1>3, <2>2, StreamSum, SMTT(30), Z3T(30)
    <2>5. SumFunctionOnSet(g, Streams) <= SumFunctionOnSet(Sent, Streams)
        BY <2>3, SumAtMost, StreamAssumption, ZenonT(30)
    <2>6. /\ rcvConn.highest = SumFunctionOnSet(Highest, Streams) /\ rcvConn.highest \in Nat
          /\ sndConn.sent = SumFunctionOnSet(Sent, Streams) /\ sndConn.sent \in Nat
          /\ sndConn.sent <= sndConn.sendWindow /\ sndConn.sendWindow <= rcvConn.window
          /\ sndConn.sendWindow \in Nat /\ rcvConn.window \in Nat
        BY ZenonT(30) DEF StreamInv, Connection, Types
    <2>7. QED
        BY <1>1, <1>3, <2>4, <2>5, <2>6, SMTT(30), Z3T(30)
<1>5. rcvConn.highest \in Nat /\ rcvConn.window \in Nat
    BY ZenonT(30) DEF StreamInv, Types
<1>6. QED
    BY <1>1, <1>3, <1>4, <1>5, SMTT(30), Z3T(30) DEF Exceeds

\* The receiver finds no limit exceeded ...
LEMMA NotTooMuch ==
    ASSUME StreamInv, NEW f \in net, f.kind \in {"stream", "reset"}, NEW final \in BOOLEAN
    PROVE  HighestReceivedError(rcv[f.id], f.to, final) \in {"none", "data after termination"}
BY WithinLimits, ZenonT(30) DEF HighestReceivedError

\* ... and as long as the ends are final it accepts every frame.
LEMMA Accepted ==
    ASSUME StreamInv, Ends, NEW f \in net, f.kind \in {"stream", "reset"}, NEW final \in BOOLEAN,
           final => f.fin
    PROVE  HighestReceivedError(rcv[f.id], f.to, final) = "none"
<1> DEFINE s == f.id
           c == rcv[s]
           d == snd[s]
<1>1. /\ s \in Streams /\ f.to \in Nat /\ f.to <= d.sent
      /\ f.fin => Ended(d) /\ f.to = d.sent
    BY ZenonT(30) DEF StreamInv, Frames, FrameOK, Ends
<1>2. /\ c \in ReceiveStreams /\ d \in SendStreams /\ ReceiveHalf(c, d)
      /\ c.final => c.highest = d.sent
    BY <1>1, ZenonT(30) DEF StreamInv, Types, Halves, Ends
<1>3. c.highest \in Nat /\ d.sent \in Nat /\ c.highest <= d.sent
    BY <1>2, ZenonT(30) DEF ReceiveStreams, SendStreams, ReceiveHalf
<1>4. ~(\/ c.final /\ final /\ f.to # c.highest
        \/ c.final /\ f.to > c.highest
        \/ final /\ f.to < c.highest)
    BY <1>1, <1>2, <1>3, SMTT(30), Z3T(30)
<1>5. QED
    BY <1>4, WithinLimits, ZenonT(30) DEF HighestReceivedError

\* A step of the sending half s keeps its end.
LEMMA SendEnds ==
    ASSUME StreamInv, Ends, NEW s \in Streams,
           \A t \in Streams : t # s => snd'[t] = snd[t],
           Ended(snd[s]) => Ended(snd'[s]) /\ snd'[s].sent = snd[s].sent,
           snd'[s].canceled => snd[s].canceled \/ ResetSent(s)',
           net \subseteq net',
           \A f \in net' : f \in net \/ (f.id = s /\ Ended(snd'[s]) /\ f.to = snd'[s].sent),
           UNCHANGED <<rcv, err>>
    PROVE  Ends'
<1>1. ASSUME NEW t \in Streams
      PROVE  /\ snd'[t].canceled => ResetSent(t)'
             /\ rcv'[t].final => Ended(snd'[t]) /\ rcv'[t].highest = snd'[t].sent
    <2>1. ResetSent(t) => ResetSent(t)'
        BY ZenonT(30) DEF ResetSent
    <2>2. CASE t = s
        BY <2>1, <2>2, ZenonT(30) DEF Ends
    <2>3. CASE t # s
        BY <2>1, <2>3, ZenonT(30) DEF Ends
    <2>4. QED
        BY <2>2, <2>3, ZenonT(30)
<1>2. ASSUME NEW f \in net', f.kind \in {"stream", "reset"} /\ f.fin
      PROVE  Ended(snd'[f.id]) /\ f.to = snd'[f.id].sent
    <2>1. CASE f \in net
        <3>1. Ended(snd[f.id]) /\ f.to = snd[f.id].sent /\ f.id \in Streams
            BY <1>2, <2>1, ZenonT(30) DEF Ends, StreamInv, Frames, FrameOK
        <3>2. QED
            BY <3>1, ZenonT(30)
    <2>2. CASE f \notin net
        BY <1>2, <2>2, ZenonT(30)
    <2>3. QED
        BY <2>1, <2>2, ZenonT(30)
<1>3. err' = "none"
    BY ZenonT(30) DEF Ends
<1>4. QED
    BY <1>1, <1>2, <1>3, ZenonT(30) DEF Ends

LEMMA WriteEnds ==
    ASSUME StreamInv, Ends, NEW s \in Streams, Write(s) \/ Close(s) \/ CancelWriteCompletes(s)
    PROVE  Ends'
<1>1. snd \in [Streams -> SendStreams] /\ SendHalf(snd[s])
    BY ZenonT(30) DEF StreamInv, Types, Halves
<1>2. /\ \A t \in Streams : t # s => snd'[t] = snd[t]
      /\ snd'[s].sent = snd[s].sent /\ net' = net /\ UNCHANGED <<rcv, err>>
      /\ snd'[s].finSent = snd[s].finSent /\ snd'[s].canceled = snd[s].canceled
    <2>1. CASE Write(s)
        <3>1. PICK n \in 1..(MaxBytes[s] - snd[s].sent) :
                  snd' = [snd EXCEPT ![s].data = n, ![s].active = TRUE]
            BY <2>1, Zenon DEF Write
        <3>2. net' = net /\ UNCHANGED <<rcv, err>>
            BY <2>1, ZenonT(30) DEF Write
        <3>3. QED
            BY <1>1, <3>1, <3>2, SMTT(30), Z3T(30) DEF SendStreams
    <2>2. CASE Close(s)
        BY <1>1, <2>2, SMTT(30), Z3T(30) DEF Close, SendStreams
    <2>3. CASE CancelWriteCompletes(s)
        BY <1>1, <2>3, ZenonT(30) DEF CancelWriteCompletes, SendStreams
    <2>4. QED
        BY <2>1, <2>2, <2>3, ZenonT(30)
<1>3. Ended(snd'[s]) = Ended(snd[s])
    BY <1>2, ZenonT(30) DEF Ended
<1>4. QED
    BY <1>2, <1>3, SendEnds, ZenonT(30)

LEMMA CancelWriteEnds ==
    ASSUME StreamInv, Ends, NEW s \in Streams, CancelWrite(s)
    PROVE  Ends'
<1>1. snd \in [Streams -> SendStreams] /\ SendHalf(snd[s])
    BY ZenonT(30) DEF StreamInv, Types, Halves
<1>2. /\ snd' = [snd EXCEPT ![s].canceled = TRUE, ![s].canceling = TRUE]
      /\ net' = net \cup {Frame("reset", s, None, snd[s].sent, TRUE)} /\ UNCHANGED <<rcv, err>>
    BY ZenonT(30) DEF CancelWrite, CancelWriteImpl
<1>3. /\ \A t \in Streams : t # s => snd'[t] = snd[t]
      /\ snd'[s].sent = snd[s].sent /\ snd'[s].canceled
    BY <1>1, <1>2, SMTT(30), Z3T(30) DEF SendStreams
<1>4. Ended(snd'[s])
    BY <1>3, ZenonT(30) DEF Ended
<1>5. \A f : f = Frame("reset", s, None, snd[s].sent, TRUE) =>
                 f.kind = "reset" /\ f.id = s /\ f.to = snd'[s].sent
    BY <1>3, SMTT(30), Z3T(30) DEF Frame
<1>6. ResetSent(s)'
    BY <1>2, <1>5, ZenonT(30) DEF ResetSent
<1>7. QED
    BY <1>2, <1>3, <1>4, <1>5, <1>6, SendEnds, ZenonT(60)

LEMMA StopSendingEnds ==
    ASSUME StreamInv, Ends, NEW f \in net, f.kind = "stop_sending",
           HandleStopSendingFrame(f), UNCHANGED <<rcv, err>>
    PROVE  Ends'
<1> DEFINE s == f.id
<1>1. s \in Streams
    BY ZenonT(30) DEF StreamInv, Frames, FrameOK
<1>2. snd \in [Streams -> SendStreams] /\ SendHalf(snd[s])
    BY <1>1, ZenonT(30) DEF StreamInv, Types, Halves
<1>3. /\ snd' = [snd EXCEPT ![s].canceled = TRUE, ![s].completed = @ + 1]
      /\ net' = net \cup {Frame("reset", s, None, snd[s].sent, TRUE)}
    BY ZenonT(30) DEF HandleStopSendingFrame
<1> HIDE DEF s
<1>4. /\ \A t \in Streams : t # s => snd'[t] = snd[t]
      /\ snd'[s].sent = snd[s].sent /\ snd'[s].canceled
    BY <1>1, <1>2, <1>3, SMTT(30), Z3T(30) DEF SendStreams
<1>5. Ended(snd'[s])
    BY <1>4, ZenonT(30) DEF Ended
<1>6. \A g : g = Frame("reset", s, None, snd[s].sent, TRUE) =>
                 g.kind = "reset" /\ g.id = s /\ g.to = snd'[s].sent
    BY <1>4, SMTT(30), Z3T(30) DEF Frame
<1>7. ResetSent(s)'
    BY <1>3, <1>6, ZenonT(30) DEF ResetSent
<1>8. QED
    BY <1>1, <1>3, <1>4, <1>5, <1>6, <1>7, SendEnds, ZenonT(60)

\* The data of a cancelled half is sent after its RESET_STREAM.
LEMMA PopStreamFrameEnds ==
    ASSUME StreamInv, Ends, NEW s \in Streams, PopStreamFrame(s)
    PROVE  SentAfterReset' \/ Ends'
<1> DEFINE c == snd[s]
<1>1. snd \in [Streams -> SendStreams] /\ SendHalf(c) /\ c \in SendStreams
    BY ZenonT(30) DEF StreamInv, Types, Halves
<1>2. UNCHANGED <<rcv, err>> /\ (c.canceled => ResetSent(s))
    BY Zenon DEF PopStreamFrame, Ends
<1>3. CASE SndDeleted(s) \/ (c.data > 0 /\ Window(s) = 0)
    <2>1. /\ \A t \in Streams : t # s => snd'[t] = snd[t]
          /\ snd'[s].sent = c.sent /\ net' = net
          /\ snd'[s].finSent = c.finSent /\ snd'[s].canceled = c.canceled
        <3>1. CASE SndDeleted(s)
            <4>1. snd' = [snd EXCEPT ![s].active = FALSE] /\ net' = net
                BY <3>1, ZenonT(30) DEF PopStreamFrame
            <4>2. QED
                BY <1>1, <4>1, ZenonT(30) DEF SendStreams
        <3>2. CASE ~SndDeleted(s)
            <4>1. snd' = [snd EXCEPT ![s].lastBlockedAt = c.sendWindow, ![s].active = FALSE] /\ net' = net
                BY <1>3, <3>2, ZenonT(30) DEF PopStreamFrame
            <4>2. QED
                BY <1>1, <4>1, ZenonT(30) DEF SendStreams
        <3>3. QED
            BY <3>1, <3>2, ZenonT(30)
    <2>2. Ended(snd'[s]) = Ended(c)
        BY <2>1, ZenonT(30) DEF Ended
    <2>3. QED
        BY <1>2, <2>1, <2>2, SendEnds, ZenonT(30)
<1>4. CASE ~SndDeleted(s) /\ ~(c.data > 0 /\ Window(s) = 0)
    <2>1. PICK n \in IF c.data = 0 THEN {0} ELSE 1..Min({c.data, Window(s)}) :
              /\ snd' = [snd EXCEPT ![s].data = @ - n, ![s].sent = @ + n,
                                    ![s].finSent = @ \/ IsFin(c, n),
                                    ![s].completed = IF IsFin(c, n) THEN @ + 1 ELSE @,
                                    ![s].active = n < c.data]
              /\ net' = IF n = 0 /\ ~IsFin(c, n) THEN net
                        ELSE net \cup {Frame("stream", s, c.sent, c.sent + n, IsFin(c, n))}
        BY <1>4, ZenonT(60) DEF PopStreamFrame
    <2> DEFINE fin == IsFin(c, n)
    <2>2. c.data \in Nat /\ c.sent \in Nat /\ (c.data = 0 \/ Window(s) # 0)
        BY <1>1, <1>4, SMTT(30), Z3T(30) DEF SendStreams
    <2>3. n \in Nat /\ n <= c.data
        BY <2>2, Popped, ZenonT(30)
    <2>4. fin \in BOOLEAN /\ (fin => c.finished /\ ~c.finSent /\ n = c.data)
        BY <1>1, ZenonT(30) DEF IsFin, SendStreams
    <2> HIDE DEF fin
    <2>5. /\ \A t \in Streams : t # s => snd'[t] = snd[t]
          /\ snd'[s].sent = c.sent + n /\ snd'[s].data = c.data - n
          /\ snd'[s].finSent = (c.finSent \/ fin) /\ snd'[s].canceled = c.canceled
        BY <1>1, <2>1, ZenonT(120) DEF SendStreams, fin
    <2>6. CASE Ended(c)
        <3>1. ~fin /\ (n = 0 \/ c.canceled)
            <4>1. CASE c.finSent
                <5>1. c.data = 0
                    BY <1>1, <4>1, ZenonT(30) DEF SendHalf
                <5>2. QED
                    BY <2>1, <2>4, <4>1, <5>1, ZenonT(30)
            <4>2. CASE c.canceled
                BY <1>1, <2>4, <4>2, ZenonT(30) DEF SendHalf
            <4>3. QED
                BY <2>6, <4>1, <4>2, ZenonT(30) DEF Ended
        <3>2. CASE n = 0
            <4>1. Ended(snd'[s]) /\ snd'[s].sent = c.sent
                BY <1>1, <2>2, <2>5, <2>6, <3>2, SMTT(30), Z3T(30) DEF Ended, SendStreams
            <4>2. net' = net
                BY <2>1, <3>1, <3>2, ZenonT(30) DEF fin
            <4>3. QED
                BY <1>2, <2>5, <4>1, <4>2, SendEnds, ZenonT(30)
        <3>3. CASE n # 0
            <4>1. PICK f \in net : f.kind = "reset" /\ f.id = s
                BY <1>2, <3>1, <3>3, ZenonT(30) DEF ResetSent
            <4>2. f.fin
                BY <4>1, ZenonT(30) DEF StreamInv, Frames, FrameOK
            <4>3. f.to = c.sent
                BY <4>1, <4>2, ZenonT(30) DEF Ends
            <4>4. c.sent < c.sent + n
                BY <2>2, <2>3, <3>3, SMTT(30), Z3T(30)
            <4>5. f.to < snd'[f.id].sent
                BY <2>5, <4>1, <4>3, <4>4, ZenonT(30)
            <4>6. f \in net'
                BY <2>1, ZenonT(30)
            <4>7. QED
                BY <4>1, <4>5, <4>6, ZenonT(30) DEF SentAfterReset
        <3>4. QED
            BY <3>2, <3>3, ZenonT(30)
    <2>7. CASE ~Ended(c)
        <3>1. Ended(snd'[s]) = fin
            BY <1>1, <2>4, <2>5, <2>7, ZenonT(30) DEF Ended, SendStreams
        <3>2. \A t \in Streams : ResetSent(t) => ResetSent(t)'
            BY <2>1, ZenonT(30) DEF ResetSent
        <3>3. ASSUME NEW f \in net', f.kind \in {"stream", "reset"} /\ f.fin
              PROVE  Ended(snd'[f.id]) /\ f.to = snd'[f.id].sent
            <4>1. CASE f \in net
                <5>1. Ended(snd[f.id]) /\ f.to = snd[f.id].sent /\ f.id \in Streams
                    <6>1. Ended(snd[f.id]) /\ f.to = snd[f.id].sent
                        BY <3>3, <4>1, ZenonT(60) DEF Ends
                    <6>2. f.id \in Streams
                        BY <3>3, <4>1, ZenonT(60) DEF StreamInv, Frames, FrameOK
                    <6>3. QED
                        BY <6>1, <6>2, ZenonT(60)
                <5>2. QED
                    BY <2>5, <2>7, <5>1, ZenonT(30)
            <4>2. CASE f \notin net
                <5>1. f = Frame("stream", s, c.sent, c.sent + n, fin)
                    BY <2>1, <4>2, ZenonT(30) DEF fin
                <5>2. f.id = s /\ f.to = c.sent + n /\ f.fin = fin
                    BY <5>1, ZenonT(30) DEF Frame
                <5>3. QED
                    BY <2>5, <3>1, <3>3, <5>2, ZenonT(30)
            <4>3. QED
                BY <4>1, <4>2, ZenonT(30)
        <3>4. ASSUME NEW t \in Streams
              PROVE  /\ snd'[t].canceled => ResetSent(t)'
                     /\ rcv'[t].final => Ended(snd'[t]) /\ rcv'[t].highest = snd'[t].sent
            <4>1. CASE t = s
                BY <1>2, <2>5, <2>7, <3>2, <4>1, ZenonT(30) DEF Ends
            <4>2. CASE t # s
                BY <1>2, <2>5, <3>2, <4>2, ZenonT(30) DEF Ends
            <4>3. QED
                BY <4>1, <4>2, ZenonT(30)
        <3>5. QED
            BY <1>2, <3>3, <3>4, ZenonT(30) DEF Ends
    <2>8. QED
        BY <2>6, <2>7, ZenonT(30)
<1>5. QED
    BY <1>3, <1>4, ZenonT(30)

\* What arrives keeps the end that the receiver knows.
LEMMA ReceiverEnds ==
    ASSUME StreamInv, Ends, NEW f \in net, ReceiverReceives(f)
    PROVE  Ends'
<1> DEFINE s == f.id
           c == rcv[s]
           m == Max({c.highest, f.to})
<1>1. /\ s \in Streams /\ f.to \in Nat /\ f.to <= snd[s].sent /\ f.fin \in BOOLEAN
      /\ f.fin => Ended(snd[s]) /\ f.to = snd[s].sent
      /\ f.kind = "reset" => f.fin
    BY ZenonT(30) DEF StreamInv, Frames, FrameOK, Ends, ReceiverReceives
<1>2. UNCHANGED <<snd, net>> /\ f.kind \in {"stream", "reset"} /\ err = "none"
    BY Zenon DEF ReceiverReceives
<1>3. CASE RcvDeleted(s)
    <2>1. UNCHANGED <<rcv, err>>
        BY <1>3, ZenonT(30) DEF ReceiverReceives
    <2>2. QED
        BY <1>2, <2>1, ZenonT(30) DEF Ends, ResetSent
<1>4. CASE ~RcvDeleted(s)
    <2>1. rcv \in [Streams -> ReceiveStreams] /\ c \in ReceiveStreams /\ snd[s] \in SendStreams /\ ReceiveHalf(c, snd[s])
        BY <1>1, ZenonT(30) DEF StreamInv, Types, Halves
    <2>2. /\ err' = "none"
          /\ \A t \in Streams : t # s => rcv'[t] = rcv[t]
          /\ rcv'[s].highest = m /\ (rcv'[s].final => c.final \/ f.fin)
        <3>1. CASE f.kind = "stream"
            <4>1. HandleStreamFrame(f)
                BY <1>4, <3>1, ZenonT(30) DEF ReceiverReceives
            <4>2. err' = HighestReceivedError(c, f.to, f.fin)
                BY <4>1, ZenonT(30) DEF HandleStreamFrame
            <4>3. HighestReceivedError(c, f.to, f.fin) = "none"
                BY <1>1, <1>2, Accepted, ZenonT(30)
            <4>4. rcv' = [rcv EXCEPT ![s].highest = m, ![s].final = @ \/ f.fin,
                                     ![s].got = @ \cup (f.from..(f.to - 1)),
                                     ![s].finAt = IF f.fin THEN f.to ELSE @]
                BY <1>1, <2>1, <4>1, ZenonT(30) DEF HandleStreamFrame
            <4> HIDE DEF s, m
            <4>5. QED
                BY <1>1, <2>1, <4>2, <4>3, <4>4, ZenonT(30) DEF ReceiveStreams
        <3>2. CASE f.kind = "reset"
            <4>1. HandleResetStreamFrame(f)
                BY <1>4, <3>2, ZenonT(30) DEF ReceiverReceives
            <4>2. err' = HighestReceivedError(c, f.to, TRUE)
                BY <4>1, ZenonT(30) DEF HandleResetStreamFrame
            <4>3. HighestReceivedError(c, f.to, TRUE) = "none"
                BY <1>1, <1>2, <3>2, Accepted, ZenonT(60)
            <4>4. rcv' = [rcv EXCEPT ![s].highest = m, ![s].final = TRUE, ![s].reset = TRUE,
                                     ![s].completed = IF ResetCompletes(c) /\ err' = "none" THEN @ + 1 ELSE @]
                BY <1>1, <2>1, <4>1, ZenonT(30) DEF HandleResetStreamFrame
            <4> HIDE DEF s, m
            <4>5. QED
                BY <1>1, <2>1, <3>2, <4>2, <4>3, <4>4, ZenonT(60) DEF ReceiveStreams
        <3>3. QED
            BY <1>2, <3>1, <3>2, ZenonT(30)
    <2>3. c.highest \in Nat /\ snd[s].sent \in Nat /\ c.highest <= snd[s].sent
        BY <2>1, ZenonT(30) DEF ReceiveStreams, SendStreams, ReceiveHalf
    <2>4. m = IF c.highest <= f.to THEN f.to ELSE c.highest
        BY <1>1, <2>3, MaxOfTwo, SMTT(30), Z3T(30)
    <2>5. c.final => Ended(snd[s]) /\ c.highest = snd[s].sent
        BY <1>1, ZenonT(30) DEF Ends
    <2>6. rcv'[s].final => Ended(snd[s]) /\ rcv'[s].highest = snd[s].sent
        BY <1>1, <2>2, <2>3, <2>4, <2>5, SMTT(30), Z3T(30)
    <2> HIDE DEF s, c, m
    <2>7. ASSUME NEW t \in Streams
          PROVE  rcv'[t].final => Ended(snd[t]) /\ rcv'[t].highest = snd[t].sent
        <3>1. CASE t = s
            BY <2>6, <3>1, ZenonT(30)
        <3>2. CASE t # s
            BY <2>2, <3>2, ZenonT(30) DEF Ends
        <3>3. QED
            BY <3>1, <3>2, ZenonT(30)
    <2>8. QED
        BY <1>2, <2>2, <2>7, ZenonT(30) DEF Ends, ResetSent
<1>5. QED
    BY <1>3, <1>4, ZenonT(30)

\* The other steps of the receiver, and the sender's of its windows, do not touch
\* the ends.
LEMMA OtherEnds ==
    ASSUME StreamInv, Ends, err' = err,
           \A t \in Streams : /\ snd'[t].finSent = snd[t].finSent /\ snd'[t].canceled = snd[t].canceled
                              /\ snd'[t].sent = snd[t].sent
                              /\ rcv'[t].final = rcv[t].final /\ rcv'[t].highest = rcv[t].highest,
           net \subseteq net',
           \A f \in net' : f \in net \/ f.kind \notin {"stream", "reset"}
    PROVE  Ends'
<1>1. \A t \in Streams : Ended(snd'[t]) = Ended(snd[t]) /\ (ResetSent(t) => ResetSent(t)')
    BY ZenonT(30) DEF Ended, ResetSent
<1>2. ASSUME NEW t \in Streams
      PROVE  /\ snd'[t].canceled => ResetSent(t)'
             /\ rcv'[t].final => Ended(snd'[t]) /\ rcv'[t].highest = snd'[t].sent
    BY <1>1, ZenonT(30) DEF Ends
<1>3. ASSUME NEW f \in net', f.kind \in {"stream", "reset"} /\ f.fin
      PROVE  Ended(snd'[f.id]) /\ f.to = snd'[f.id].sent
    <2>1. f \in net
        BY <1>3, ZenonT(30)
    <2>2. f.id \in Streams /\ Ended(snd[f.id]) /\ f.to = snd[f.id].sent
        BY <1>3, <2>1, ZenonT(30) DEF Ends, StreamInv, Frames, FrameOK
    <2>3. QED
        BY <1>1, <2>2, ZenonT(30)
<1>4. QED
    BY <1>2, <1>3, ZenonT(30) DEF Ends

LEMMA EndsKept ==
    ASSUME StreamInv, Ends, [Next]_vars
    PROVE  SentAfterReset' \/ Ends'
<1>1. snd \in [Streams -> SendStreams] /\ rcv \in [Streams -> ReceiveStreams]
    BY ZenonT(30) DEF StreamInv, Types
<1>2. ASSUME NEW s \in Streams, ReadCopy(s)
      PROVE  Ends'
    <2>1. PICK n \in 0..MaxBytes[s] :
              rcv' = [rcv EXCEPT ![s].copied = n, ![s].pos = @ + n, ![s].last = rcv[s].pos + n = rcv[s].finAt]
        BY <1>2, ZenonT(60) DEF ReadCopy
    <2>2. \A t \in Streams : rcv'[t].final = rcv[t].final /\ rcv'[t].highest = rcv[t].highest
        BY <1>1, <2>1, SMTT(30), Z3T(30) DEF ReceiveStreams
    <2>3. UNCHANGED <<snd, net, err>>
        BY <1>2, ZenonT(30) DEF ReadCopy
    <2>4. QED
        BY <2>2, <2>3, OtherEnds, ZenonT(30)
<1>3. ASSUME NEW s \in Streams, ReadAccount(s)
      PROVE  Ends'
    <2>1. \E n, k : rcv' = [rcv EXCEPT ![s].copied = None, ![s].read = n, ![s].finRead = rcv[s].last,
                                       ![s].completed = k]
        BY <1>1, <1>3, ZenonT(60) DEF ReadAccount
    <2>2. \A t \in Streams : rcv'[t].final = rcv[t].final /\ rcv'[t].highest = rcv[t].highest
        BY <1>1, <2>1, SMTT(30), Z3T(30) DEF ReceiveStreams
    <2>3. UNCHANGED <<snd, net, err>>
        BY <1>3, ZenonT(30) DEF ReadAccount
    <2>4. QED
        BY <2>2, <2>3, OtherEnds, ZenonT(30)
<1>4. ASSUME NEW s \in Streams, CancelRead(s)
      PROVE  Ends'
    <2>1. rcv' = [rcv EXCEPT ![s].canceled = TRUE]
        BY <1>4, ZenonT(30) DEF CancelRead
    <2>2. \A t \in Streams : rcv'[t].final = rcv[t].final /\ rcv'[t].highest = rcv[t].highest
        BY <1>1, <2>1, SMTT(30), Z3T(30) DEF ReceiveStreams
    <2>3. UNCHANGED <<snd, err>> /\ net' = net \cup {Frame("stop_sending", s, None, None, FALSE)}
        BY <1>4, ZenonT(30) DEF CancelRead
    <2>4. \A f \in net' : f \in net \/ f.kind = "stop_sending"
        BY <2>3, SMTT(30), Z3T(30) DEF Frame
    <2>5. QED
        BY <2>2, <2>3, <2>4, OtherEnds, ZenonT(30)
<1>5. ASSUME NEW s \in Streams, QueueStream(s)
      PROVE  Ends'
    <2>1. PICK n, k, w : /\ rcv' = [rcv EXCEPT ![s].size = n, ![s].window = k]
                         /\ net' = net \cup {Frame("max_stream_data", s, None, w, FALSE)}
        BY <1>5, ZenonT(30) DEF QueueStream
    <2>2. \A t \in Streams : rcv'[t].final = rcv[t].final /\ rcv'[t].highest = rcv[t].highest
        BY <1>1, <2>1 DEF ReceiveStreams
    <2>3. UNCHANGED <<snd, err>>
        BY <1>5, ZenonT(30) DEF QueueStream
    <2>4. \A f \in net' : f \in net \/ f.kind = "max_stream_data"
        BY <2>1, SMTT(30), Z3T(30) DEF Frame
    <2>5. QED
        BY <2>1, <2>2, <2>3, <2>4, OtherEnds, ZenonT(30)
<1>6. ASSUME QueueConn
      PROVE  Ends'
    <2>1. UNCHANGED <<snd, rcv, err>>
        BY <1>6, Zenon DEF QueueConn
    <2>2. PICK w : net' = net \cup {Frame("max_data", None, None, w, FALSE)}
        BY <1>6, ZenonT(60) DEF QueueConn
    <2>3. \A f \in net' : f \in net \/ f.kind = "max_data"
        BY <2>2, SMTT(30), Z3T(30) DEF Frame
    <2>4. QED
        BY <2>1, <2>2, <2>3, OtherEnds, ZenonT(30)
<1>7. ASSUME NEW f \in net, SenderReceives(f)
      PROVE  Ends'
    <2>1. CASE f.kind = "stop_sending"
        BY <1>7, <2>1, StopSendingEnds, ZenonT(30) DEF SenderReceives
    <2>2. CASE f.kind = "max_data"
        <3>1. UNCHANGED <<snd, rcv, net, err>>
            BY <1>7, <2>2, ZenonT(30) DEF SenderReceives, HandleMaxDataFrame
        <3>2. QED
            BY <3>1, OtherEnds, ZenonT(30)
    <2>3. CASE f.kind = "max_stream_data"
        <3>1. UNCHANGED <<rcv, net, err>> /\ HandleMaxStreamDataFrame(f)
            BY <1>7, <2>3, ZenonT(30) DEF SenderReceives, HandleMaxStreamDataFrame
        <3>2. f.id \in Streams
            BY <2>3, ZenonT(30) DEF StreamInv, Frames, FrameOK
        <3>3. \A t \in Streams : /\ snd'[t].finSent = snd[t].finSent /\ snd'[t].canceled = snd[t].canceled
                                 /\ snd'[t].sent = snd[t].sent
            BY <1>1, <3>1, <3>2, SMTT(30), Z3T(30) DEF HandleMaxStreamDataFrame, SendStreams
        <3>4. QED
            BY <3>1, <3>3, OtherEnds, ZenonT(30)
    <2>4. QED
        BY <1>7, <2>1, <2>2, <2>3, ZenonT(30) DEF SenderReceives
<1>8. CASE UNCHANGED vars
    BY <1>8, OtherEnds, ZenonT(30) DEF vars
<1>9. QED
    BY <1>2, <1>3, <1>4, <1>5, <1>6, <1>7, <1>8, WriteEnds, CancelWriteEnds, PopStreamFrameEnds,
       ReceiverEnds, ZenonT(30) DEF Next

\* What was sent stays sent.
LEMMA Grows ==
    ASSUME StreamInv, [Next]_vars
    PROVE  /\ net \subseteq net'
           /\ \A s \in Streams : snd[s].sent <= snd'[s].sent
<1>1. snd \in [Streams -> SendStreams]
    BY Zenon DEF StreamInv, Types
<1>2. \A s \in Streams : snd[s].sent \in Nat /\ snd[s].sent <= snd[s].sent
    BY <1>1, SMTT(30), Z3T(30) DEF SendStreams
<1>3. ASSUME NEW s \in Streams, Write(s) \/ Close(s) \/ CancelWrite(s) \/ CancelWriteCompletes(s)
      PROVE  net \subseteq net' /\ \A t \in Streams : snd'[t].sent = snd[t].sent
    <2>1. CASE Write(s)
        <3>1. PICK n : snd' = [snd EXCEPT ![s].data = n, ![s].active = TRUE]
            BY <2>1, Zenon DEF Write
        <3>2. net' = net
            BY <2>1, Zenon DEF Write
        <3>3. QED
            BY <1>1, <3>1, <3>2, SMTT(30), Z3T(30) DEF SendStreams
    <2>2. CASE Close(s)
        <3>1. snd' = [snd EXCEPT ![s].finished = TRUE, ![s].active = TRUE] /\ net' = net
            BY <2>2, Zenon DEF Close
        <3>2. QED
            BY <1>1, <3>1, SMTT(30), Z3T(30) DEF SendStreams
    <2>3. CASE CancelWrite(s)
        <3>1. snd' = [snd EXCEPT ![s].canceled = TRUE, ![s].canceling = TRUE] /\ net \subseteq net'
            BY <2>3, ZenonT(30) DEF CancelWrite, CancelWriteImpl
        <3>2. QED
            BY <1>1, <3>1, SMTT(30), Z3T(30) DEF SendStreams
    <2>4. CASE CancelWriteCompletes(s)
        <3>1. snd' = [snd EXCEPT ![s].canceling = FALSE, ![s].completed = @ + 1] /\ net' = net
            BY <2>4, Zenon DEF CancelWriteCompletes
        <3>2. QED
            BY <1>1, <3>1, SMTT(30), Z3T(30) DEF SendStreams
    <2>5. QED
        BY <1>3, <2>1, <2>2, <2>3, <2>4, Zenon
<1>4. ASSUME NEW s \in Streams, PopStreamFrame(s)
      PROVE  net \subseteq net' /\ \A t \in Streams : snd[t].sent <= snd'[t].sent
    <2> DEFINE c == snd[s]
    <2>1. CASE SndDeleted(s)
        <3>1. snd' = [snd EXCEPT ![s].active = FALSE] /\ net' = net
            BY <1>4, <2>1, ZenonT(30) DEF PopStreamFrame
        <3>2. \A t \in Streams : snd'[t].sent = snd[t].sent
            BY <1>1, <3>1, SMTT(30), Z3T(30) DEF SendStreams
        <3>3. QED
            BY <1>2, <3>1, <3>2, Zenon
    <2>2. CASE ~SndDeleted(s) /\ c.data > 0 /\ Window(s) = 0
        <3>1. snd' = [snd EXCEPT ![s].lastBlockedAt = c.sendWindow, ![s].active = FALSE] /\ net' = net
            BY <1>4, <2>2, ZenonT(30) DEF PopStreamFrame
        <3>2. \A t \in Streams : snd'[t].sent = snd[t].sent
            BY <1>1, <3>1, SMTT(30), Z3T(30) DEF SendStreams
        <3>3. QED
            BY <1>2, <3>1, <3>2, Zenon
    <2>3. CASE ~SndDeleted(s) /\ ~(c.data > 0 /\ Window(s) = 0)
        <3>1. PICK n \in IF c.data = 0 THEN {0} ELSE 1..Min({c.data, Window(s)}) :
                  /\ snd' = [snd EXCEPT ![s].data = @ - n, ![s].sent = @ + n,
                                        ![s].finSent = @ \/ IsFin(c, n),
                                        ![s].completed = IF IsFin(c, n) THEN @ + 1 ELSE @,
                                        ![s].active = n < c.data]
                  /\ net \subseteq net'
            BY <1>4, <2>3, ZenonT(60) DEF PopStreamFrame
        <3>2. c.data \in Nat /\ c.sent \in Nat /\ (c.data = 0 \/ Window(s) # 0)
            BY <1>1, <2>3, SMTT(30), Z3T(30) DEF SendStreams
        <3>3. n \in Nat
            BY <3>2, Popped, ZenonT(30)
        <3>4. (\A t \in Streams : t # s => snd'[t] = snd[t]) /\ snd'[s].sent = c.sent + n
            BY <1>1, <3>1, ZenonT(120) DEF SendStreams
        <3>5. c.sent <= c.sent + n
            BY <3>2, <3>3, SMTT(30), Z3T(30)
        <3>6. QED
            BY <1>2, <3>1, <3>4, <3>5, ZenonT(30)
    <2>4. QED
        BY <2>1, <2>2, <2>3, Zenon
<1>5. ASSUME NEW s \in Streams, ReadCopy(s) \/ ReadAccount(s) \/ CancelRead(s) \/ QueueStream(s)
      PROVE  net \subseteq net' /\ snd' = snd
    BY <1>5, ZenonT(60) DEF ReadCopy, ReadAccount, CancelRead, QueueStream
<1>6. ASSUME QueueConn
      PROVE  net \subseteq net' /\ snd' = snd
    BY <1>6, ZenonT(60) DEF QueueConn
<1>7. ASSUME NEW f \in net, SenderReceives(f)
      PROVE  net \subseteq net' /\ \A t \in Streams : snd'[t].sent = snd[t].sent
    <2>1. CASE f.kind = "max_data"
        BY <1>7, <2>1, ZenonT(30) DEF SenderReceives, HandleMaxDataFrame
    <2>2. CASE f.kind = "max_stream_data"
        <3>1. UNCHANGED net /\ HandleMaxStreamDataFrame(f)
            BY <1>7, <2>2, ZenonT(30) DEF SenderReceives, HandleMaxStreamDataFrame
        <3>2. f.id \in Streams
            BY <2>2, ZenonT(30) DEF StreamInv, Frames, FrameOK
        <3>3. QED
            BY <1>1, <3>1, <3>2, SMTT(30), Z3T(30) DEF HandleMaxStreamDataFrame, SendStreams
    <2>3. CASE f.kind = "stop_sending"
        <3>1. /\ snd' = [snd EXCEPT ![f.id].canceled = TRUE, ![f.id].completed = @ + 1]
              /\ net \subseteq net'
            BY <1>7, <2>3, ZenonT(60) DEF SenderReceives, HandleStopSendingFrame
        <3>2. f.id \in Streams
            BY <2>3, ZenonT(30) DEF StreamInv, Frames, FrameOK
        <3>3. QED
            BY <1>1, <3>1, <3>2, ZenonT(60) DEF SendStreams
    <2>4. QED
        BY <1>7, <2>1, <2>2, <2>3, ZenonT(30) DEF SenderReceives
<1>8. ASSUME NEW f \in net, ReceiverReceives(f)
      PROVE  UNCHANGED <<snd, net>>
    BY <1>8, Zenon DEF ReceiverReceives
<1>9. CASE UNCHANGED vars
    BY <1>2, <1>9, ZenonT(30) DEF vars
<1>10. QED
    BY <1>2, <1>3, <1>4, <1>5, <1>6, <1>7, <1>8, <1>9, ZenonT(60) DEF Next

LEMMA SentAfterResetKept ==
    ASSUME StreamInv, SentAfterReset, [Next]_vars
    PROVE  SentAfterReset'
<1>1. PICK f \in net : f.kind = "reset" /\ f.to < snd[f.id].sent
    BY Zenon DEF SentAfterReset
<1>2. f.id \in Streams /\ f.to \in Nat
    BY <1>1, ZenonT(30) DEF StreamInv, Frames, FrameOK
<1>3. f \in net' /\ snd[f.id].sent <= snd'[f.id].sent
    BY <1>2, Grows, ZenonT(30)
<1>4. snd[f.id].sent \in Nat /\ snd'[f.id].sent \in Nat
    <2>1. StreamInv'
        BY StreamInvKept, Zenon
    <2>2. snd[f.id] \in SendStreams /\ snd'[f.id] \in SendStreams
        BY <1>2, <2>1, ZenonT(30) DEF StreamInv, Types
    <2>3. QED
        BY <2>2, ZenonT(30) DEF SendStreams
<1>5. f.to < snd'[f.id].sent
    BY <1>1, <1>2, <1>3, <1>4, SMTT(30), Z3T(30)
<1>6. QED
    BY <1>1, <1>3, <1>5, ZenonT(30) DEF SentAfterReset

\* Only a frame that arrives can be refused, and none for a limit.
LEMMA ErrorKept ==
    ASSUME StreamInv, EndInv, [Next]_vars
    PROVE  err' \in {"none", "data after termination"}
<1>1. err \in {"none", "data after termination"}
    BY Zenon DEF EndInv
<1>2. ASSUME NEW f \in net, ReceiverReceives(f)
      PROVE  err' \in {"none", "data after termination"}
    <2>1. f.kind \in {"stream", "reset"}
        BY <1>2, Zenon DEF ReceiverReceives
    <2>2. f.kind = "stream" => f.fin \in BOOLEAN
        BY Zenon DEF StreamInv, Frames, FrameOK
    <2>3. \/ UNCHANGED err
          \/ f.kind = "stream" /\ err' = HighestReceivedError(rcv[f.id], f.to, f.fin)
          \/ err' = HighestReceivedError(rcv[f.id], f.to, TRUE)
        BY <1>2, ZenonT(30) DEF ReceiverReceives, HandleStreamFrame, HandleResetStreamFrame
    <2>4. QED
        BY <1>1, <2>1, <2>2, <2>3, NotTooMuch, ZenonT(30)
<1>3. ASSUME NEW s \in Streams,
             \/ Write(s) \/ Close(s) \/ PopStreamFrame(s) \/ CancelWrite(s) \/ CancelWriteCompletes(s)
             \/ ReadCopy(s) \/ ReadAccount(s) \/ CancelRead(s) \/ QueueStream(s)
      PROVE  err' = err
    BY <1>3, ZenonT(60) DEF Write, Close, PopStreamFrame, CancelWrite, CancelWriteCompletes, ReadCopy,
       ReadAccount, CancelRead, QueueStream
<1>4. ASSUME QueueConn \/ UNCHANGED vars \/ \E f \in net : SenderReceives(f)
      PROVE  err' = err
    BY <1>4, ZenonT(30) DEF QueueConn, vars, SenderReceives
<1>5. QED
    BY <1>1, <1>2, <1>3, <1>4, ZenonT(60) DEF Next

\* Between two endpoints that run this code no frame exceeds a flow control limit,
\* and none is refused for its offset unless the sender sent data after RESET_STREAM
\* (UpdateHighestReceived, IncrementHighestReceived): whatever is cancelled when.
THEOREM NoErrorAtPeer == Spec => []NoPeerError
<1>1. Init => EndInv
    <2> SUFFICES ASSUME Init PROVE EndInv
        BY ZenonT(30)
    <2>1. err = "none" /\ net = {}
        BY Zenon DEF Init
    <2>2. ASSUME NEW s \in Streams
          PROVE  ~Ended(snd[s]) /\ ~snd[s].canceled /\ ~rcv[s].final
        BY ZenonT(30) DEF Init, Ended
    <2>3. QED
        BY <2>1, <2>2, Zenon DEF EndInv, Ends
<1>2. StreamInv /\ EndInv /\ [Next]_vars => EndInv'
    BY EndsKept, SentAfterResetKept, ErrorKept, ZenonT(30) DEF EndInv
<1>3. EndInv => NoPeerError
    BY Zenon DEF EndInv, Ends, NoPeerError
<1>4. QED
    BY <1>1, <1>2, <1>3, StreamInitially, StreamInvKept, PTL DEF Spec

=============================================================================
