----------------------------- MODULE SendStream ------------------------------
(***************************************************************************)
(* The goroutines around one sendStream: the application calls Write and   *)
(* Close in one and SetWriteDeadline in another, and the session's run     *)
(* loop composes packets in framerI.AppendStreamFrames.  They share the    *)
(* stream's mutex, the framer's mutex, the channel writeChan and the       *)
(* deadline timer.                                                         *)
(*                                                                         *)
(* A step is what a goroutine does between two operations that can block.  *)
(* Flow control is left out (module Stream), and time is: a deadline that  *)
(* is set passes at any moment, and its timer fires then or later.         *)
(***************************************************************************)
EXTENDS Integers

CONSTANTS
    MaxLen,     \* bound: the bytes of one Write
    MaxCalls,   \* bound: the calls of Write
    Deadlines,  \* whether the application sets write deadlines
    MaxCloses   \* how often the application calls Close

ASSUME SendStreamAssumption ==
    /\ MaxLen \in Nat \ {0} /\ MaxCalls \in Nat \ {0}
    /\ Deadlines \in BOOLEAN /\ MaxCloses \in Nat

VARIABLES
    app,       \* where the goroutine is that calls Write and Close
    setter,    \* where the one is that calls SetWriteDeadline
    run,       \* where the run loop is
    mutex,     \* sendStream.mutex: the goroutine that holds it, or "free"
    framer,    \* framerI.mutex, likewise
    active,    \* whether the stream is in framerI.activeStreams and streamQueue
    data,      \* len(dataForWriting), 0 for nil
    finished,  \* finishedWriting
    finSent,
    writeChan, \* whether the channel holds a signal
    deadline,  \* "zero", "future" or "past"
    timer,     \* "nil", "running", "fired" (C holds a value) or "drained"
    calls,     \* how many Writes were called
    closes     \* how often Close was called

sendVars == <<app, setter, run, mutex, framer, active, data, finished, finSent, writeChan,
              deadline, timer, calls, closes>>

-----------------------------------------------------------------------------
(* Write *)

\* Write is called, waits for the mutex, and passes its checks.
WriteLock ==
    /\ app = "idle" /\ calls < MaxCalls
    /\ mutex = "free"
    /\ calls' = calls + 1
    /\ IF finished \/ deadline = "past"
       THEN UNCHANGED <<app, mutex, data>>
       ELSE /\ mutex' = "app" /\ app' = "add"
            /\ \E n \in 1..MaxLen : data' = n
    /\ UNCHANGED <<setter, run, framer, active, finished, finSent, writeChan, deadline,
                   timer, closes>>

\* onHasStreamData in Write and in Close: AddActiveStream takes the framer's
\* mutex while the stream's is held.
AddActiveStream ==
    /\ app \in {"add", "close"}
    /\ framer = "free"
    /\ active' = TRUE
    /\ IF app = "add" THEN app' = "loop" /\ UNCHANGED mutex
                      ELSE app' = "idle" /\ mutex' = "free"
    /\ UNCHANGED <<setter, run, framer, data, finished, finSent, writeChan, deadline,
                   timer, calls, closes>>

\* One turn of the loop in Write: it returns, or unlocks ...
WriteLoop ==
    /\ app = "loop"
    /\ mutex' = "free"
    /\ IF deadline = "past" THEN data' = 0 /\ app' = "idle"
       ELSE app' = (IF data = 0 THEN "idle" ELSE "unlocked") /\ UNCHANGED data
    /\ UNCHANGED <<setter, run, framer, active, finished, finSent, writeChan, deadline,
                   timer, calls, closes>>

\* ... and reads the deadline, without the mutex, to find out what to wait for.
\* SetWriteDeadline may have set the deadline and not yet the timer.
WriteSelect ==
    /\ app = "unlocked"
    /\ \/ deadline = "zero" /\ app' = "chan"
       \/ deadline # "zero" /\ timer # "nil" /\ app' = "select"
       \/ deadline # "zero" /\ timer = "nil" /\ app' = "panicked"
    /\ UNCHANGED <<setter, run, mutex, framer, active, data, finished, finSent, writeChan, deadline, timer,
                   calls, closes>>

\* Write receives from writeChan or from the timer's channel.
WriteWake ==
    /\ app \in {"chan", "select"}
    /\ \/ writeChan /\ writeChan' = FALSE /\ UNCHANGED timer
       \/ app = "select" /\ timer = "fired" /\ timer' = "drained" /\ UNCHANGED writeChan
    /\ app' = "relock"
    /\ UNCHANGED <<setter, run, mutex, framer, active, data, finished, finSent,
                   deadline, calls, closes>>

WriteRelock ==
    /\ app = "relock" /\ mutex = "free"
    /\ mutex' = "app" /\ app' = "loop"
    /\ UNCHANGED <<setter, run, framer, active, data, finished, finSent, writeChan,
                   deadline, timer, calls, closes>>

-----------------------------------------------------------------------------
(* Close, called when Write has returned, and SetWriteDeadline, called at any time. *)

Close ==
    /\ app = "idle" /\ closes < MaxCloses
    /\ mutex = "free"
    /\ mutex' = "app" /\ app' = "close"
    /\ finished' = TRUE
    /\ closes' = closes + 1
    /\ UNCHANGED <<setter, run, framer, active, data, finSent, writeChan, deadline,
                   timer, calls>>

\* SetWriteDeadline sets the deadline ...
SetWriteDeadline ==
    /\ setter = "idle" /\ Deadlines
    /\ mutex = "free"
    /\ deadline' \in {"zero", "future"}
    /\ IF deadline' = "zero"
       THEN writeChan' = TRUE /\ UNCHANGED <<setter, mutex>>
       ELSE setter' = "set" /\ mutex' = "setter" /\ UNCHANGED writeChan
    /\ UNCHANGED <<app, run, framer, active, data, finished, finSent, timer, calls,
                   closes>>

\* ... creates or stops the timer ...
StopTimer ==
    /\ setter = "set"
    /\ IF timer \in {"nil", "running"}
       THEN timer' = "running" /\ setter' = "idle" /\ mutex' = "free"
       ELSE setter' = "drain" /\ UNCHANGED <<mutex, timer>>
    /\ UNCHANGED <<app, run, framer, active, data, finished, finSent, writeChan,
                   deadline, calls, closes>>

\* ... and receives from its channel if Stop returned FALSE, as it does when the
\* timer has fired.
DrainTimer ==
    /\ setter = "drain" /\ timer = "fired"
    /\ timer' = "running"
    /\ setter' = "idle" /\ mutex' = "free"
    /\ UNCHANGED <<app, run, framer, active, data, finished, finSent, writeChan,
                   deadline, calls, closes>>

\* Time passes: the deadline is reached, and the runtime fires the timer.
DeadlinePasses ==
    /\ deadline = "future"
    /\ deadline' = "past"
    /\ UNCHANGED <<app, setter, run, mutex, framer, active, data, finished, finSent,
                   writeChan, timer, calls, closes>>

\* A timer that is not stopped yet is that of an earlier deadline.
TimerFires ==
    /\ timer = "running" /\ (deadline # "future" \/ setter = "set")
    /\ timer' = "fired"
    /\ UNCHANGED <<app, setter, run, mutex, framer, active, data, finished, finSent,
                   writeChan, deadline, calls, closes>>

-----------------------------------------------------------------------------
(* The run loop. *)

\* AppendStreamFrames locks the framer's mutex, and calls popStreamFrame if the
\* stream is in the queue.
AppendStreamFrames ==
    /\ run = "idle"
    /\ framer = "free"
    /\ active
    /\ framer' = "run" /\ run' = "pop"
    /\ UNCHANGED <<app, setter, mutex, active, data, finished, finSent, writeChan,
                   deadline, timer, calls, closes>>

\* The length of the frame: all that is left to send, or what fits.
Lengths == IF data = 0 THEN {0} ELSE 1..data

\* Mutant of SignalWrite: only for streams that are closed.
SignalWriteFinished(n) == finished /\ data > 0 /\ n = data

\* Whether signalWrite is called after n bytes: all data was taken.
SignalWrite(n) == data > 0 /\ n = data

\* popStreamFrame waits for the stream's mutex, and AppendStreamFrames goes on.
PopStreamFrame ==
    /\ run = "pop"
    /\ mutex = "free"
    /\ \E n \in Lengths :
          /\ data' = data - n
          /\ writeChan' = (writeChan \/ SignalWrite(n))
          /\ active' = (n < data)
          /\ finSent' = (finSent \/ (finished /\ n = data))
    /\ run' = "unlock"
    /\ UNCHANGED <<app, setter, mutex, framer, finished, deadline, timer, calls,
                   closes>>

\* Mutant of UnlockFramer: the mutex stays locked.
UnlockFramerForgotten ==
    /\ run = "unlock"
    /\ run' = "idle"
    /\ UNCHANGED <<setter, framer, app, mutex, active, data, finished, finSent,
                   writeChan, deadline, timer, calls, closes>>

UnlockFramer ==
    /\ run = "unlock"
    /\ framer' = "free" /\ run' = "idle"
    /\ UNCHANGED <<app, setter, mutex, active, data, finished, finSent, writeChan,
                   deadline, timer, calls, closes>>

-----------------------------------------------------------------------------
SendInit ==
    /\ app = "idle" /\ setter = "idle" /\ run = "idle" /\ mutex = "free" /\ framer = "free"
    /\ active = FALSE /\ data = 0 /\ finished = FALSE /\ finSent = FALSE
    /\ writeChan = FALSE /\ deadline = "zero" /\ timer = "nil"
    /\ calls = 0 /\ closes = 0

AppWaits == WriteLoop \/ WriteSelect \/ WriteWake \/ WriteRelock \/ AddActiveStream
SetterWaits == StopTimer \/ DrainTimer
RunLoop == AppendStreamFrames \/ PopStreamFrame \/ UnlockFramer
Clock == DeadlinePasses \/ TimerFires

SendNext == WriteLock \/ Close \/ SetWriteDeadline \/ AppWaits \/ SetterWaits \/ RunLoop \/ Clock

SendSpec == SendInit /\ [][SendNext]_sendVars

\* Goroutines run, time passes, and a mutex is given to the goroutine that has
\* waited longest (sync.Mutex is fair after a millisecond).
SendFairness ==
    /\ SF_sendVars(AppWaits) /\ SF_sendVars(RunLoop) /\ WF_sendVars(SetterWaits)
    /\ WF_sendVars(DeadlinePasses) /\ WF_sendVars(TimerFires)

SendFairSpec == SendSpec /\ SendFairness

-----------------------------------------------------------------------------
\* Type invariant.
SendTypeOK ==
    /\ app \in {"idle", "add", "loop", "unlocked", "chan", "select", "relock", "close", "panicked"}
    /\ setter \in {"idle", "set", "drain"}
    /\ run \in {"idle", "pop", "unlock"}
    /\ mutex \in {"free", "app", "setter"} /\ framer \in {"free", "run"}
    /\ data \in 0..MaxLen
    /\ {active, finished, finSent, writeChan} \subseteq BOOLEAN
    /\ deadline \in {"zero", "future", "past"}
    /\ timer \in {"nil", "running", "fired", "drained"}

\* Neither a writer nor a FIN is forgotten: when a Write waits, its data is still
\* to be sent and the framer knows of the stream, or the signal is in the channel;
\* and the framer knows of a stream whose FIN is still to be sent.
NothingForgotten ==
    /\ app \in {"unlocked", "chan", "select"} => writeChan \/ (data > 0 /\ active)
    /\ finished /\ ~finSent /\ app # "close" => active

\* The application, with the stream's mutex, never waits for the framer's while the
\* run loop, with the framer's, waits for the stream's.
NoDeadlock == ~(app \in {"add", "close"} /\ run = "pop")

\* Without write deadlines (whose timer stays once it is created) neither Write
\* and Close nor the run loop wait forever for each other, however often a deadline
\* is cleared.
EverybodyReturns ==
    /\ app # "idle" ~> app = "idle" \/ timer # "nil"
    /\ run # "idle" ~> run = "idle" \/ timer # "nil"

\* "SetWriteDeadline sets the deadline for future Write calls": it returns.
SetWriteDeadlineReturns == setter = "drain" ~> setter = "idle"

====
