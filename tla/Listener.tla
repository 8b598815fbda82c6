------------------------------ MODULE Listener ------------------------------
(***************************************************************************)
(* The server's listener: the goroutines of handleInitial that create      *)
(* sessions, the sessions' run loops, the queue of sessions to accept, the *)
(* packetHandlerMap with its timers, Accept and Close.                     *)
(*                                                                         *)
(* A session is named by the connection ID the server chose for it.  What  *)
(* it does between the end of its handshake and its close belongs to other *)
(* modules.                                                                *)
(***************************************************************************)
EXTENDS Integers, Sequences, FiniteSets

CONSTANTS
    Sessions,   \* the sessions that may be created
    Acceptors,  \* goroutines that call Accept in a loop
    Closers,    \* goroutines that call Close
    QueueCap,   \* capacity of sessionQueue
    CreatedPacketConn \* whether the server was started with ListenAddr

ASSUME ListenerAssumption == QueueCap \in Nat \ {0} /\ CreatedPacketConn \in BOOLEAN

VARIABLES
    initial,   \* goroutine of handleInitial: "none", "started", "created", "added"
    sess,      \* run loop: "none", "handshaking", "queueing", "open", "stopped"
    closing,   \* sessions with a close error in closeChan, or past it
    handlers,  \* the packetHandlerMap: "absent", "session" or "nil"
    timers,    \* sessions whose deletion is pending in time.AfterFunc
    hasServer, \* packetHandlerMap.server # nil
    queue,     \* sessionQueue
    acceptor,  \* "calling" Accept, or "returned" with an error
    closer,    \* Close: "idle", "calling", "waiting" (wg.Wait) or "returned"
    toClose,   \* sessions that CloseServer's goroutines are closing
    closed,    \* server.closed, and errorChan is closed
    panicked   \* listenConn panicked

listenerVars == <<initial, sess, closing, handlers, timers, hasServer, queue, acceptor,
                  closer, toClose, closed, panicked>>

Running(i) == sess[i] \in {"handshaking", "queueing", "open"}

-----------------------------------------------------------------------------
(* Creating sessions *)

\* packetHandlerMap.handlePacket: an Initial for an unknown connection ID makes
\* the server start a goroutine.
HandlePacket(i) ==
    /\ hasServer /\ initial[i] = "none"
    /\ initial' = [initial EXCEPT ![i] = "started"]
    /\ UNCHANGED <<sess, closing, handlers, timers, hasServer, queue, acceptor, closer,
                   toClose, closed, panicked>>

\* handleInitialImpl: the session is created and its run loop started.
CreateNewSession(i) ==
    /\ initial[i] = "started"
    /\ initial' = [initial EXCEPT ![i] = "created"]
    /\ sess' = [sess EXCEPT ![i] = "handshaking"]
    /\ UNCHANGED <<closing, handlers, timers, hasServer, queue, acceptor, closer, toClose,
                   closed, panicked>>

\* The end of handleInitial.
Add(i) ==
    /\ initial[i] = "created"
    /\ initial' = [initial EXCEPT ![i] = "added"]
    /\ handlers' = [handlers EXCEPT ![i] = "session"]
    /\ UNCHANGED <<sess, closing, timers, hasServer, queue, acceptor, closer, toClose,
                   closed, panicked>>

-----------------------------------------------------------------------------
(* The run loop of a session *)

\* handleHandshakeComplete calls onHandshakeComplete.
HandleHandshakeComplete(i) ==
    /\ sess[i] = "handshaking"
    /\ sess' = [sess EXCEPT ![i] = "queueing"]
    /\ UNCHANGED <<initial, closing, handlers, timers, hasServer, queue, acceptor, closer,
                   toClose, closed, panicked>>

\* s.sessionQueue <- sess
OnHandshakeComplete(i) ==
    /\ sess[i] = "queueing" /\ Len(queue) < QueueCap
    /\ queue' = Append(queue, i)
    /\ sess' = [sess EXCEPT ![i] = "open"]
    /\ UNCHANGED <<initial, closing, handlers, timers, hasServer, acceptor, closer, toClose,
                   closed, panicked>>

\* The application, the peer or a timeout closes the session.
CloseSession(i) ==
    /\ Running(i) /\ i \notin closing
    /\ closing' = closing \cup {i}
    /\ UNCHANGED <<initial, sess, handlers, timers, hasServer, queue, acceptor, closer,
                   toClose, closed, panicked>>

\* packetHandlerMap.Remove
Remove(i) ==
    /\ handlers' = [handlers EXCEPT ![i] = "nil"]
    /\ timers' = timers \cup {i}

\* The run loop takes the close error, at its select statement only.
StopLoop(i) ==
    /\ sess[i] \in {"handshaking", "open"} /\ i \in closing
    /\ sess' = [sess EXCEPT ![i] = "stopped"]
    /\ Remove(i)
    /\ UNCHANGED <<initial, closing, hasServer, queue, acceptor, closer, toClose, closed,
                   panicked>>

\* Mutant of DeleteHandler: only an entry that is nil is deleted.
DeleteOnlyNil(i) ==
    /\ i \in timers /\ initial[i] = "added"
    /\ timers' = timers \ {i}
    /\ handlers' = IF handlers[i] = "nil" THEN [handlers EXCEPT ![i] = "absent"] ELSE handlers
    /\ UNCHANGED <<initial, sess, closing, hasServer, queue, acceptor, closer, toClose,
                   closed, panicked>>

\* The function of time.AfterFunc; a goroutine of handleInitial does not take
\* as long as ClosedSessionDeleteTimeout.
DeleteHandler(i) ==
    /\ i \in timers /\ initial[i] = "added"
    /\ timers' = timers \ {i}
    /\ handlers' = [handlers EXCEPT ![i] = "absent"]
    /\ UNCHANGED <<initial, sess, closing, hasServer, queue, acceptor, closer, toClose,
                   closed, panicked>>

-----------------------------------------------------------------------------
(* Accept and Close *)

\* Mutant of Accept: it waits for the server's mutex.
AcceptWithMutex(a) ==
    /\ acceptor[a] = "calling" /\ queue # <<>> /\ \A k \in Closers : closer[k] # "waiting"
    /\ queue' = Tail(queue)
    /\ UNCHANGED <<initial, sess, closing, handlers, timers, hasServer, acceptor, closer,
                   toClose, closed, panicked>>

\* case sess = <-s.sessionQueue; the application calls Accept again.
Accept(a) ==
    /\ acceptor[a] = "calling" /\ queue # <<>>
    /\ queue' = Tail(queue)
    /\ UNCHANGED <<initial, sess, closing, handlers, timers, hasServer, acceptor, closer,
                   toClose, closed, panicked>>

\* case <-s.errorChan
AcceptFails(a) ==
    /\ acceptor[a] = "calling" /\ closed
    /\ acceptor' = [acceptor EXCEPT ![a] = "returned"]
    /\ UNCHANGED <<initial, sess, closing, handlers, timers, hasServer, queue, closer,
                   toClose, closed, panicked>>

CallClose(k) ==
    /\ closer[k] = "idle"
    /\ closer' = [closer EXCEPT ![k] = "calling"]
    /\ UNCHANGED <<initial, sess, closing, handlers, timers, hasServer, queue, acceptor,
                   toClose, closed, panicked>>

\* Close, with the mutex: CloseServer starts a goroutine for each session.
CloseServer(k) ==
    LET found == {i \in Sessions : handlers[i] = "session"}
    IN  /\ closer[k] = "calling" /\ ~closed /\ \A j \in Closers : closer[j] # "waiting"
        /\ closer' = [closer EXCEPT ![k] = "waiting"]
        /\ hasServer' = FALSE
        /\ toClose' = found /\ closing' = closing \cup found
        /\ UNCHANGED <<initial, sess, handlers, timers, queue, acceptor, closed, panicked>>

\* Mutant of SessionClosed: the connection ID is removed before the session has
\* stopped.
SessionRemoved(i) ==
    /\ i \in toClose
    /\ toClose' = toClose \ {i}
    /\ Remove(i)
    /\ UNCHANGED <<initial, sess, closing, hasServer, queue, acceptor, closer, closed,
                   panicked>>

\* "session.Close() blocks until the CONNECTION_CLOSE has been sent and the
\* run-loop has stopped"
SessionClosed(i) ==
    /\ i \in toClose /\ sess[i] = "stopped"
    /\ toClose' = toClose \ {i}
    /\ Remove(i)
    /\ UNCHANGED <<initial, sess, closing, hasServer, queue, acceptor, closer, closed,
                   panicked>>

\* The rest of closeWithMutex.  The listenConn goroutine that reads from the
\* closed packet conn gets an error.
CloseReturns(k) ==
    /\ closer[k] = "waiting" /\ toClose = {}
    /\ closer' = [closer EXCEPT ![k] = "returned"]
    /\ closed' = TRUE
    /\ panicked' = CreatedPacketConn
    /\ UNCHANGED <<initial, sess, closing, handlers, timers, hasServer, queue, acceptor,
                   toClose>>

\* Close of a server that is closed.
CloseAgain(k) ==
    /\ closer[k] = "calling" /\ closed
    /\ closer' = [closer EXCEPT ![k] = "returned"]
    /\ UNCHANGED <<initial, sess, closing, handlers, timers, hasServer, queue, acceptor,
                   toClose, closed, panicked>>

-----------------------------------------------------------------------------
ListenerInit ==
    /\ initial = [i \in Sessions |-> "none"] /\ sess = [i \in Sessions |-> "none"]
    /\ handlers = [i \in Sessions |-> "absent"]
    /\ closing = {} /\ timers = {} /\ toClose = {} /\ queue = <<>>
    /\ acceptor = [a \in Acceptors |-> "calling"] /\ closer = [k \in Closers |-> "idle"]
    /\ hasServer = TRUE /\ closed = FALSE /\ panicked = FALSE

GoroutineStep(i) == CreateNewSession(i) \/ Add(i) \/ SessionClosed(i) \/ DeleteHandler(i)

CloserStep(k) == CloseServer(k) \/ CloseReturns(k) \/ CloseAgain(k)

ListenerNext ==
    \/ \E i \in Sessions : \/ HandlePacket(i) \/ GoroutineStep(i) \/ HandleHandshakeComplete(i)
                           \/ OnHandshakeComplete(i) \/ CloseSession(i) \/ StopLoop(i)
    \/ \E a \in Acceptors : Accept(a) \/ AcceptFails(a)
    \/ \E k \in Closers : CallClose(k) \/ CloserStep(k)

ListenerSpec == ListenerInit /\ [][ListenerNext]_listenerVars

\* Goroutines keep running.  Of the goroutines that wait to send to the queue
\* or to receive from it, one proceeds if it can.  Nobody has to close, and no
\* handshake has to complete.
ListenerFairness ==
    /\ \A i \in Sessions : WF_listenerVars(GoroutineStep(i)) /\ WF_listenerVars(StopLoop(i))
    /\ WF_listenerVars(\E i \in Sessions : OnHandshakeComplete(i))
    /\ WF_listenerVars(\E a \in Acceptors : Accept(a))
    /\ \A a \in Acceptors : WF_listenerVars(AcceptFails(a))
    /\ \A k \in Closers : WF_listenerVars(CloserStep(k))

ListenerFairSpec == ListenerSpec /\ ListenerFairness

-----------------------------------------------------------------------------
\* Type invariant.
ListenerTypeOK ==
    /\ initial \in [Sessions -> {"none", "started", "created", "added"}]
    /\ sess \in [Sessions -> {"none", "handshaking", "queueing", "open", "stopped"}]
    /\ handlers \in [Sessions -> {"absent", "session", "nil"}]
    /\ closing \subseteq Sessions /\ timers \subseteq Sessions /\ toClose \subseteq Sessions
    /\ queue \in Seq(Sessions) /\ Len(queue) <= QueueCap
    /\ acceptor \in [Acceptors -> {"calling", "returned"}]
    /\ closer \in [Closers -> {"idle", "calling", "waiting", "returned"}]
    /\ {hasServer, closed, panicked} \subseteq BOOLEAN

\* Packets reach a session as long as its run loop runs: neither Close nor a
\* timer that an earlier Remove left behind takes its connection ID away.
SessionReachable ==
    \A i \in Sessions : Running(i) /\ initial[i] = "added" => handlers[i] = "session"

\* Close returns, though it waits, with the mutex, for sessions whose run loops
\* wait for room in the queue: Accept is "called in a loop".  And whoever waits in
\* Accept learns that the server was closed.
CloseEnds ==
    /\ \A k \in Closers : closer[k] = "calling" ~> closer[k] = "returned"
    /\ \A k \in Closers, a \in Acceptors : closer[k] = "returned" ~> acceptor[a] = "returned"

\* A session that stopped is forgotten, also if it stopped before handleInitial
\* has added it to the packetHandlerMap.
StoppedIsForgotten == \A i \in Sessions : sess[i] = "stopped" ~> [](handlers[i] = "absent")

\* "Close the server, sending CONNECTION_CLOSE frames to each peer."
CloseClosesAll ==
    \A i \in Sessions : closed => ~Running(i)

\* "We need to close it in order to make the go routine reading from that Conn
\* return": return, not panic.
NoPanic == ~panicked

====
