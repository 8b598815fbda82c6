-------------------------------- MODULE Dial --------------------------------
(***************************************************************************)
(* Dialing a server: version negotiation, the stateless Retry and the      *)
(* choice of connection IDs, between one client and one server over a      *)
(* network that loses, duplicates and reorders packets.                    *)
(*                                                                         *)
(* The cryptographic handshake (module Handshake) is cut down to the       *)
(* packets that decide which sessions agree: the Initial with the          *)
(* ClientHello, the server's Initial (SH) and Handshake (EE) packets, and  *)
(* the client's Finished (Fin).  The network keeps every packet that was   *)
(* sent.  Connection IDs are numbers, generated in ascending order; 0      *)
(* stands for none.                                                        *)
(***************************************************************************)
EXTENDS Integers, Sequences, FiniteSets

CONSTANTS
    ClientVersions, \* config.Versions of the client, in its order of preference
    Offers,         \* the sets of versions a server may support
    Policies,       \* AcceptCookie: "always" asks for a cookie, "never" or "either"
    MaxCopies,      \* bound: how often the server handles copies of an Initial
    MayCancel       \* whether the context of dialContext may be cancelled

ASSUME DialAssumption ==
    /\ ClientVersions \in Seq(STRING) /\ ClientVersions # <<>> /\ {} \notin Offers
    /\ Policies \subseteq {"always", "never", "either"}
    /\ MaxCopies \in Nat \ {0} /\ MayCancel \in BOOLEAN

VARIABLES
    c,         \* the client, and where dial is
    session,   \* c.session
    cHandlers, \* the client's packetHandlerMap: connection ID to "client" or "nil"
    cTimers,   \* connection IDs whose deletion is pending in time.AfterFunc
    server,    \* config.Versions, the cookie policy
    sessions,  \* sequence of the server's sessions
    nextID,    \* the next connection ID to be generated
    net        \* every packet that was sent

vars == <<c, session, cHandlers, cTimers, server, sessions, nextID, net>>

Put(f, x, y) == [z \in DOMAIN f \cup {x} |-> IF z = x THEN y ELSE f[z]]
Ran(s) == {s[i] : i \in DOMAIN s}

-----------------------------------------------------------------------------
(* Versions *)

\* The best version in the overlap of ours and theirs.
ChooseSupportedVersion(ours, theirs) ==
    LET both == {i \in DOMAIN ours : ours[i] \in theirs}
    IN  IF both = {} THEN "none" ELSE ours[CHOOSE i \in both : \A j \in both : i <= j]

-----------------------------------------------------------------------------
(* The client: dial, createNewTLSSession, establishSecureConnection *)

NoSession == [src |-> 0, dest |-> 0, key |-> 0, version |-> "none", token |-> 0, orig |-> 0,
              initial |-> "none", first |-> FALSE, hello |-> 0, done |-> FALSE,
              state |-> "stopped", reason |-> "none"]

CreateNewTLSSession ==
    /\ c.pc = "create"
    /\ session' = [NoSession EXCEPT !.src = c.src, !.dest = c.dest, !.key = c.dest,
                       !.version = c.version, !.token = c.token, !.orig = c.orig,
                       !.initial = c.initial, !.state = "open"]
    /\ cHandlers' = Put(cHandlers, c.src, "client")
    /\ c' = [c EXCEPT !.pc = "wait"]
    /\ UNCHANGED <<cTimers, server, sessions, nextID, net>>

\* An Initial of the client's session: the ClientHello, or only an ACK.
Initial(hello) ==
    [type |-> "Initial", src |-> session.src, dest |-> session.dest, key |-> session.key,
     version |-> session.version, token |-> session.token, initial |-> session.initial,
     hello |-> hello]

\* The session sends its ClientHello until it hears of the server, and then
\* acknowledges the server's Initial, to the connection ID the server chose.
SendInitial ==
    /\ session.state = "open"
    /\ net' = net \cup {Initial(~session.first)}
    /\ UNCHANGED <<c, session, cHandlers, cTimers, server, sessions, nextID>>

\* session.destroy and closeLocal; closeOnce.
Closed(s, why) ==
    IF s.state = "open" THEN [s EXCEPT !.state = "stopping", !.reason = why] ELSE s

\* Mutant of StopSession: no timer deletes the entry.
StopSessionForGood ==
    /\ session.state = "stopping"
    /\ session' = [session EXCEPT !.state = "stopped"]
    /\ cHandlers' = Put(cHandlers, session.src, "nil")
    /\ UNCHANGED <<c, cTimers, server, sessions, nextID, net>>

\* The session's run loop stops, removes its connection ID and returns.
StopSession ==
    /\ session.state = "stopping"
    /\ session' = [session EXCEPT !.state = "stopped"]
    /\ cHandlers' = Put(cHandlers, session.src, "nil")
    /\ cTimers' = cTimers \cup {session.src}
    /\ UNCHANGED <<c, server, sessions, nextID, net>>

\* case <-c.handshakeChan
DialReturnsSession ==
    /\ c.pc = "wait" /\ session.done
    /\ c' = [c EXCEPT !.pc = "returned", !.err = "nil"]
    /\ UNCHANGED <<session, cHandlers, cTimers, server, sessions, nextID, net>>

\* case err := <-errorChan: dial again, or return the error.
SessionReturned ==
    /\ c.pc = "wait" /\ session.state = "stopped"
    /\ c' = IF session.reason \in {"retry", "newVersion"} THEN [c EXCEPT !.pc = "create"]
            ELSE [c EXCEPT !.pc = "returned", !.err = session.reason]
    /\ UNCHANGED <<session, cHandlers, cTimers, server, sessions, nextID, net>>

\* Mutant of Cancel: the context is watched after dial has returned.
CancelAnytime ==
    /\ MayCancel /\ c.pc \in {"wait", "returned"}
    /\ session' = Closed(session, "ctx")
    /\ c' = IF c.pc = "wait" THEN [c EXCEPT !.pc = "closing"] ELSE c
    /\ UNCHANGED <<cHandlers, cTimers, server, sessions, nextID, net>>

\* case <-ctx.Done(): session.Close waits for the run loop.
Cancel ==
    /\ MayCancel /\ c.pc = "wait"
    /\ session' = Closed(session, "ctx")
    /\ c' = [c EXCEPT !.pc = "closing"]
    /\ UNCHANGED <<cHandlers, cTimers, server, sessions, nextID, net>>

CancelReturns ==
    /\ c.pc = "closing" /\ session.state = "stopped"
    /\ c' = [c EXCEPT !.pc = "returned", !.err = "ctx"]
    /\ UNCHANGED <<session, cHandlers, cTimers, server, sessions, nextID, net>>

\* The function of time.AfterFunc.  Assumed: ClosedSessionDeleteTimeout, a minute,
\* is longer than what a dial takes, as it is with the default HandshakeTimeout.
DeleteClientHandler(id) ==
    /\ c.pc = "returned" /\ id \in cTimers
    /\ cHandlers' = [z \in DOMAIN cHandlers \ {id} |-> cHandlers[z]]
    /\ cTimers' = cTimers \ {id}
    /\ UNCHANGED <<c, session, server, sessions, nextID, net>>

-----------------------------------------------------------------------------
(* The client: handlePacketImpl *)

GenerateConnectionIDs(cl) == [cl EXCEPT !.src = nextID, !.dest = nextID + 1]

HandleVersionNegotiationPacket(p) ==
    LET new == ChooseSupportedVersion(ClientVersions, p.versions)
    IN  /\ ~c.gotVN /\ ~c.negotiated /\ c.version \notin p.versions
        /\ IF new = "none"
           THEN /\ session' = Closed(session, "version")
                /\ UNCHANGED <<c, nextID>>
           ELSE /\ session' = Closed(session, "newVersion")
                /\ c' = [GenerateConnectionIDs(c) EXCEPT
                            !.gotVN = TRUE, !.initial = c.version, !.version = new]
                /\ nextID' = nextID + 2
        /\ UNCHANGED net

\* "Ignoring spoofed Retry", "the server didn't change the Source Connection ID"
\* and "a Retry was already received".
RetryIgnored(p) == p.orig # c.dest \/ p.src = c.dest \/ c.token # 0

HandleRetryPacket(p) ==
    /\ p.dest = c.src /\ ~RetryIgnored(p)
    /\ c' = [c EXCEPT !.orig = c.dest, !.dest = p.src, !.token = p.token]
    /\ session' = Closed(session, "retry")
    /\ UNCHANGED <<nextID, net>>

\* extensionHandlerClient.ReceivedExtensions
ClientAccepts(p) ==
    /\ p.version = session.version /\ session.version \in p.versions
    /\ session.version # session.initial =>
          session.version = ChooseSupportedVersion(ClientVersions, p.versions)
    /\ p.orig = session.orig

\* Mutant of DestAfter: the client sticks to its own choice.
DestKept(p) == session.dest

\* "The server can change the source connection ID with the first Handshake
\* packet."
DestAfter(p) == IF session.first THEN session.dest ELSE p.src

\* "After this, all packets with a different source connection have to be
\* ignored."
Unexpected(p) == session.first /\ p.src # session.dest

\* The session handles a packet: the Initial is opened with the key that comes
\* from its first destination connection ID, the Handshake packet with the one
\* that the ServerHello gave.
SessionAfter(p) ==
    LET handled == session.state = "open" /\ ~Unexpected(p)
    IN  CASE handled /\ p.type = "SH" /\ p.key = session.key ->
                [session EXCEPT !.first = TRUE, !.dest = DestAfter(p),
                                !.hello = IF @ = 0 THEN p.src ELSE @]
          [] handled /\ p.type = "EE" /\ session.hello = p.src /\ ~session.done ->
                IF ClientAccepts(p) THEN [session EXCEPT !.done = TRUE] ELSE Closed(session, "tls")
          [] OTHER -> session

Fin(s) == [type |-> "Fin", src |-> s.src, dest |-> s.dest, key |-> s.hello,
           version |-> s.version]

SessionHandlePacket(p) ==
    /\ p.dest = c.src
    /\ c' = [c EXCEPT !.negotiated = TRUE]
    /\ session' = SessionAfter(p)
    /\ net' = IF session'.done THEN net \cup {Fin(session')} ELSE net
    /\ UNCHANGED nextID

\* packetHandlerMap.handlePacket and client.handlePacketImpl.  A packet for an
\* ID that is not there, or that is closed, is dropped.
ClientReceive(p) ==
    /\ p.dest \in DOMAIN cHandlers /\ cHandlers[p.dest] = "client"
    /\ \/ p.type = "VN" /\ HandleVersionNegotiationPacket(p)
       \/ p.type = "Retry" /\ HandleRetryPacket(p)
       \/ p.type \in {"SH", "EE"} /\ SessionHandlePacket(p)
    /\ UNCHANGED <<cHandlers, cTimers, server, sessions>>

-----------------------------------------------------------------------------
(* The server *)

\* Whether a session of the server is in its packetHandlerMap under an ID.
Known(id) == \E i \in DOMAIN sessions : sessions[i].id = id /\ sessions[i].added

ComposeVersionNegotiation(p) ==
    [type |-> "VN", src |-> p.dest, dest |-> p.src, versions |-> server.versions]

SendVersionNegotiationPacket(p) ==
    /\ net' = net \cup {ComposeVersionNegotiation(p)}
    /\ UNCHANGED <<c, session, cHandlers, cTimers, server, sessions, nextID>>

\* CookieGenerator.NewToken: what matters of a cookie is the original connection
\* ID in it; the client's address does not change, and no cookie expires.
NewToken(p) == p.dest

SendRetry(p) ==
    LET copies == {q \in net : q.type = "Retry" /\ q.orig = p.dest}
    IN  /\ Cardinality(copies) < MaxCopies
        /\ net' = net \cup {[type |-> "Retry", src |-> nextID, dest |-> p.src,
                             orig |-> p.dest, token |-> NewToken(p)]}
        /\ nextID' = nextID + 1
        /\ UNCHANGED <<c, session, cHandlers, cTimers, server, sessions>>

\* extensionHandlerServer.ReceivedExtensions
ServerAccepts(p) == p.initial = p.version \/ p.initial \notin server.versions

\* Mutant of OriginalConnectionID: the one of the Initial itself.
DestConnectionID(p) == p.dest

\* origDestConnectionID, out of the cookie.
OriginalConnectionID(p) == p.token

\* newSession, for an Initial; its keys come from the Initial's destination
\* connection ID.
NewSession(p) == [id |-> nextID, of |-> p, added |-> FALSE, complete |-> FALSE]

ServerHello(p) == [type |-> "SH", src |-> nextID, dest |-> p.src, key |-> p.dest]

\* extensionHandlerServer.GetExtensions
EncryptedExtensions(p) ==
    [type |-> "EE", src |-> nextID, dest |-> p.src, version |-> p.version,
     versions |-> server.versions, orig |-> OriginalConnectionID(p)]

\* handleInitialImpl, createNewSession and the session's first packet, if it can
\* open it.  A client pads its Initials to the size that handleInitialImpl asks for;
\* what a session sends whose TLS refuses the client is left out.
CreateSession(p) ==
    /\ Cardinality({i \in DOMAIN sessions : sessions[i].of = p}) < MaxCopies
    /\ sessions' = Append(sessions, NewSession(p))
    /\ net' = IF p.key = p.dest /\ p.hello /\ ServerAccepts(p)
              THEN net \cup {ServerHello(p), EncryptedExtensions(p)} ELSE net
    /\ nextID' = nextID + 1
    /\ UNCHANGED <<c, session, cHandlers, cTimers, server>>

\* AcceptCookie
Accepted(p) == server.policy \in {"never", "either"} \/ p.token # 0
Refused(p) == server.policy = "either" \/ (server.policy = "always" /\ p.token = 0)

\* server.handlePacketImpl, and the goroutine of handleInitial.
HandleInitial(p) ==
    /\ p.type = "Initial" /\ ~Known(p.dest)
    /\ \/ p.version \notin server.versions /\ SendVersionNegotiationPacket(p)
       \/ p.version \in server.versions /\ Refused(p) /\ SendRetry(p)
       \/ p.version \in server.versions /\ Accepted(p) /\ CreateSession(p)

\* The end of handleInitial; the session has been running for a while.
AddSession(i) ==
    /\ ~sessions[i].added
    /\ sessions' = [sessions EXCEPT ![i].added = TRUE]
    /\ UNCHANGED <<c, session, cHandlers, cTimers, server, nextID, net>>

\* serverSession.handlePacketImpl, for the packet that completes the handshake.
ServerCompletes(p, i) ==
    /\ p.type = "Fin" /\ sessions[i].added /\ sessions[i].id = p.dest
    /\ p.version = sessions[i].of.version /\ p.key = sessions[i].id
    /\ sessions' = [sessions EXCEPT ![i].complete = TRUE]
    /\ UNCHANGED <<c, session, cHandlers, cTimers, server, nextID, net>>

-----------------------------------------------------------------------------
Init ==
    /\ c = [pc |-> "create", err |-> "none", version |-> ClientVersions[1],
            initial |-> "none", src |-> 1, dest |-> 2, orig |-> 0, token |-> 0,
            gotVN |-> FALSE, negotiated |-> FALSE]
    /\ session = NoSession /\ cHandlers = <<>> /\ cTimers = {}
    /\ server \in [versions : Offers, policy : Policies]
    /\ sessions = <<>> /\ nextID = 3 /\ net = {}

ClientStep ==
    \/ CreateNewTLSSession \/ StopSession \/ DialReturnsSession \/ SessionReturned
    \/ CancelReturns

Next ==
    \/ ClientStep \/ SendInitial \/ Cancel
    \/ \E id \in cTimers : DeleteClientHandler(id)
    \/ \E i \in DOMAIN sessions : AddSession(i)
    \/ \E p \in net : ClientReceive(p) \/ HandleInitial(p)
    \/ \E p \in net, i \in DOMAIN sessions : ServerCompletes(p, i)

Spec == Init /\ [][Next]_vars

\* Goroutines keep running.  The client retransmits its Initial, the server
\* answers each one, and sooner or later an Initial and an answer arrive; a
\* timer fires.
Fairness ==
    /\ WF_vars(ClientStep) /\ WF_vars(SendInitial)
    /\ WF_vars(\E p \in net : session.state = "open" /\ p = Initial(TRUE) /\ HandleInitial(p))
    /\ WF_vars(\E p \in net : p.dest = session.src /\ ClientReceive(p))
    /\ WF_vars(\E id \in cTimers : DeleteClientHandler(id))

FairSpec == Spec /\ Fairness

-----------------------------------------------------------------------------
\* Type invariant.
TypeOK ==
    /\ c.pc \in {"create", "wait", "closing", "returned"}
    /\ c.err \in {"none", "nil", "version", "tls", "ctx"}
    /\ session.state \in {"open", "stopping", "stopped"}
    /\ \A id \in DOMAIN cHandlers : id < nextID /\ cHandlers[id] \in {"client", "nil"}
    /\ cTimers \subseteq DOMAIN cHandlers
    /\ \A i \in DOMAIN sessions : sessions[i].id < nextID

\* Client and server agree: the session whose ServerHello the client uses is
\* the one it sends to, of all the sessions that copies of its Initials made the
\* server create no other one ever completes, and the version is "the best
\* version in the overlap of ours and theirs".
Agreement ==
    /\ session.hello # 0 => session.dest = session.hello
    /\ \A i \in DOMAIN sessions : sessions[i].complete =>
          session.done /\ session.hello = sessions[i].id
    /\ session.done =>
          session.version = ChooseSupportedVersion(ClientVersions, server.versions)

\* A session that dial has returned is not torn down by what is still on its
\* way, late and repeated Retry and Version Negotiation packets, nor by the
\* context that dial was called with.
EstablishedStays == c.err = "nil" => session.state = "open"

\* dial returns, with a session if the versions overlap and nobody cancels,
\* whatever is lost, repeated or overtaken.
DialSucceeds ==
    <>(c.pc = "returned" /\ (\/ c.err \in {"nil", "ctx"}
                             \/ c.err = "version" /\ Ran(ClientVersions) \cap server.versions = {}))

\* When dial has failed, the client is forgotten: nothing stays in the
\* packetHandlerMap.
FailedIsForgotten == (c.pc = "returned" /\ c.err # "nil") ~> cHandlers = <<>>

\* "after this time all information about the old connection will be deleted":
\* the old one, not the one that dial has returned.
LiveReachable ==
    c.err = "nil" /\ session.state = "open" =>
        session.src \in DOMAIN cHandlers /\ cHandlers[session.src] = "client"

====
