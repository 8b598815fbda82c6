--------------------------- MODULE EndpointProofs ---------------------------
(***************************************************************************)
(* The two ends of a connection that are not sessions, for every number of *)
(* goroutines, versions, packets and sessions: the client that dials       *)
(* (Dial) and the server that listens (Listener).  They share no state,    *)
(* and each has its section.                                               *)
(***************************************************************************)
EXTENDS Dial, Listener, Sums

-----------------------------------------------------------------------------
(* Dial *)

\* What is assumed of the constants.  A version is not called none.  The server
\* asks every client for a cookie, or none: with a server that changes its mind, a
\* late Retry does tear down the session that dial has returned.
DialConstants ==
    /\ ClientVersions \in Seq(STRING) /\ ClientVersions # <<>>
    /\ "none" \notin Ran(ClientVersions)
    /\ Policies \subseteq {"always", "never"}

Versions == Ran(ClientVersions) \cup {"none"}

ClientType ==
    [pc : {"create", "wait", "closing", "returned"},
     err : {"none", "nil", "version", "tls", "ctx", "retry", "newVersion"},
     version : Versions, initial : Versions, src : Nat, dest : Nat \ {0}, orig : Nat, token : Nat,
     gotVN : BOOLEAN, negotiated : BOOLEAN]

SessionType ==
    [src : Nat, dest : Nat, key : Nat, version : Versions, token : Nat, orig : Nat,
     initial : Versions, first : BOOLEAN, hello : Nat, done : BOOLEAN,
     state : {"open", "stopping", "stopped"},
     reason : {"none", "retry", "newVersion", "version", "tls", "ctx"}]

\* A session of the server, for an Initial among ps.
ServerSession(ps) == [id : Nat, of : ps, added : BOOLEAN, complete : BOOLEAN]

DialTypes ==
    /\ c \in ClientType /\ session \in SessionType
    /\ sessions \in Seq(ServerSession(net))
    /\ nextID \in Nat \ {0} /\ c.dest < nextID /\ session.key < nextID
    /\ server.policy \in {"always", "never"}

\* Whether dial is about to start over, with other connection IDs.
Again == c.pc = "create" \/ session.reason \in {"retry", "newVersion"}

\* The connection ID that an Initial is encrypted with tells the sessions of the
\* client apart: those with the ID of the current one carry its token, and none
\* has the ID that dial starts over with.
InitialOK(p) ==
    /\ p.src \in Nat /\ p.key \in Nat /\ p.key < nextID /\ p.dest \in Nat \ {0}
    /\ p.key = session.key => p.token = session.token
    /\ Again => p.key # c.dest

\* Until the client takes a Retry, the ID in it has never been used.
RetryOK(p) ==
    /\ p.src \in Nat \ {0} /\ p.src < nextID /\ p.token \in Nat \ {0}
    /\ server.policy # "never"
    /\ c.token = 0 => /\ p.src # c.dest /\ p.src # session.key
                      /\ \A q \in net : q.type = "Initial" => q.key # p.src

\* A server that asks for cookies only answers Initials that have one.
HelloOK(p) ==
    /\ p.src \in Nat \ {0}
    /\ server.policy = "always" =>
          \E q \in net : q.type = "Initial" /\ q.key = p.key /\ q.token # 0

PacketsOK ==
    \A p \in net :
       /\ p.type = "Initial" => InitialOK(p)
       /\ p.type = "Retry" => RetryOK(p)
       /\ p.type = "SH" => HelloOK(p)
       /\ p.type = "EE" => p.src # 0 /\ p.versions = server.versions
       /\ p.type = "Fin" => session.done /\ p.key = session.hello

ClientOK ==
    /\ c.version # c.initial
    /\ c.pc = "create" => session.state = "stopped" /\ ~session.done
    /\ c.pc = "wait" /\ session.done => session.state = "open"
    /\ c.err = "nil" => c.pc = "returned" /\ session.done /\ session.state = "open"

\* A session that is established has the token that a Retry would bring, has
\* ended version negotiation, and is not about to be replaced.
SessionOK ==
    /\ session.token # 0 => c.token # 0
    /\ session.state = "open" =>
          session.reason = "none" /\ session.dest # 0 /\ session.version # session.initial
    /\ session.first <=> session.hello # 0
    /\ session.hello # 0 =>
          session.dest = session.hello /\ (server.policy = "always" => c.token # 0)
    /\ session.done => /\ session.hello # 0 /\ c.negotiated
                       /\ session.reason \notin {"retry", "newVersion"}

DialInv == DialTypes /\ PacketsOK /\ ClientOK /\ SessionOK /\ Agreement

\* A step that sends nothing and keeps the connection IDs keeps PacketsOK.
LEMMA PacketsKept ==
    ASSUME PacketsOK, nextID \in Nat, nextID' \in Nat, nextID' >= nextID,
           UNCHANGED <<net, server>>,
           c'.dest = c.dest, c'.token = c.token, Again' => Again,
           session'.key = session.key, session'.token = session.token,
           session.done => session'.done /\ session'.hello = session.hello
    PROVE  PacketsOK'
<1> SUFFICES ASSUME NEW p \in net
             PROVE  /\ p.type = "Initial" => InitialOK(p)'
                    /\ p.type = "Retry" => RetryOK(p)'
                    /\ p.type = "SH" => HelloOK(p)'
                    /\ p.type = "EE" => p.src # 0 /\ p.versions = server.versions'
                    /\ p.type = "Fin" => session'.done /\ p.key = session'.hello
    BY Zenon DEF PacketsOK
<1>1. p.type = "Initial" => InitialOK(p)'
    BY DEF PacketsOK, InitialOK
<1>2. p.type = "Retry" => RetryOK(p)'
    BY DEF PacketsOK, RetryOK
<1>3. p.type = "SH" => HelloOK(p)'
    BY Zenon DEF PacketsOK, HelloOK
<1>4. QED
    BY <1>1, <1>2, <1>3, ZenonT(30) DEF PacketsOK

LEMMA SessionsKept ==
    ASSUME NEW ps, NEW qs, ps \subseteq qs, NEW s \in Seq(ServerSession(ps))
    PROVE  s \in Seq(ServerSession(qs))
<1>1. ServerSession(ps) \subseteq ServerSession(qs)
    BY Zenon DEF ServerSession
<1>2. QED
    BY <1>1

\* The version of version negotiation is one that the server has.
LEMMA ChosenVersion ==
    ASSUME DialConstants, NEW V,
           ChooseSupportedVersion(ClientVersions, V) # "none"
    PROVE  /\ ChooseSupportedVersion(ClientVersions, V) \in V
           /\ ChooseSupportedVersion(ClientVersions, V) \in Versions
<1> DEFINE both == {i \in DOMAIN ClientVersions : ClientVersions[i] \in V}
<1>1. both # {}
    BY Zenon DEF ChooseSupportedVersion
<1>2. both \subseteq Nat /\ \A i \in both : ClientVersions[i] \in V /\ ClientVersions[i] \in Versions
    BY DEF DialConstants, Versions, Ran
<1>3. ChooseSupportedVersion(ClientVersions, V)
        = ClientVersions[CHOOSE i \in both : \A j \in both : i <= j]
    BY <1>1, Zenon DEF ChooseSupportedVersion
<1> HIDE DEF both
<1>4. \E i \in both : \A j \in both : i <= j
    BY <1>1, <1>2, SmallestOf, Zenon
<1>5. (CHOOSE i \in both : \A j \in both : i <= j) \in both
    BY <1>4, Zenon
<1>6. QED
    BY <1>2, <1>3, <1>5, Zenon

\* A session that is closed keeps everything but its state and the reason.
LEMMA ClosedKeeps ==
    ASSUME NEW s \in SessionType,
           NEW why \in {"none", "retry", "newVersion", "version", "tls", "ctx"}
    PROVE  LET t == Closed(s, why)
           IN  /\ t \in SessionType
               /\ t.src = s.src /\ t.dest = s.dest /\ t.key = s.key /\ t.version = s.version
               /\ t.token = s.token /\ t.orig = s.orig /\ t.initial = s.initial
               /\ t.first = s.first /\ t.hello = s.hello /\ t.done = s.done
               /\ t.state # "open" /\ (t.state = "stopped" <=> s.state = "stopped")
               /\ t.reason = IF s.state = "open" THEN why ELSE s.reason
BY ZenonT(30) DEF Closed, SessionType

\* The session of a dial that starts over has a key of its own, and nothing that
\* was established is given up for it (createNewTLSSession).
LEMMA CreateNewTLSSessionKept ==
    ASSUME DialInv, CreateNewTLSSession
    PROVE  DialInv'
<1>1. /\ c.pc = "create" /\ session.state = "stopped" /\ ~session.done /\ Again
      /\ UNCHANGED <<server, sessions, nextID, net>>
    BY Zenon DEF DialInv, ClientOK, CreateNewTLSSession, Again
<1>2. c \in ClientType /\ c' = [c EXCEPT !.pc = "wait"]
    BY Zenon DEF DialInv, DialTypes, CreateNewTLSSession
<1>3. /\ c' \in ClientType /\ c'.pc = "wait" /\ c'.err = c.err /\ c'.version = c.version
      /\ c'.initial = c.initial /\ c'.dest = c.dest /\ c'.token = c.token
      /\ c'.negotiated = c.negotiated
    BY <1>2, Zenon DEF ClientType
<1>4. session' = [src |-> c.src, dest |-> c.dest, key |-> c.dest, version |-> c.version,
                  token |-> c.token, orig |-> c.orig, initial |-> c.initial,
                  first |-> FALSE, hello |-> 0, done |-> FALSE,
                  state |-> "open", reason |-> "none"]
    BY ZenonT(30) DEF CreateNewTLSSession, NoSession
<1>5. /\ c.src \in Nat /\ c.dest \in Nat \ {0} /\ c.version \in Versions /\ c.token \in Nat
      /\ c.orig \in Nat /\ c.initial \in Versions
    BY <1>2, Zenon DEF ClientType
<1>6. session' \in SessionType
    BY <1>4, <1>5, ZenonT(30) DEF SessionType
<1>7. DialTypes'
    BY <1>1, <1>3, <1>4, <1>6, ZenonT(30) DEF DialInv, DialTypes
<1>8. PacketsOK'
  <2> SUFFICES ASSUME NEW p \in net
               PROVE  /\ p.type = "Initial" => InitialOK(p)'
                      /\ p.type = "Retry" => RetryOK(p)'
                      /\ p.type = "SH" => HelloOK(p)'
                      /\ p.type = "EE" => p.src # 0 /\ p.versions = server.versions'
                      /\ p.type = "Fin" => session'.done /\ p.key = session'.hello
    BY <1>1, Zenon DEF PacketsOK
  <2>1. p.type = "Initial" => InitialOK(p)'
    BY <1>1, <1>3, <1>4, ZenonT(30) DEF DialInv, PacketsOK, InitialOK, Again
  <2>2. p.type = "Retry" => RetryOK(p)'
    BY <1>1, <1>3, <1>4, Zenon DEF DialInv, PacketsOK, RetryOK
  <2>3. p.type = "SH" => HelloOK(p)'
    BY <1>1, Zenon DEF DialInv, PacketsOK, HelloOK
  <2>4. QED
    BY <1>1, <2>1, <2>2, <2>3, ZenonT(30) DEF DialInv, PacketsOK
<1>9. ClientOK' /\ SessionOK'
    BY <1>1, <1>3, <1>4, <1>5, ZenonT(30) DEF DialInv, ClientOK, SessionOK
<1>10. Agreement'
    BY <1>1, <1>4, Zenon DEF DialInv, Agreement
<1>11. QED
    BY <1>7, <1>8, <1>9, <1>10, Zenon DEF DialInv

\* An Initial carries the key and the token of the session that sends it.
LEMMA SendInitialKept ==
    ASSUME DialInv, SendInitial
    PROVE  DialInv'
<1> DEFINE new == Initial(~session.first)
<1>1. /\ session.state = "open" /\ net' = net \cup {new}
      /\ UNCHANGED <<c, session, server, sessions, nextID>>
    BY Zenon DEF SendInitial
<1>2. /\ new.type = "Initial" /\ new.src = session.src /\ new.dest = session.dest
      /\ new.key = session.key /\ new.token = session.token
    BY Zenon DEF Initial
<1> HIDE DEF new
<1>3. ~Again /\ session.dest # 0 /\ session \in SessionType /\ session.key < nextID
    BY <1>1, Zenon DEF DialInv, DialTypes, SessionOK, ClientOK, Again
<1>4. session.src \in Nat /\ session.dest \in Nat /\ session.key \in Nat
    BY <1>3, Zenon DEF SessionType
<1>5. DialTypes'
  <2>1. sessions \in Seq(ServerSession(net'))
    BY <1>1, SessionsKept, ZenonT(30) DEF DialInv, DialTypes
  <2>2. QED
    BY <1>1, <2>1, Zenon DEF DialInv, DialTypes
<1>6. PacketsOK'
  <2> SUFFICES ASSUME NEW p \in net'
               PROVE  /\ p.type = "Initial" => InitialOK(p)'
                      /\ p.type = "Retry" => RetryOK(p)'
                      /\ p.type = "SH" => HelloOK(p)'
                      /\ p.type = "EE" => p.src # 0 /\ p.versions = server.versions'
                      /\ p.type = "Fin" => session'.done /\ p.key = session'.hello
    BY Zenon DEF PacketsOK
  <2>1. CASE p = new
    BY <1>1, <1>2, <1>3, <1>4, <2>1, ZenonT(30) DEF InitialOK, Again
  <2>2. CASE p \in net
    <3>1. p.type = "Initial" => InitialOK(p)'
      BY <1>1, <2>2, ZenonT(30) DEF DialInv, PacketsOK, InitialOK, Again
    <3>2. p.type = "Retry" => RetryOK(p)'
      BY <1>1, <1>2, <2>2, SMTT(30), Z3T(30) DEF DialInv, PacketsOK, RetryOK
    <3>3. p.type = "SH" => HelloOK(p)'
      BY <1>1, <2>2, Zenon DEF DialInv, PacketsOK, HelloOK
    <3>4. QED
      BY <1>1, <2>2, <3>1, <3>2, <3>3, ZenonT(30) DEF DialInv, PacketsOK
  <2>3. QED
    BY <1>1, <2>1, <2>2, ZenonT(30)
<1>7. ClientOK' /\ SessionOK' /\ Agreement'
    BY <1>1, Zenon DEF DialInv, ClientOK, SessionOK, Agreement
<1>8. QED
    BY <1>5, <1>6, <1>7, ZenonT(30) DEF DialInv

\* The steps of dial that end it or start over, the end of a session's run loop, and
\* the cancelled context: nothing is sent.
LEMMA ClientStepKept ==
    ASSUME DialInv,
           \/ StopSession \/ DialReturnsSession \/ SessionReturned \/ Cancel
           \/ CancelReturns
    PROVE  DialInv'
<1>1. c \in ClientType /\ session \in SessionType /\ nextID \in Nat
    BY Zenon DEF DialInv, DialTypes
<1>2. UNCHANGED <<server, sessions, nextID, net>>
    BY Zenon DEF StopSession, DialReturnsSession, SessionReturned, Cancel, CancelReturns
<1>3. CASE StopSession
  <2>1. c' = c /\ session.state = "stopping" /\ session' = [session EXCEPT !.state = "stopped"]
    BY <1>3, Zenon DEF StopSession
  <2>2. /\ session' \in SessionType /\ session'.dest = session.dest /\ session'.key = session.key
        /\ session'.version = session.version /\ session'.token = session.token
        /\ session'.first = session.first /\ session'.hello = session.hello
        /\ session'.done = session.done /\ session'.reason = session.reason
        /\ session'.state = "stopped"
    BY <1>1, <2>1, Zenon DEF SessionType
  <2>3. Again' => Again
    BY <2>1, <2>2, Zenon DEF Again
  <2>4. PacketsOK'
    BY <1>1, <1>2, <2>1, <2>2, <2>3, PacketsKept, SMTT(30), Z3T(30) DEF DialInv
  <2>5. DialTypes' /\ ClientOK' /\ SessionOK'
    BY <1>2, <2>1, <2>2, ZenonT(30) DEF DialInv, DialTypes, ClientOK, SessionOK
  <2>6. Agreement'
    BY <1>2, <2>1, <2>2, ZenonT(30) DEF DialInv, Agreement
  <2>7. QED
    BY <2>4, <2>5, <2>6, ZenonT(30) DEF DialInv
<1>4. CASE Cancel
  <2>1. c.pc = "wait" /\ c' = [c EXCEPT !.pc = "closing"] /\ session' = Closed(session, "ctx")
    BY <1>4, Zenon DEF Cancel
  <2>2. /\ session' \in SessionType /\ session'.dest = session.dest /\ session'.key = session.key
        /\ session'.version = session.version /\ session'.token = session.token
        /\ session'.first = session.first /\ session'.hello = session.hello
        /\ session'.done = session.done /\ session'.state # "open"
        /\ session'.reason = IF session.state = "open" THEN "ctx" ELSE session.reason
    BY <1>1, <2>1, ClosedKeeps, ZenonT(30)
  <2>3. /\ c' \in ClientType /\ c'.pc = "closing" /\ c'.err = c.err /\ c'.version = c.version
        /\ c'.initial = c.initial /\ c'.dest = c.dest /\ c'.token = c.token
        /\ c'.negotiated = c.negotiated
    BY <1>1, <2>1, Zenon DEF ClientType
  <2>4. Again' => Again
    BY <2>2, <2>3, ZenonT(60) DEF Again
  <2>5. PacketsOK'
    BY <1>1, <1>2, <2>2, <2>3, <2>4, PacketsKept, SMTT(30), Z3T(30) DEF DialInv
  <2>6. DialTypes' /\ ClientOK' /\ SessionOK'
    BY <1>2, <2>1, <2>2, <2>3, SMTT(30), Z3T(30) DEF DialInv, DialTypes, ClientOK, SessionOK
  <2>7. Agreement'
    BY <1>2, <2>2, Zenon DEF DialInv, Agreement
  <2>8. QED
    BY <2>5, <2>6, <2>7, Zenon DEF DialInv
<1>5. CASE DialReturnsSession \/ SessionReturned \/ CancelReturns
  <2>1. session' = session
    BY <1>5, Zenon DEF DialReturnsSession, SessionReturned, CancelReturns
  <2>2. PICK pc \in {"create", "returned"}, err \in {c.err, "nil", "ctx", session.reason} :
            /\ c' = [c EXCEPT !.pc = pc, !.err = err]
            /\ pc = "create" => /\ session.reason \in {"retry", "newVersion"} /\ err = c.err
                                /\ session.state = "stopped" /\ c.pc = "wait"
            /\ err = "nil" => (pc = "returned" /\ c.pc = "wait" /\ session.done) \/ c.err = "nil"
    <3>1. CASE DialReturnsSession
      BY <3>1, Zenon DEF DialReturnsSession
    <3>2. CASE CancelReturns
      BY <3>2, Zenon DEF CancelReturns
    <3>3. CASE SessionReturned /\ session.reason \in {"retry", "newVersion"}
      <4>1. c' = [c EXCEPT !.pc = "create", !.err = c.err]
        BY <1>1, <3>3, Zenon DEF SessionReturned, ClientType
      <4>2. c.err = "nil" => c.err = "nil"
        BY Zenon
      <4>3. QED
        BY <3>3, <4>1, <4>2, Zenon DEF SessionReturned
    <3>4. CASE SessionReturned /\ session.reason \notin {"retry", "newVersion"}
      <4>1. session.reason # "nil"
        BY <1>1, Zenon DEF SessionType
      <4>2. QED
        BY <3>4, <4>1, Zenon DEF SessionReturned
    <3>5. QED
      BY <1>5, <3>1, <3>2, <3>3, <3>4, ZenonT(30)
  <2>3. session.reason \in {"none", "retry", "newVersion", "version", "tls", "ctx"}
    BY <1>1, Zenon DEF SessionType
  <2>4. /\ c' \in ClientType /\ c'.pc = pc /\ c'.err = err /\ c'.version = c.version
        /\ c'.initial = c.initial /\ c'.dest = c.dest /\ c'.token = c.token
        /\ c'.negotiated = c.negotiated
    BY <1>1, <2>2, <2>3, ZenonT(30) DEF ClientType
  <2>5. Again' => Again
    BY <2>1, <2>2, <2>4, Zenon DEF Again
  <2>6. PacketsOK'
    BY <1>1, <1>2, <2>1, <2>4, <2>5, PacketsKept, SMTT(30), Z3T(30) DEF DialInv
  <2>7. DialTypes' /\ SessionOK'
    BY <1>2, <2>1, <2>4, ZenonT(30) DEF DialInv, DialTypes, SessionOK
  <2>8. ClientOK'
    BY <2>1, <2>2, <2>4, ZenonT(30) DEF DialInv, ClientOK, SessionOK
  <2>9. Agreement'
    BY <1>2, <2>1, Zenon DEF DialInv, Agreement
  <2>10. QED
    BY <2>6, <2>7, <2>8, <2>9, ZenonT(60) DEF DialInv
<1>6. QED
    BY <1>3, <1>4, <1>5, ZenonT(30)

\* Version negotiation makes dial start over with IDs that nobody has used, unless
\* the server has answered already (handleVersionNegotiationPacket).
LEMMA VersionNegotiationKept ==
    ASSUME DialConstants, DialInv, NEW p \in net, HandleVersionNegotiationPacket(p),
           UNCHANGED <<server, sessions>>
    PROVE  DialInv'
<1> DEFINE v == ChooseSupportedVersion(ClientVersions, p.versions)
<1>1. /\ c \in ClientType /\ session \in SessionType /\ nextID \in Nat \ {0}
      /\ ~c.negotiated /\ c.version \notin p.versions /\ ~session.done /\ net' = net
    BY Zenon DEF DialInv, DialTypes, SessionOK, HandleVersionNegotiationPacket
<1>2. CASE v = "none"
  <2>1. c' = c /\ nextID' = nextID /\ session' = Closed(session, "version")
    BY <1>2, Zenon DEF HandleVersionNegotiationPacket
  <2>2. /\ session' \in SessionType /\ session'.dest = session.dest /\ session'.key = session.key
        /\ session'.version = session.version /\ session'.token = session.token
        /\ session'.first = session.first /\ session'.hello = session.hello
        /\ session'.done = session.done /\ session'.state # "open"
        /\ session'.state = "stopped" <=> session.state = "stopped"
        /\ session'.reason = IF session.state = "open" THEN "version" ELSE session.reason
    BY <1>1, <2>1, ClosedKeeps, ZenonT(30)
  <2>3. Again' => Again
    BY <2>1, <2>2, Zenon DEF Again
  <2>4. PacketsOK'
    BY <1>1, <2>1, <2>2, <2>3, PacketsKept, SMTT(30), Z3T(30) DEF DialInv
  <2>5. DialTypes' /\ ClientOK' /\ SessionOK'
    BY <1>1, <2>1, <2>2, ZenonT(30) DEF DialInv, DialTypes, ClientOK, SessionOK
  <2>6. Agreement'
    BY <2>2, Zenon DEF DialInv, Agreement
  <2>7. QED
    BY <2>4, <2>5, <2>6, ZenonT(60) DEF DialInv
<1>3. CASE v # "none"
  <2>1. /\ c' = [c EXCEPT !.src = nextID, !.dest = nextID + 1, !.gotVN = TRUE,
                          !.initial = c.version, !.version = v]
        /\ nextID' = nextID + 2 /\ session' = Closed(session, "newVersion")
    BY <1>1, <1>3, Zenon
    DEF HandleVersionNegotiationPacket, GenerateConnectionIDs, ClientType
  <2>2. /\ session' \in SessionType /\ session'.dest = session.dest /\ session'.key = session.key
        /\ session'.version = session.version /\ session'.token = session.token
        /\ session'.first = session.first /\ session'.hello = session.hello
        /\ session'.done = session.done /\ session'.state # "open"
        /\ session'.state = "stopped" <=> session.state = "stopped"
        /\ session'.reason = IF session.state = "open" THEN "newVersion" ELSE session.reason
    BY <1>1, <2>1, ClosedKeeps, ZenonT(30)
  <2>3. v \in p.versions /\ v \in Versions
    BY <1>3, ChosenVersion, Zenon
  <2> HIDE DEF v
  <2>4. /\ c.version \in Versions /\ nextID \in Nat /\ nextID + 1 \in Nat \ {0}
        /\ nextID' \in Nat \ {0}
    BY <1>1, <2>1, SMTT(30), Z3T(30) DEF ClientType
  <2>5. /\ c' \in ClientType /\ c'.pc = c.pc /\ c'.err = c.err /\ c'.version = v
        /\ c'.initial = c.version /\ c'.dest = nextID + 1 /\ c'.token = c.token
        /\ c'.negotiated = c.negotiated
    BY <1>1, <2>1, <2>3, <2>4, ZenonT(60) DEF ClientType
  <2>6. DialTypes'
    <3>1. session.key \in Nat /\ session.key < nextID
      BY <1>1, ZenonT(30) DEF DialInv, DialTypes, SessionType
    <3>2. c'.dest < nextID' /\ session'.key < nextID'
      BY <1>1, <2>1, <2>2, <2>5, <3>1, SMTT(30), Z3T(30)
    <3>3. QED
      BY <1>1, <2>2, <2>4, <2>5, <3>2, ZenonT(30) DEF DialInv, DialTypes
  <2>7. PacketsOK'
    <3> SUFFICES ASSUME NEW q \in net
                 PROVE  /\ q.type = "Initial" => InitialOK(q)'
                        /\ q.type = "Retry" => RetryOK(q)'
                        /\ q.type = "SH" => HelloOK(q)'
                        /\ q.type = "EE" => q.src # 0 /\ q.versions = server.versions'
                        /\ q.type = "Fin" => session'.done /\ q.key = session'.hello
      BY <1>1, ZenonT(30) DEF PacketsOK
    <3>1. q.type = "Initial" => InitialOK(q)'
      BY <1>1, <2>1, <2>2, <2>5, SMTT(30), Z3T(30) DEF DialInv, PacketsOK, InitialOK
    <3>2. q.type = "Retry" => RetryOK(q)'
      BY <1>1, <2>1, <2>2, <2>5, SMTT(30), Z3T(30) DEF DialInv, PacketsOK, RetryOK
    <3>3. q.type = "SH" => HelloOK(q)'
      BY <1>1, ZenonT(30) DEF DialInv, PacketsOK, HelloOK
    <3>4. QED
      BY <1>1, <2>2, <3>1, <3>2, <3>3, ZenonT(60) DEF DialInv, PacketsOK
  <2>8. ClientOK' /\ SessionOK'
    BY <1>1, <2>2, <2>3, <2>5, SMTT(30), Z3T(30) DEF DialInv, ClientOK, SessionOK
  <2>9. Agreement'
    BY <2>2, ZenonT(30) DEF DialInv, Agreement
  <2>10. QED
    BY <2>6, <2>7, <2>8, <2>9, ZenonT(30) DEF DialInv
<1>4. QED
    BY <1>2, <1>3, Zenon

\* A Retry makes dial start over with an ID that was never used, and only if nothing
\* is established: a server that sends Retries answers Initials with a token only
\* (handleRetryPacket).
LEMMA RetryKept ==
    ASSUME DialInv, NEW p \in net, p.type = "Retry", HandleRetryPacket(p),
           UNCHANGED <<server, sessions>>
    PROVE  DialInv'
<1>1. /\ c \in ClientType /\ session \in SessionType /\ nextID \in Nat \ {0}
      /\ server.policy \in {"always", "never"} /\ net' = net /\ nextID' = nextID
      /\ c.token = 0 /\ RetryOK(p)
    BY ZenonT(30) DEF DialInv, DialTypes, PacketsOK, HandleRetryPacket, RetryIgnored
<1>2. server.policy = "always" /\ ~session.done /\ session.token = 0 /\ session.hello = 0
    BY <1>1, ZenonT(30) DEF DialInv, RetryOK, SessionOK
<1>3. /\ c' = [c EXCEPT !.orig = c.dest, !.dest = p.src, !.token = p.token]
      /\ session' = Closed(session, "retry")
    BY ZenonT(30) DEF HandleRetryPacket
<1>4. /\ session' \in SessionType /\ session'.dest = session.dest /\ session'.key = session.key
      /\ session'.version = session.version /\ session'.token = session.token
      /\ session'.first = session.first /\ session'.hello = session.hello
      /\ session'.done = session.done /\ session'.state # "open"
      /\ session'.state = "stopped" <=> session.state = "stopped"
      /\ session'.reason = IF session.state = "open" THEN "retry" ELSE session.reason
    BY <1>1, <1>3, ClosedKeeps, SMTT(30), Z3T(30)
<1>5. /\ p.src \in Nat \ {0} /\ p.src < nextID /\ p.token \in Nat \ {0}
      /\ \A q \in net : q.type = "Initial" => q.key # p.src
    BY <1>1, Zenon DEF RetryOK
<1>6. /\ c' \in ClientType /\ c'.pc = c.pc /\ c'.err = c.err /\ c'.version = c.version
      /\ c'.initial = c.initial /\ c'.dest = p.src /\ c'.token = p.token
      /\ c'.negotiated = c.negotiated
    BY <1>1, <1>3, <1>5, ZenonT(30) DEF ClientType
<1>7. DialTypes'
    BY <1>1, <1>4, <1>5, <1>6, ZenonT(30) DEF DialInv, DialTypes
<1>8. PacketsOK'
  <2> SUFFICES ASSUME NEW q \in net
               PROVE  /\ q.type = "Initial" => InitialOK(q)'
                      /\ q.type = "Retry" => RetryOK(q)'
                      /\ q.type = "SH" => HelloOK(q)'
                      /\ q.type = "EE" => q.src # 0 /\ q.versions = server.versions'
                      /\ q.type = "Fin" => session'.done /\ q.key = session'.hello
    BY <1>1, ZenonT(30) DEF PacketsOK
  <2>1. q.type = "Initial" => InitialOK(q)'
    BY <1>1, <1>4, <1>5, <1>6, SMTT(30), Z3T(30) DEF DialInv, PacketsOK, InitialOK
  <2>2. q.type = "Retry" => RetryOK(q)'
    BY <1>1, <1>5, <1>6, ZenonT(30) DEF DialInv, PacketsOK, RetryOK
  <2>3. q.type = "SH" => HelloOK(q)'
    BY <1>1, ZenonT(30) DEF DialInv, PacketsOK, HelloOK
  <2>4. QED
    BY <1>1, <1>4, <2>1, <2>2, <2>3, ZenonT(30) DEF DialInv, PacketsOK
<1>9. ClientOK' /\ SessionOK'
    BY <1>2, <1>4, <1>5, <1>6, SMTT(30), Z3T(30) DEF DialInv, ClientOK, SessionOK
<1>10. Agreement'
    BY <1>4, ZenonT(30) DEF DialInv, Agreement
<1>11. QED
    BY <1>7, <1>8, <1>9, <1>10, ZenonT(30) DEF DialInv

\* What the session, now s, may have made of a packet: of its fields, a ServerHello
\* changes dest, first and hello, and the EncryptedExtensions done, or the state and
\* the reason.
Took(p, s) ==
    /\ s \in SessionType /\ s.key = session.key /\ s.version = session.version
    /\ s.token = session.token /\ s.initial = session.initial
    /\ \/ s = session
       \/ /\ p.type = "SH" /\ p.key = session.key /\ session.state = "open"
          /\ session.first => p.src = session.dest
          /\ s.first = TRUE /\ s.dest = (IF session.first THEN session.dest ELSE p.src)
          /\ s.hello = (IF session.hello = 0 THEN p.src ELSE session.hello)
          /\ s.done = session.done /\ s.state = session.state /\ s.reason = session.reason
       \/ /\ p.type = "EE" /\ session.hello = p.src /\ ~session.done
          /\ session.state = "open" /\ ClientAccepts(p)
          /\ s.first = session.first /\ s.dest = session.dest /\ s.hello = session.hello
          /\ s.done = TRUE /\ s.state = session.state /\ s.reason = session.reason
       \/ /\ ~session.done /\ s.first = session.first /\ s.dest = session.dest
          /\ s.hello = session.hello /\ s.done = session.done
          /\ session.state = "open" /\ s.state = "stopping" /\ s.reason = "tls"

LEMMA SessionTakes ==
    ASSUME session \in SessionType, NEW p, p.type = "SH" => p.src \in Nat,
           NEW s, s = SessionAfter(p)
    PROVE  Took(p, s)
<1> USE DEF Took
<1>1. CASE session.state # "open" \/ Unexpected(p)
  <2>1. s = session
    BY <1>1, ZenonT(30) DEF SessionAfter
  <2>2. QED
    BY <2>1, ZenonT(30)
<1>2. CASE /\ ~(session.state # "open" \/ Unexpected(p))
           /\ p.type = "SH" /\ p.key = session.key
  <2> DEFINE dest == IF session.first THEN session.dest ELSE p.src
             hello == IF session.hello = 0 THEN p.src ELSE session.hello
  <2>1. s = [session EXCEPT !.first = TRUE, !.dest = dest, !.hello = hello]
    BY <1>2, ZenonT(30) DEF SessionAfter, DestAfter
  <2>2. dest \in Nat /\ hello \in Nat
    BY <1>2, ZenonT(30) DEF SessionType
  <2> HIDE DEF dest, hello
  <2>3. /\ s \in SessionType /\ s.key = session.key /\ s.version = session.version
        /\ s.token = session.token /\ s.initial = session.initial
        /\ s.first = TRUE /\ s.dest = dest /\ s.hello = hello
        /\ s.done = session.done /\ s.state = session.state /\ s.reason = session.reason
    BY <2>1, <2>2, ZenonT(120) DEF SessionType
  <2>4. QED
    BY <1>2, <2>3, ZenonT(30) DEF dest, hello, Unexpected
<1>3. CASE /\ ~(session.state # "open" \/ Unexpected(p))
           /\ p.type = "EE" /\ session.hello = p.src /\ ~session.done
  <2>1. CASE ClientAccepts(p)
    <3>1. s = [session EXCEPT !.done = TRUE]
      BY <1>3, <2>1, ZenonT(30) DEF SessionAfter
    <3>2. QED
      BY <1>3, <2>1, <3>1, ZenonT(60) DEF SessionType
  <2>2. CASE ~ClientAccepts(p)
    <3>1. s = Closed(session, "tls")
      BY <1>3, <2>2, Zenon DEF SessionAfter
    <3>2. s = [session EXCEPT !.state = "stopping", !.reason = "tls"]
      BY <1>3, <3>1, ZenonT(60) DEF Closed
    <3>3. QED
      BY <1>3, <3>2, ZenonT(30) DEF SessionType
  <2>3. QED
    BY <2>1, <2>2, Zenon
<1>4. CASE /\ ~(session.state # "open" \/ Unexpected(p))
           /\ ~(p.type = "SH" /\ p.key = session.key)
           /\ ~(p.type = "EE" /\ session.hello = p.src /\ ~session.done)
  <2>1. s = session
    BY <1>4, Zenon DEF SessionAfter
  <2>2. QED
    BY <2>1, Zenon
<1>5. QED
    BY <1>1, <1>2, <1>3, <1>4, ZenonT(30)

\* A packet of the server: the first ServerHello fixes the connection ID that the
\* client sends to, and with the EncryptedExtensions the version is the best one of
\* both (session.handlePacketImpl, extensionHandlerClient).
LEMMA SessionHandlePacketKept ==
    ASSUME DialInv, NEW p \in net, p.type \in {"SH", "EE"}, SessionHandlePacket(p),
           UNCHANGED <<server, sessions>>
    PROVE  DialInv'
<1>1. /\ c \in ClientType /\ session \in SessionType /\ nextID \in Nat \ {0}
      /\ c' = [c EXCEPT !.negotiated = TRUE] /\ session' = SessionAfter(p)
      /\ net' = IF session'.done THEN net \cup {Fin(session')} ELSE net
      /\ nextID' = nextID
    BY Zenon DEF DialInv, DialTypes, SessionHandlePacket
<1>2. /\ c' \in ClientType /\ c'.pc = c.pc /\ c'.err = c.err /\ c'.version = c.version
      /\ c'.initial = c.initial /\ c'.dest = c.dest /\ c'.token = c.token
      /\ c'.negotiated = TRUE
    BY <1>1, Zenon DEF ClientType
<1>3. /\ p.type = "SH" => HelloOK(p)
      /\ p.type = "EE" => p.src # 0 /\ p.versions = server.versions
    BY Zenon DEF DialInv, PacketsOK
<1>4. Took(p, session')
  <2>1. p.type = "SH" => p.src \in Nat
    BY <1>3, ZenonT(30) DEF HelloOK
  <2>2. QED
    BY <1>1, <2>1, SessionTakes, ZenonT(60)
<1>5. p.type = "SH" /\ p.key = session.key /\ server.policy = "always" => c.token # 0
    BY <1>3, ZenonT(30) DEF HelloOK, DialInv, PacketsOK, InitialOK, SessionOK
<1>6. p.type = "SH" => p.src \in Nat \ {0}
    BY <1>3, Zenon DEF HelloOK
<1>7. session.hello \in Nat /\ session.dest \in Nat /\ session.first \in BOOLEAN
    BY <1>1, Zenon DEF SessionType
<1>8. session'.done /\ ~session.done =>
          /\ p.type = "EE" /\ session.hello = p.src /\ session.hello # 0
          /\ session'.version = ChooseSupportedVersion(ClientVersions, server.versions)
    BY <1>3, <1>4, ZenonT(30) DEF DialInv, SessionOK, ClientAccepts, Took
<1>9. session.done => session'.done /\ session'.hello = session.hello
    BY <1>4, <1>7, Zenon DEF Took, DialInv, SessionOK
<1>10. /\ session'.state = "open" => session.state = "open"
       /\ session'.state = "stopped" <=> session.state = "stopped"
       /\ session.done => session'.state = session.state
       /\ session'.reason = session.reason \/ session'.reason = "tls"
    BY <1>4, Zenon DEF Took
<1>11. DialTypes'
  <2>1. sessions \in Seq(ServerSession(net'))
    <3>1. net \subseteq net'
      BY <1>1, Zenon
    <3>2. QED
      BY <3>1, SessionsKept, Zenon DEF DialInv, DialTypes
  <2>2. session' \in SessionType /\ session'.key = session.key
    BY <1>4, Zenon DEF Took
  <2>3. QED
    BY <1>1, <1>2, <2>1, <2>2, ZenonT(60) DEF DialInv, DialTypes
<1>12. PacketsOK'
  <2> DEFINE new == Fin(session')
  <2>1. new.type = "Fin" /\ new.key = session'.hello
    BY Zenon DEF Fin
  <2> HIDE DEF new
  <2>2. Again' => Again
    BY <1>2, <1>10, Zenon DEF Again
  <2>3. session'.key = session.key /\ session'.token = session.token
    BY <1>4, Zenon DEF Took
  <2> SUFFICES ASSUME NEW q \in net'
               PROVE  /\ q.type = "Initial" => InitialOK(q)'
                      /\ q.type = "Retry" => RetryOK(q)'
                      /\ q.type = "SH" => HelloOK(q)'
                      /\ q.type = "EE" => q.src # 0 /\ q.versions = server.versions'
                      /\ q.type = "Fin" => session'.done /\ q.key = session'.hello
    BY Zenon DEF PacketsOK
  <2>4. CASE q \notin net
    BY <1>1, <2>1, <2>4, ZenonT(60) DEF new
  <2>5. CASE q \in net
    <3>1. q.type = "Initial" => InitialOK(q)'
      BY <1>1, <1>2, <2>2, <2>3, <2>5, SMTT(30), Z3T(30) DEF DialInv, PacketsOK, InitialOK
    <3>2. q.type = "Retry" => RetryOK(q)'
      <4>1. \A r \in net' : r.type = "Initial" => r \in net
        BY <1>1, <2>1, ZenonT(30) DEF new
      <4>2. QED
        BY <1>1, <1>2, <2>3, <2>5, <4>1, SMTT(30), Z3T(30) DEF DialInv, PacketsOK, RetryOK
    <3>3. q.type = "SH" => HelloOK(q)'
      <4>1. net \subseteq net'
        BY <1>1, Zenon
      <4>2. QED
        BY <2>5, <4>1, ZenonT(30) DEF DialInv, PacketsOK, HelloOK
    <3>4. QED
      BY <1>9, <2>5, <3>1, <3>2, <3>3, ZenonT(30) DEF DialInv, PacketsOK
  <2>6. QED
    BY <2>4, <2>5, Zenon
<1>13. ClientOK'
  <2>1. session'.done /\ ~session.done => session.state = "open" /\ session'.state = "open"
    BY <1>4, Zenon DEF Took
  <2>2. QED
    BY <1>2, <1>9, <1>10, <2>1, ZenonT(30) DEF DialInv, ClientOK
<1>14. SessionOK'
    BY <1>2, <1>4, <1>5, <1>6, <1>7, <1>8, ZenonT(120) DEF DialInv, SessionOK, Took
<1>15. Agreement'
  <2>1. session'.hello # 0 => session'.dest = session'.hello
    BY <1>14, Zenon DEF SessionOK
  <2>2. session'.done => session'.version = ChooseSupportedVersion(ClientVersions, server.versions)
    BY <1>4, <1>8, Zenon DEF DialInv, Agreement, Took
  <2>3. \A i \in DOMAIN sessions : sessions[i].complete =>
            session'.done /\ session'.hello = sessions[i].id
    BY <1>9, Zenon DEF DialInv, Agreement
  <2>4. QED
    BY <2>1, <2>2, <2>3, Zenon DEF Agreement, ChooseSupportedVersion
<1>16. QED
    BY <1>11, <1>12, <1>13, <1>14, <1>15, ZenonT(30) DEF DialInv

\* Packets of the server, for which it has generated the connection IDs below n.
Answers(ps, n) ==
    \A p \in ps :
       /\ p.type \in {"VN", "Retry", "SH", "EE"}
       /\ p.type = "Retry" => /\ p.src = nextID /\ nextID < n
                              /\ p.token \in Nat \ {0} /\ server.policy # "never"
       /\ p.type = "SH" => HelloOK(p)
       /\ p.type = "EE" => p.src # 0 /\ p.versions = server.versions

LEMMA ServerSends ==
    ASSUME DialInv, NEW ps, net' = net \cup ps, UNCHANGED <<c, session, server>>,
           nextID' \in {nextID, nextID + 1}, Answers(ps, nextID'),
           sessions' \in Seq(ServerSession(net')), Agreement'
    PROVE  DialInv'
<1>1. /\ nextID \in Nat \ {0} /\ nextID' \in Nat \ {0} /\ nextID' >= nextID /\ net \subseteq net'
      /\ c.dest \in Nat /\ session.key \in Nat /\ c.dest < nextID /\ session.key < nextID
    BY SMTT(30), Z3T(30) DEF DialInv, DialTypes, ClientType, SessionType
<1>2. \A q \in net' : q.type \in {"Initial", "Fin"} => q \in net
    BY Zenon DEF Answers
<1>3. DialTypes'
    BY <1>1, SMTT(30), Z3T(30) DEF DialInv, DialTypes
<1>4. PacketsOK'
  <2> SUFFICES ASSUME NEW p \in net'
               PROVE  /\ p.type = "Initial" => InitialOK(p)'
                      /\ p.type = "Retry" => RetryOK(p)'
                      /\ p.type = "SH" => HelloOK(p)'
                      /\ p.type = "EE" => p.src # 0 /\ p.versions = server.versions'
                      /\ p.type = "Fin" => session'.done /\ p.key = session'.hello
    BY Zenon DEF PacketsOK
  <2>1. p.type = "Initial" => InitialOK(p)'
    BY <1>1, <1>2, SMTT(30), Z3T(30) DEF DialInv, PacketsOK, InitialOK, Again
  <2>2. p.type = "Retry" => RetryOK(p)'
    <3>1. CASE p \in net
      BY <1>1, <1>2, <3>1, SMTT(30), Z3T(30) DEF DialInv, PacketsOK, RetryOK
    <3>2. CASE p \in ps
      <4>1. \A q \in net' : q.type = "Initial" => q.key \in Nat /\ q.key < nextID
        BY <1>2, Zenon DEF DialInv, PacketsOK, InitialOK
      <4>2. QED
        BY <1>1, <3>2, <4>1, SMTT(30), Z3T(30) DEF RetryOK, Answers
    <3>3. QED
      BY <3>1, <3>2, ZenonT(60)
  <2>3. p.type = "SH" => HelloOK(p)'
    <3>1. p.type = "SH" => HelloOK(p)
      BY Zenon DEF DialInv, PacketsOK, Answers
    <3>2. QED
      BY <1>1, <3>1, ZenonT(30) DEF HelloOK
  <2>4. QED
    BY <1>2, <2>1, <2>2, <2>3, ZenonT(60) DEF DialInv, PacketsOK, Answers
<1>5. ClientOK' /\ SessionOK'
    BY Zenon DEF DialInv, ClientOK, SessionOK
<1>6. QED
    BY <1>3, <1>4, <1>5, ZenonT(60) DEF DialInv

\* The answer of the server to an Initial (server.handlePacketImpl).
LEMMA HandleInitialKept ==
    ASSUME DialInv, NEW p \in net, HandleInitial(p)
    PROVE  DialInv'
<1>1. /\ p.type = "Initial" /\ p.dest \in Nat \ {0} /\ UNCHANGED <<c, session, server>>
      /\ sessions \in Seq(ServerSession(net)) /\ nextID \in Nat \ {0}
    BY Zenon DEF HandleInitial, SendVersionNegotiationPacket, SendRetry, CreateSession,
           DialInv, DialTypes, PacketsOK, InitialOK
<1>2. CASE SendVersionNegotiationPacket(p)
  <2> DEFINE vn == ComposeVersionNegotiation(p)
  <2>1. net' = net \cup {vn} /\ sessions' = sessions /\ nextID' = nextID
    BY <1>2, Zenon DEF SendVersionNegotiationPacket
  <2>2. vn.type = "VN"
    BY Zenon DEF ComposeVersionNegotiation
  <2> HIDE DEF vn
  <2>3. sessions' \in Seq(ServerSession(net'))
    BY <1>1, <2>1, SessionsKept, ZenonT(30)
  <2>4. Agreement'
    BY <1>1, <2>1, Zenon DEF DialInv, Agreement
  <2>5. Answers({vn}, nextID')
    BY <2>2, Zenon DEF Answers
  <2>6. QED
    BY <1>1, <2>1, <2>3, <2>4, <2>5, ServerSends, ZenonT(60)
<1>3. CASE Refused(p) /\ SendRetry(p)
  <2> DEFINE retry == [type |-> "Retry", src |-> nextID, dest |-> p.src,
                       orig |-> p.dest, token |-> NewToken(p)]
  <2>1. net' = net \cup {retry} /\ sessions' = sessions /\ nextID' = nextID + 1
    BY <1>3, Zenon DEF SendRetry
  <2>2. /\ retry.type = "Retry" /\ retry.src = nextID /\ retry.token \in Nat \ {0}
        /\ server.policy # "never"
    BY <1>1, <1>3, Zenon DEF NewToken, Refused
  <2> HIDE DEF retry
  <2>3. sessions' \in Seq(ServerSession(net'))
    BY <1>1, <2>1, SessionsKept, ZenonT(30)
  <2>4. Agreement'
    BY <1>1, <2>1, ZenonT(30) DEF DialInv, Agreement
  <2>5. Answers({retry}, nextID')
    BY <1>1, <2>1, <2>2, SMTT(30), Z3T(30) DEF Answers
  <2>6. QED
    BY <1>1, <2>1, <2>3, <2>4, <2>5, ServerSends, ZenonT(60)
<1>4. CASE Accepted(p) /\ CreateSession(p)
  <2> DEFINE hello == ServerHello(p)
             ee == EncryptedExtensions(p)
             answered == p.key = p.dest /\ p.hello /\ ServerAccepts(p)
             new == IF answered THEN {hello, ee} ELSE {}
             s == NewSession(p)
  <2>1. net' = net \cup new /\ sessions' = Append(sessions, s) /\ nextID' = nextID + 1
    BY <1>4, Zenon DEF CreateSession
  <2>2. /\ hello.type = "SH" /\ hello.src = nextID /\ hello.key = p.dest
        /\ ee.type = "EE" /\ ee.src = nextID /\ ee.versions = server.versions
    BY Zenon DEF ServerHello, EncryptedExtensions
  <2>3. s \in ServerSession(net) /\ s.complete = FALSE
    BY <1>1, Zenon DEF NewSession, ServerSession
  <2> HIDE DEF hello, ee, s
  <2>4. server.policy = "always" => p.token # 0
    BY <1>4, Zenon DEF Accepted
  <2>5. p.key = p.dest => HelloOK(hello)
    BY <1>1, <2>2, <2>4, ZenonT(30) DEF HelloOK
  <2>6. sessions' \in Seq(ServerSession(net))
    BY <1>1, <2>1, <2>3, SMTT(30), Z3T(30)
  <2>7. sessions' \in Seq(ServerSession(net'))
    BY <2>1, <2>6, SessionsKept, ZenonT(30)
  <2>8. Agreement'
    <3>1. \A i \in DOMAIN sessions' : sessions'[i].complete =>
              i \in DOMAIN sessions /\ sessions'[i] = sessions[i]
      BY <1>1, <2>1, <2>3, SMTT(30), Z3T(30)
    <3>2. QED
      BY <1>1, <3>1, ZenonT(30) DEF DialInv, Agreement
  <2>9. Answers(new, nextID')
    BY <1>1, <2>1, <2>2, <2>5, ZenonT(30) DEF Answers
  <2>10. QED
    <3> HIDE DEF new
    <3>1. QED
      BY <1>1, <2>1, <2>7, <2>8, <2>9, ServerSends, ZenonT(30)
<1>5. QED
    BY <1>2, <1>3, <1>4, ZenonT(30) DEF HandleInitial

\* A session of the server is added to the packetHandlerMap, or completes the
\* handshake, with the Finished of the session whose ServerHello it has sent.
LEMMA ServerSessionKept ==
    ASSUME DialInv, NEW i \in DOMAIN sessions,
           AddSession(i) \/ \E p \in net : ServerCompletes(p, i)
    PROVE  DialInv'
<1>1. /\ sessions \in Seq(ServerSession(net)) /\ UNCHANGED <<c, session, server, nextID, net>>
      /\ sessions[i] \in ServerSession(net)
    BY DEF DialInv, DialTypes, AddSession, ServerCompletes
<1>2. PICK s \in ServerSession(net) :
          /\ sessions' = [sessions EXCEPT ![i] = s] /\ s.id = sessions[i].id
          /\ s.complete => \/ sessions[i].complete
                           \/ session.done /\ session.hello = s.id
  <2>1. CASE AddSession(i)
    <3> DEFINE s == [sessions[i] EXCEPT !.added = TRUE]
    <3>1. sessions' = [sessions EXCEPT ![i] = s]
      BY <2>1, Zenon DEF AddSession
    <3>2. s \in ServerSession(net) /\ s.id = sessions[i].id /\ s.complete = sessions[i].complete
      BY <1>1, Zenon DEF ServerSession
    <3>3. QED
      BY <3>1, <3>2, Zenon
  <2>2. CASE \E p \in net : ServerCompletes(p, i)
    <3> DEFINE s == [sessions[i] EXCEPT !.complete = TRUE]
    <3>1. PICK p \in net : ServerCompletes(p, i)
      BY <2>2, Zenon
    <3>2. sessions' = [sessions EXCEPT ![i] = s] /\ p.type = "Fin" /\ p.key = sessions[i].id
      BY <3>1, ZenonT(30) DEF ServerCompletes
    <3>3. s \in ServerSession(net) /\ s.id = sessions[i].id
      BY <1>1, ZenonT(30) DEF ServerSession
    <3>4. session.done /\ session.hello = sessions[i].id
      BY <3>2, Zenon DEF DialInv, PacketsOK
    <3>5. QED
      BY <3>2, <3>3, <3>4, ZenonT(30)
  <2>3. QED
    BY <2>1, <2>2, Zenon
<1>3. sessions' \in Seq(ServerSession(net))
    BY <1>1, <1>2, SMTT(30), Z3T(30)
<1>4. Agreement'
  <2>1. ASSUME NEW j \in DOMAIN sessions', sessions'[j].complete
        PROVE  session.done /\ session.hello = sessions'[j].id
    <3>1. j \in DOMAIN sessions
      BY <1>1, <1>2, Zenon
    <3>2. CASE j = i
      BY <1>1, <1>2, <2>1, <3>1, <3>2, ZenonT(30) DEF DialInv, Agreement
    <3>3. CASE j # i
      BY <1>1, <1>2, <2>1, <3>1, <3>3, ZenonT(30) DEF DialInv, Agreement
    <3>4. QED
      BY <3>2, <3>3, ZenonT(30)
  <2>2. QED
    BY <1>1, <2>1, ZenonT(30) DEF DialInv, Agreement
<1>5. PacketsOK'
    BY <1>1, PacketsKept, SMTT(30), Z3T(30) DEF DialInv, DialTypes, Again
<1>6. DialTypes' /\ ClientOK' /\ SessionOK'
    BY <1>1, <1>3, ZenonT(30) DEF DialInv, DialTypes, ClientOK, SessionOK
<1>7. QED
    BY <1>4, <1>5, <1>6, ZenonT(30) DEF DialInv

LEMMA DialInvKept ==
    ASSUME DialConstants
    PROVE  DialInv /\ [Next]_vars => DialInv'
<1> SUFFICES ASSUME DialInv, [Next]_vars PROVE DialInv'
    BY Zenon
<1>1. ASSUME UNCHANGED <<c, session, server, sessions, nextID, net>>
      PROVE  DialInv'
    BY <1>1, ZenonT(120)
    DEF DialInv, DialTypes, PacketsOK, InitialOK, RetryOK, HelloOK, Again, ClientOK,
                SessionOK, Agreement
<1>2. ASSUME NEW p \in net, ClientReceive(p)
      PROVE  DialInv'
    BY <1>2, VersionNegotiationKept, RetryKept, SessionHandlePacketKept, Zenon
    DEF ClientReceive
<1>3. CASE ClientStep \/ SendInitial \/ Cancel
    BY <1>3, CreateNewTLSSessionKept, SendInitialKept, ClientStepKept, Zenon DEF ClientStep
<1>4. CASE \E id \in cTimers : DeleteClientHandler(id)
    BY <1>1, <1>4, Zenon DEF DeleteClientHandler
<1>5. CASE UNCHANGED vars
    BY <1>1, <1>5, Zenon DEF vars
<1>6. QED
    BY <1>2, <1>3, <1>4, <1>5, HandleInitialKept, ServerSessionKept, Zenon DEF Next

LEMMA DialInvHolds ==
    ASSUME DialConstants
    PROVE  Spec => []DialInv
<1>1. Init => DialInv
  <2> SUFFICES ASSUME Init PROVE DialInv
    BY Zenon
  <2>1. /\ ClientVersions[1] \in Versions /\ ClientVersions[1] # "none" /\ "none" \in Versions
    BY SMTT(30), Z3T(30) DEF DialConstants, Ran, Versions
  <2>2. c \in ClientType /\ c.pc = "create" /\ c.err = "none" /\ c.version # c.initial /\ c.dest = 2
    BY <2>1, SMTT(30), Z3T(30) DEF Init, ClientType
  <2>3. /\ session \in SessionType /\ session.key = 0 /\ session.hello = 0 /\ session.token = 0
        /\ session.first = FALSE /\ session.done = FALSE /\ session.state = "stopped"
    BY <2>1, Zenon DEF Init, NoSession, SessionType
  <2>4. server.policy \in {"always", "never"}
    BY ZenonT(30) DEF Init, DialConstants
  <2>5. sessions = <<>> /\ net = {} /\ nextID = 3
    BY Zenon DEF Init
  <2>6. DialTypes
    BY <2>2, <2>3, <2>4, <2>5, SMTT(30), Z3T(30) DEF DialTypes
  <2>7. PacketsOK /\ ClientOK /\ SessionOK /\ Agreement
    BY <2>2, <2>3, <2>5, SMTT(30), Z3T(30) DEF PacketsOK, ClientOK, SessionOK, Agreement
  <2>8. QED
    BY <2>6, <2>7, Zenon DEF DialInv
<1>2. QED
    BY <1>1, DialInvKept, PTL DEF Spec

\* Client and server agree, for any versions of both, any number of copies of any
\* packet and any order of their arrival, with and without a Retry: on the
\* connection IDs, on the session, and on the best version of both (dial,
\* handlePacketImpl, handleInitialImpl).
THEOREM DialAgrees ==
    ASSUME DialConstants
    PROVE  Spec => []Agreement
<1>1. DialInv => Agreement
    BY ZenonT(30) DEF DialInv
<1>2. QED
    BY <1>1, DialInvHolds, PTL

\* No late or repeated Retry or Version Negotiation packet, and no cancelled
\* context, tears down a session that dial has returned, if the server asks every
\* client for a cookie or none (handleRetryPacket, establishSecureConnection).
THEOREM DialedSessionStays ==
    ASSUME DialConstants
    PROVE  Spec => []EstablishedStays
<1>1. DialInv => EstablishedStays
    BY Zenon DEF DialInv, ClientOK, EstablishedStays
<1>2. QED
    BY <1>1, DialInvHolds, PTL

-----------------------------------------------------------------------------
(* Listener *)

\* A run loop is started before handleInitial adds its session, and a timer of
\* packetHandlerMap.Remove is only started for a run loop that has stopped.
ListenerInv ==
    /\ initial \in [Sessions -> {"none", "started", "created", "added"}]
    /\ sess \in [Sessions -> {"none", "handshaking", "queueing", "open", "stopped"}]
    /\ handlers \in [Sessions -> {"absent", "session", "nil"}]
    /\ \A i \in Sessions :
          /\ initial[i] \in {"none", "started"} <=> sess[i] = "none"
          /\ i \in timers => sess[i] = "stopped"
    /\ SessionReachable

LEMMA ListenerInvKept == ListenerInv /\ [ListenerNext]_listenerVars => ListenerInv'
<1> SUFFICES ASSUME ListenerInv, [ListenerNext]_listenerVars PROVE ListenerInv'
    BY Zenon
<1> USE DEF ListenerInv, SessionReachable, Running
<1>1. ASSUME NEW i \in Sessions, HandlePacket(i)
      PROVE  ListenerInv'
    BY <1>1, ZenonT(30) DEF HandlePacket
<1>2. ASSUME NEW i \in Sessions, CreateNewSession(i)
      PROVE  ListenerInv'
    BY <1>2, ZenonT(30) DEF CreateNewSession
<1>3. ASSUME NEW i \in Sessions, Add(i)
      PROVE  ListenerInv'
    BY <1>3, ZenonT(30) DEF Add
<1>4. ASSUME NEW i \in Sessions, HandleHandshakeComplete(i) \/ OnHandshakeComplete(i)
      PROVE  ListenerInv'
    BY <1>4, SMTT(30), Z3T(30) DEF HandleHandshakeComplete, OnHandshakeComplete
<1>5. ASSUME NEW i \in Sessions, StopLoop(i) \/ SessionClosed(i)
      PROVE  ListenerInv'
    BY <1>5, SMTT(30), Z3T(30) DEF StopLoop, SessionClosed, Remove
<1>6. ASSUME NEW i \in Sessions, DeleteHandler(i)
      PROVE  ListenerInv'
    BY <1>6, ZenonT(30) DEF DeleteHandler
<1>7. ASSUME UNCHANGED <<initial, sess, handlers, timers>>
      PROVE  ListenerInv'
    BY <1>7, Zenon
<1> HIDE DEF ListenerInv, SessionReachable, Running
<1>8. ASSUME NEW i \in Sessions, CloseSession(i) PROVE ListenerInv'
    <2>1. UNCHANGED <<initial, sess, handlers, timers>>
        BY <1>8, Zenon DEF CloseSession
    <2>2. QED
        BY <1>7, <2>1, Zenon
<1>9. ASSUME NEW a, Accept(a) \/ AcceptFails(a) PROVE ListenerInv'
    <2>1. UNCHANGED <<initial, sess, handlers, timers>>
        BY <1>9, ZenonT(30) DEF Accept, AcceptFails
    <2>2. QED
        BY <1>7, <2>1, Zenon
<1>10. ASSUME NEW k, CallClose(k) \/ CloserStep(k) PROVE ListenerInv'
    <2>1. UNCHANGED <<initial, sess, handlers, timers>>
        BY <1>10, ZenonT(30) DEF CallClose, CloserStep, CloseServer, CloseReturns, CloseAgain
    <2>2. QED
        BY <1>7, <2>1, Zenon
<1>11. CASE UNCHANGED listenerVars
    <2>1. UNCHANGED <<initial, sess, handlers, timers>>
        BY <1>11, Zenon DEF listenerVars
    <2>2. QED
        BY <1>7, <2>1, Zenon
<1>12. QED
    BY <1>1, <1>2, <1>3, <1>4, <1>5, <1>6, <1>8, <1>9, <1>10, <1>11, ZenonT(60)
    DEF ListenerNext, GoroutineStep

\* Packets reach a session as long as its run loop runs, for any number of
\* sessions and of goroutines in Accept and Close: no Close and no timer takes its
\* connection ID away (packetHandlerMap.Remove, handleInitial).
THEOREM SessionStaysReachable == ListenerSpec => []SessionReachable
<1>1. ListenerInit => ListenerInv
    BY DEF ListenerInit, ListenerInv, SessionReachable, Running
<1>2. ListenerInv => SessionReachable
    BY Zenon DEF ListenerInv
<1>3. QED
    BY <1>1, <1>2, ListenerInvKept, PTL DEF ListenerSpec

=============================================================================
