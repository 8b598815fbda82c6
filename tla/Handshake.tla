------------------------------ MODULE Handshake ------------------------------
(***************************************************************************)
(* The cryptographic handshake of a client and a server session over a     *)
(* network that loses, duplicates and reorders packets.  At each endpoint  *)
(* three goroutines meet: the session's run loop, which packs and unpacks  *)
(* packets and feeds CRYPTO data to cryptoSetup.HandleMessage; the         *)
(* goroutine inside qtls' Handshake(), which reads messages from           *)
(* messageChan and hands keys and transport parameters over on unbuffered  *)
(* channels; and RunHandshake, which waits for the outcome.                *)
(*                                                                         *)
(* The network keeps every packet that was sent: one may be received late, *)
(* again and again, or never.  The receivedPackets channel belongs to it,  *)
(* a full channel loses packets.  A CRYPTO stream is counted in units, so  *)
(* that messages and frames need not coincide.                             *)
(* Encryption levels are 1 (Initial), 2 (Handshake) and 3 (1-RTT).         *)
(***************************************************************************)
EXTENDS Integers, Sequences, FiniteSets, FiniteSetsExt

CONSTANTS
    MaxFrame,         \* units of CRYPTO data that fit into a packet
    MaxUndecryptable, \* protocol.MaxUndecryptablePackets
    Closers,          \* endpoints that may close during the handshake
    MayFail           \* endpoints whose TLS stack may reject the peer

ASSUME HandshakeAssumption ==
    /\ MaxFrame \in Nat \ {0} /\ MaxUndecryptable \in Nat
    /\ Closers \subseteq {"client", "server"} /\ MayFail \subseteq {"client", "server"}

Endpoints == {"client", "server"}
Peer(e) == IF e = "client" THEN "server" ELSE "client"

VARIABLES
    tls,     \* qtls: steps of Script(e) done, and "running", "ok" or "err"
    runner,  \* RunHandshake: "select", "drain" (after closeChan) or "returned"
    loop,    \* run loop: pc, the level it reads, the channels it waits for
    msgs,    \* messageChan: its content, and whether it is closed
    errs,    \* whether handshakeErrChan is closed
    keys,    \* the levels of the newest read and write key
    in,      \* receiving CRYPTO streams: units, messages handled, finished
    out,     \* sending CRYPTO streams: units written by TLS, and packed
    undec,   \* undecryptablePackets
    sess,    \* flags of the session, the packer and the handlers
    sent,    \* packets the sentPacketHandlers would retransmit
    net      \* every packet that was sent

vars == <<tls, runner, loop, msgs, errs, keys, in, out, undec, sess, sent, net>>

-----------------------------------------------------------------------------
(* qtls, as cryptoSetup uses it *)

Write(m) == [op |-> "write", arg |-> m]
Read(m) == [op |-> "read", arg |-> m]
Hand(c) == [op |-> "hand", arg |-> c]   \* SetReadKey, SetWriteKey, paramsChan

Script(e) ==
    IF e = "client"
    THEN <<Write("CH"), Read("SH"), Hand("readKey"), Read("EE"), Hand("params"),
           Read("Cert"), Read("Fin"), Hand("writeKey"), Write("Fin"),
           Hand("writeKey"), Hand("readKey")>>
    ELSE <<Read("CH"), Hand("params"), Write("SH"), Hand("writeKey"), Write("EE"),
           Write("Cert"), Write("Fin"), Hand("writeKey"), Hand("readKey"),
           Read("Fin"), Hand("readKey")>>

\* The messages e sends at a level, and their lengths.
Flight(e, l) ==
    CASE l = 1 /\ e = "client" -> <<"CH">>
      [] l = 1 /\ e = "server" -> <<"SH">>
      [] l = 2 /\ e = "client" -> <<"Fin">>
      [] l = 2 /\ e = "server" -> <<"EE", "Cert", "Fin">>

Size(m) == CASE m = "CH" -> 3 [] m = "Cert" -> 2 [] OTHER -> 1
End(e, l, k) == MapThenSumSet(LAMBDA i : Size(Flight(e, l)[i]), 1..k)

Running(e) == tls[e].state = "running" /\ tls[e].pc < Len(Script(e))
Step(e) == Script(e)[tls[e].pc + 1]
Advance(e) ==
    tls' = [tls EXCEPT ![e].pc = @ + 1,
                       ![e].state = IF tls[e].pc + 1 = Len(Script(e)) THEN "ok" ELSE @]

\* ReadHandshakeMessage: TLS takes the next message, and may find it wanting.
TLSRead(e) ==
    /\ Running(e) /\ Step(e).op = "read" /\ msgs[e].chan # <<>>
    /\ msgs' = [msgs EXCEPT ![e].chan = Tail(@)]
    /\ \/ Advance(e)
       \/ e \in MayFail /\ tls' = [tls EXCEPT ![e].state = "err"]
    /\ UNCHANGED <<runner, loop, errs, keys, in, out, undec, sess, sent, net>>

\* ReadHandshakeMessage, of a channel that is closed.
TLSReadClosed(e) ==
    /\ Running(e) /\ Step(e).op = "read" /\ msgs[e].chan = <<>> /\ msgs[e].closed
    /\ tls' = [tls EXCEPT ![e].state = "err"]
    /\ UNCHANGED <<runner, loop, msgs, errs, keys, in, out, undec, sess, sent, net>>

\* WriteRecord; the first one tells the client's session to start sending.
WriteRecord(e) ==
    /\ Running(e) /\ Step(e).op = "write"
    /\ Advance(e)
    /\ out' = [out EXCEPT ![e][keys[e].write].written = @ + Size(Step(e).arg)]
    /\ loop' = IF e = "client" /\ loop[e].pc = "hello"
               THEN [loop EXCEPT ![e].pc = "select"] ELSE loop
    /\ UNCHANGED <<runner, msgs, errs, keys, in, undec, sess, sent, net>>

-----------------------------------------------------------------------------
(* RunHandshake and Close *)

\* closeOnce: the first reason to close counts.
CloseOnce(old, new) == IF old = "no" THEN new ELSE old

\* Mutant of HandshakeAborted: messageChan is left open.
HandshakeAbortedQuietly(e) ==
    /\ runner[e] = "select" /\ loop[e].pc \in {"close", "stopped"}
    /\ runner' = [runner EXCEPT ![e] = "drain"]
    /\ UNCHANGED <<tls, loop, msgs, errs, keys, in, out, undec, sess, sent, net>>

\* case <-h.closeChan
HandshakeAborted(e) ==
    /\ runner[e] = "select" /\ loop[e].pc \in {"close", "stopped"}
    /\ runner' = [runner EXCEPT ![e] = "drain"]
    /\ msgs' = [msgs EXCEPT ![e].closed = TRUE]
    /\ UNCHANGED <<tls, loop, errs, keys, in, out, undec, sess, sent, net>>

\* case <-handshakeComplete, after which run closes handshakeCompleteChan.
HandshakeReturned(e) ==
    /\ runner[e] = "select" /\ tls[e].state = "ok"
    /\ runner' = [runner EXCEPT ![e] = "returned"]
    /\ sess' = [sess EXCEPT ![e].done = TRUE]
    /\ UNCHANGED <<tls, loop, msgs, errs, keys, in, out, undec, sent, net>>

\* case err := <-handshakeErrChan, also when it was waited for after closeChan;
\* run closes the session with the error.
HandshakeFailed(e) ==
    /\ runner[e] # "returned" /\ tls[e].state = "err"
    /\ runner' = [runner EXCEPT ![e] = "returned"]
    /\ errs' = [errs EXCEPT ![e] = @ \/ runner[e] = "select"]
    /\ sess' = [sess EXCEPT ![e].close = CloseOnce(@, "local")]
    /\ UNCHANGED <<tls, loop, msgs, keys, in, out, undec, sent, net>>

-----------------------------------------------------------------------------
(* HandleMessage *)

\* Mutant of Waits: the client takes the read key between the write keys.
WaitsSwapped(e, m) ==
    CASE m = "CH" -> <<"params", "writeKey", "writeKey", "readKey">>
      [] m = "SH" -> <<"readKey">>
      [] m = "EE" -> <<"params">>
      [] m = "Cert" -> <<>>
      [] m = "Fin" /\ e = "client" -> <<"writeKey", "readKey", "writeKey">>
      [] m = "Fin" /\ e = "server" -> <<"readKey">>

\* handleMessageForClient, handleMessageForServer: what they wait for.
Waits(e, m) ==
    CASE m = "CH" -> <<"params", "writeKey", "writeKey", "readKey">>
      [] m = "SH" -> <<"readKey">>
      [] m = "EE" -> <<"params">>
      [] m = "Cert" -> <<>>
      [] m = "Fin" /\ e = "client" -> <<"writeKey", "writeKey", "readKey">>
      [] m = "Fin" /\ e = "server" -> <<"readKey">>

\* The messages after which their level is finished.
LastOfLevel(m) == m \in {"CH", "SH", "Fin"}

CheckEncryptionLevel(m, l) == l = IF m \in {"CH", "SH"} THEN 1 ELSE 2

\* Mutant of TryDecryptingQueuedPackets: nobody looks at the queue again.
ForgetQueuedPackets(e) == UNCHANGED undec

\* tryDecryptingQueuedPackets: back into receivedPackets, if there is room.
TryDecryptingQueuedPackets(e) == undec' = [undec EXCEPT ![e] = {}]

\* The end of HandleMessage: cryptoStreamManager goes on with the next message,
\* or, after the last of the level, finishes the stream.
MessageHandled(e) ==
    LET l == loop[e].level IN
    IF LastOfLevel(loop[e].msg) /\ ~errs[e]
    THEN /\ loop' = [loop EXCEPT ![e].pc = "select", ![e].waits = <<>>]
         /\ in' = [in EXCEPT ![e][l].finished = TRUE]
         /\ TryDecryptingQueuedPackets(e)
    ELSE /\ loop' = [loop EXCEPT ![e].pc = "crypto", ![e].waits = <<>>]
         /\ UNCHANGED <<in, undec>>

\* GetCryptoData and HandleMessage, for the next complete message.  The flights
\* of the peer hold no message of a wrong level, which HandleMessage would answer
\* with an error (messageErrChan).
HandleMessage(e) ==
    LET l == loop[e].level
        k == in[e][l].handled + 1
        m == Flight(Peer(e), l)[k]
    IN  /\ loop[e].pc = "crypto"
        /\ k \in DOMAIN Flight(Peer(e), l) /\ 1..End(Peer(e), l, k) \subseteq in[e][l].got
        /\ CheckEncryptionLevel(m, l)
        /\ in' = [in EXCEPT ![e][l].handled = k]
        /\ msgs' = [msgs EXCEPT ![e].chan = Append(@, m)]
        /\ loop' = [loop EXCEPT ![e].msg = m, ![e].waits = Waits(e, m),
                                ![e].pc = IF Waits(e, m) = <<>> THEN "crypto" ELSE "wait"]
        /\ UNCHANGED <<tls, runner, errs, keys, out, undec, sess, sent, net>>

\* GetCryptoData returns nil.
NoMoreMessages(e) ==
    LET l == loop[e].level
        k == in[e][l].handled + 1
    IN  /\ loop[e].pc = "crypto"
        /\ ~ (/\ k \in DOMAIN Flight(Peer(e), l)
              /\ 1..End(Peer(e), l, k) \subseteq in[e][l].got)
        /\ loop' = [loop EXCEPT ![e].pc = "select"]
        /\ UNCHANGED <<tls, runner, msgs, errs, keys, in, out, undec, sess, sent, net>>

\* TLS and the run loop meet on a channel; SetReadKey and SetWriteKey install
\* the key of the next level first.
HandOver(e) ==
    /\ Running(e) /\ Step(e).op = "hand"
    /\ loop[e].pc = "wait" /\ Head(loop[e].waits) = Step(e).arg
    /\ Advance(e)
    /\ keys' = CASE Step(e).arg = "readKey" -> [keys EXCEPT ![e].read = @ + 1]
                 [] Step(e).arg = "writeKey" -> [keys EXCEPT ![e].write = @ + 1]
                 [] OTHER -> keys
    /\ IF Len(loop[e].waits) > 1
       THEN /\ loop' = [loop EXCEPT ![e].waits = Tail(@)]
            /\ UNCHANGED <<in, undec>>
       ELSE MessageHandled(e)
    /\ UNCHANGED <<runner, msgs, errs, out, sess, sent, net>>

\* case <-h.handshakeErrChan
GiveUpWaiting(e) ==
    /\ loop[e].pc = "wait" /\ errs[e]
    /\ MessageHandled(e)
    /\ UNCHANGED <<tls, runner, msgs, errs, keys, out, sess, sent, net>>

-----------------------------------------------------------------------------
(* The run loop *)

Packet(e, l, kind, units) == [from |-> e, level |-> l, kind |-> kind, units |-> units]

\* What a decrypted packet changes, CONNECTION_CLOSE (closeRemote) included.
SessAfter(e, p) ==
    [sess[e] EXCEPT !.first = TRUE,
                    !.close = IF p.kind = "close" THEN CloseOnce(@, "remote") ELSE @,
                    !.ack = @ \/ p.kind \in {"crypto", "ping"},
                    !.secure = @ \/ (e = "client" /\ p.level = 3)]

HandshakePackets(e) == {q \in sent : q.from = e /\ q.level < 3}

\* tryQueueingUndecryptablePacket.
TryQueueing(e, p) ==
    /\ undec' = IF sess[e].complete \/ Cardinality(undec[e]) + 1 > MaxUndecryptable
                THEN undec ELSE [undec EXCEPT ![e] = @ \cup {p}]
    /\ UNCHANGED <<loop, in, sess, sent>>

\* handlePacketImpl, up to the CRYPTO messages that have become complete.
Unpacked(e, p) ==
    /\ sess' = [sess EXCEPT ![e] = SessAfter(e, p)]
    /\ sent' = IF sess'[e].secure /\ ~sess[e].secure
               THEN sent \ HandshakePackets(e) ELSE sent
    /\ IF p.kind = "crypto" /\ ~in[e][p.level].finished
       THEN /\ in' = [in EXCEPT ![e][p.level].got = @ \cup p.units]
            /\ loop' = [loop EXCEPT ![e].pc = "crypto", ![e].level = p.level]
       ELSE UNCHANGED <<in, loop>>
    /\ UNCHANGED undec

\* OpenInitial, OpenHandshake and Open1RTT need the key of the level.
CanOpen(e, p) == p.level <= keys[e].read

ReceivePacket(e, p) ==
    /\ loop[e].pc = "select" /\ p.from = Peer(e)
    /\ IF CanOpen(e, p) THEN Unpacked(e, p) ELSE TryQueueing(e, p)
    /\ UNCHANGED <<tls, runner, msgs, errs, keys, out, net>>

\* The level maybePackCryptoPacket takes data from, 0 if there is none.
CryptoLevel(e) ==
    CASE out[e][1].written > out[e][1].packed -> 1
      [] out[e][1].written = out[e][1].packed /\ out[e][2].written > out[e][2].packed -> 2
      [] OTHER -> 0

\* PopCryptoFrame and the packet that carries the frame, with an ACK if one is
\* due.
PackCrypto(e) ==
    LET l == CryptoLevel(e)
        n == Min({out[e][l].written, out[e][l].packed + MaxFrame})
        p == Packet(e, l, "crypto", out[e][l].packed + 1 .. n)
    IN  /\ loop[e].pc = "select" /\ l > 0
        /\ out' = [out EXCEPT ![e][l].packed = n]
        /\ sent' = sent \cup {p} /\ net' = net \cup {p}
        /\ sess' = [sess EXCEPT ![e].sent = TRUE, ![e].ack = FALSE]
        /\ UNCHANGED <<tls, runner, loop, msgs, errs, keys, in, undec>>

\* Mutant of HasSentPacket: any packet may be the first.
AnyPacketFirst(e) == TRUE

\* "if this is the first packet to be send, make sure it contains stream data"
HasSentPacket(e) == sess[e].sent

\* GetSealer: the newest level.
SealerLevel(e) == keys[e].write

\* PackPacket without CRYPTO data, at the newest level: an ACK, and the PING
\* that handleHandshakeComplete queued.
PackOther(e) ==
    LET kind == IF sess[e].ping THEN "ping" ELSE "ack"
        p == Packet(e, SealerLevel(e), kind, {})
    IN  /\ loop[e].pc = "select" /\ CryptoLevel(e) = 0 /\ HasSentPacket(e)
        /\ sess[e].ack \/ sess[e].ping
        /\ net' = net \cup {p}
        /\ sent' = IF kind = "ping" THEN sent \cup {p} ELSE sent
        /\ sess' = [sess EXCEPT ![e].sent = TRUE, ![e].ack = FALSE, ![e].ping = FALSE]
        /\ UNCHANGED <<tls, runner, loop, msgs, errs, keys, in, out, undec>>

\* Mutant of Retransmitted: the server stops sending Initials, too.
NoInitialsAfterFirst(p) ==
    /\ p \in sent /\ loop[p.from].pc = "select"
    /\ ~ (sess[p.from].first /\ p.level = 1)

\* maybeSendRetransmission and sendProbePacket: the client sends no Initial
\* after the server's first packet.
Retransmitted(p) ==
    /\ p \in sent /\ loop[p.from].pc = "select"
    /\ ~ (p.from = "client" /\ sess[p.from].first /\ p.level = 1)

\* handleHandshakeComplete.
HandleHandshakeComplete(e) ==
    /\ loop[e].pc = "select" /\ sess[e].done /\ ~sess[e].complete
    /\ sess' = [sess EXCEPT ![e].complete = TRUE, ![e].ping = (e = "server")]
    /\ sent' = IF e = "server" THEN sent \ HandshakePackets(e) ELSE sent
    /\ UNCHANGED <<tls, runner, loop, msgs, errs, keys, in, out, undec, net>>

\* closeLocal, by the application or a timeout, from outside the model.  The
\* server's session is created for an Initial.
CloseLocal(e) ==
    /\ e \in Closers /\ sess[e].close = "no" /\ (e = "server" => net # {})
    /\ sess' = [sess EXCEPT ![e].close = "local"]
    /\ UNCHANGED <<tls, runner, loop, msgs, errs, keys, in, out, undec, sent, net>>

\* The run loop ends: CONNECTION_CLOSE, removeConnectionID, and
\* cryptoSetup.Close, which closes closeChan.  The client may not have come to
\* its loop yet.
StopLoop(e) ==
    /\ loop[e].pc \in {"select", "hello"} /\ sess[e].close # "no"
    /\ loop' = [loop EXCEPT ![e].pc = "close"]
    /\ net' = IF sess[e].close = "local"
              THEN net \cup {Packet(e, SealerLevel(e), "close", {})} ELSE net
    /\ sent' = {q \in sent : q.from # e}
    /\ UNCHANGED <<tls, runner, msgs, errs, keys, in, out, undec, sess>>

\* <-h.handshakeDone
CloseReturns(e) ==
    /\ loop[e].pc = "close" /\ tls[e].state # "running"
    /\ loop' = [loop EXCEPT ![e].pc = "stopped"]
    /\ UNCHANGED <<tls, runner, msgs, errs, keys, in, out, undec, sess, sent, net>>

-----------------------------------------------------------------------------
Init ==
    /\ tls = [e \in Endpoints |-> [pc |-> 0, state |-> "running"]]
    /\ runner = [e \in Endpoints |-> "select"]
    /\ loop = [e \in Endpoints |-> [pc |-> IF e = "client" THEN "hello" ELSE "select",
                                    level |-> 1, msg |-> "none", waits |-> <<>>]]
    /\ msgs = [e \in Endpoints |-> [chan |-> <<>>, closed |-> FALSE]]
    /\ errs = [e \in Endpoints |-> FALSE]
    /\ keys = [e \in Endpoints |-> [read |-> 1, write |-> 1]]
    /\ in = [e \in Endpoints |-> [l \in 1..2 |-> [got |-> {}, handled |-> 0,
                                                 finished |-> FALSE]]]
    /\ out = [e \in Endpoints |-> [l \in 1..2 |-> [written |-> 0, packed |-> 0]]]
    /\ undec = [e \in Endpoints |-> {}]
    /\ sess = [e \in Endpoints |-> [done |-> FALSE, complete |-> FALSE, close |-> "no",
                                    first |-> FALSE, secure |-> FALSE, sent |-> FALSE,
                                    ack |-> FALSE, ping |-> FALSE]]
    /\ sent = {} /\ net = {}

TLSStep(e) == TLSRead(e) \/ TLSReadClosed(e) \/ WriteRecord(e) \/ HandOver(e)

RunnerStep(e) == HandshakeAborted(e) \/ HandshakeReturned(e) \/ HandshakeFailed(e)

\* The run loop inside handlePacketImpl, and inside cryptoSetup.Close.
HandlerStep(e) ==
    HandleMessage(e) \/ NoMoreMessages(e) \/ GiveUpWaiting(e) \/ CloseReturns(e)

\* What an iteration of the run loop does without being sent a packet.
LoopStep(e) == PackCrypto(e) \/ HandleHandshakeComplete(e) \/ StopLoop(e)

Next ==
    \/ \E e \in Endpoints :
          \/ TLSStep(e) \/ RunnerStep(e) \/ HandlerStep(e) \/ LoopStep(e)
          \/ PackOther(e) \/ CloseLocal(e)
          \/ \E p \in net : ReceivePacket(e, p)

Spec == Init /\ [][Next]_vars

\* Every packet there can be.
Packets ==
    {Packet(e, l, "crypto", a..b) : e \in Endpoints, l \in 1..2, a \in 1..4, b \in 1..4}
        \cup {Packet(e, l, kind, {}) : e \in Endpoints, l \in 1..3,
                                      kind \in {"ack", "ping", "close"}}

\* Goroutines keep running, and every iteration of the run loop sends.  While
\* data the peer has not got is retransmitted, some of it arrives in the end.
Fairness ==
    \A e \in Endpoints :
        /\ WF_vars(TLSStep(e)) /\ WF_vars(RunnerStep(e)) /\ WF_vars(HandlerStep(e))
        /\ SF_vars(LoopStep(e))
        /\ SF_vars(\E p \in net : Retransmitted(p) /\ ReceivePacket(e, p) /\ in' # in)

FairSpec == Spec /\ Fairness

-----------------------------------------------------------------------------
\* Type invariant.
TypeOK ==
    /\ \A e \in Endpoints :
          /\ tls[e].pc \in 0..Len(Script(e)) /\ tls[e].state \in {"running", "ok", "err"}
          /\ runner[e] \in {"select", "drain", "returned"}
          /\ loop[e].pc \in {"hello", "select", "crypto", "wait", "close", "stopped"}
          /\ keys[e] \in [read : 1..3, write : 1..3]
          /\ sess[e].close \in {"no", "local", "remote"}
          /\ undec[e] \subseteq Packets
    /\ sent \subseteq Packets /\ net \subseteq Packets

\* "While the order of these two is not defined by the TLS spec, we have to do
\* it on the same order as our TLS library does it": when TLS hands over a key
\* or the transport parameters, the run loop is waiting for just that.  What TLS
\* reads from messageChan is the message it expects, though the messages come
\* from two CRYPTO streams.  And TLS writes to the crypto streams, which have no
\* lock, only while the run loop does not pack packets.
InStep ==
    \A e \in Endpoints : Running(e) =>
        /\ Step(e).op = "hand" =>
              loop[e].pc = "wait" /\ Head(loop[e].waits) = Step(e).arg
        /\ Step(e).op = "read" /\ msgs[e].chan # <<>> => Head(msgs[e].chan) = Step(e).arg
        /\ Step(e).op = "write" => loop[e].pc \in {"hello", "wait", "close"}

\* A packet that arrived before its key is not left behind: when the run loop
\* comes back to its select statement, no packet is queued whose key is there.
NothingLeftBehind ==
    \A e \in Endpoints : loop[e].pc = "select" =>
        \A p \in undec[e] : p.level > keys[e].read

\* "As soon as we receive one response, we don't need to send any more
\* Initials": the client, unless it is closing, stops retransmitting its
\* ClientHello only when the server has all of it, though the server may have
\* received it in pieces.
HelloArrived ==
    sess["client"].first /\ sess["client"].close = "no" => in["server"][1].handled = 1

\* The client's handshake completes, unless one side closes, over every loss,
\* duplication and reordering, the packets that come before their keys or do
\* not fit into the queue included.
ClientCompletes ==
    <>(sess["client"].complete \/ \E e \in Endpoints : sess[e].close # "no")

\* cryptoSetup.Close "wait[s] until qtls.Handshake() actually returned", and does
\* return, whatever TLS was doing when the session closed.
CloseCompletes == \A e \in Endpoints : loop[e].pc = "close" ~> loop[e].pc = "stopped"

\* "We know that the server completed the handshake as soon as we receive a
\* forward-secure packet."
SecureMeansComplete == sess["client"].secure => sess["server"].complete

\* The handshake completes at the server, too.
ServerCompletes ==
    <>(sess["server"].complete \/ \E e \in Endpoints : sess[e].close # "no")

\* RunHandshake returns after Close.
RunHandshakeReturns == \A e \in Endpoints : loop[e].pc = "stopped" ~> runner[e] = "returned"

====
