-------------------------- MODULE HandshakeProofs --------------------------
(***************************************************************************)
(* The handshake for every size of packets and every limit on the packets  *)
(* that wait for their keys, whoever closes or fails when.                 *)
(*                                                                         *)
(* The run loop and TLS follow a script each: HandleMessage the order of   *)
(* the messages, and TLS the order of its steps.  They stay in step        *)
(* because what is in messageChan, and what HandleMessage still waits for, *)
(* is determined by how many messages were handled and how far TLS came.   *)
(*                                                                         *)
(* The inductive invariant IInv says so for each endpoint (StepInv), which *)
(* only the steps of that endpoint disturb.  Two parts are about both: the *)
(* packets that wait for a key wait for one that is not there, and the     *)
(* server writes, packs and sends nothing before it has the ClientHello.   *)
(***************************************************************************)
EXTENDS Handshake, TLAPS

-----------------------------------------------------------------------------
(* The two scripts *)

\* The messages e is sent, in the order in which they are handled, and what TLS
\* hands over, in the order of its steps.
Inbound(e) == IF e = "client" THEN <<"SH", "EE", "Cert", "Fin">> ELSE <<"CH", "Fin">>
Handed(e) ==
    IF e = "client" THEN <<"readKey", "params", "writeKey", "writeKey", "readKey">>
                    ELSE <<"params", "writeKey", "writeKey", "readKey", "readKey">>

\* How many messages TLS has read, and how often it has handed something over,
\* after pc steps.
ReadBy(e, pc) ==
    IF e = "client"
    THEN IF pc < 2 THEN 0 ELSE IF pc < 4 THEN 1 ELSE IF pc < 6 THEN 2 ELSE IF pc < 7 THEN 3 ELSE 4
    ELSE IF pc < 1 THEN 0 ELSE IF pc < 10 THEN 1 ELSE 2
HandedBy(e, pc) ==
    IF e = "client"
    THEN IF pc < 3 THEN 0 ELSE IF pc < 5 THEN 1 ELSE IF pc < 8 THEN 2
         ELSE IF pc < 10 THEN 3 ELSE IF pc < 11 THEN 4 ELSE 5
    ELSE IF pc < 2 THEN 0 ELSE IF pc < 4 THEN 1 ELSE IF pc < 8 THEN 2
         ELSE IF pc < 9 THEN 3 ELSE IF pc < 11 THEN 4 ELSE 5

\* The levels of the keys after pc steps.
ReadKey(e, pc) ==
    IF e = "client" THEN IF pc < 3 THEN 1 ELSE IF pc < 11 THEN 2 ELSE 3
                    ELSE IF pc < 9 THEN 1 ELSE IF pc < 11 THEN 2 ELSE 3
WriteKey(e, pc) ==
    IF e = "client" THEN IF pc < 8 THEN 1 ELSE IF pc < 10 THEN 2 ELSE 3
                    ELSE IF pc < 4 THEN 1 ELSE IF pc < 8 THEN 2 ELSE 3

\* How often HandleMessage has waited when n messages are handled.
WaitedFor(e, n) ==
    IF e = "client" THEN IF n < 1 THEN 0 ELSE IF n < 2 THEN 1 ELSE IF n < 4 THEN 2 ELSE 5
                    ELSE IF n < 1 THEN 0 ELSE IF n < 2 THEN 4 ELSE 5

LastMsg(e) == IF e = "client" THEN 4 ELSE 2

Messages == {"none", "CH", "SH", "EE", "Cert", "Fin"}
Channels == {"readKey", "writeKey", "params"}
\* ws is a part of the channels that TLS hands over, from the d-th on.
Part(ws, e, d, k) ==
    /\ ws \in Seq(Channels) /\ Len(ws) = k
    /\ \A i \in 1..k : ws[i] = Handed(e)[d + i]

Pkt ==
    {p \in [from : Endpoints, level : 1..3, kind : {"crypto", "ack", "ping", "close"},
            units : SUBSET Int] : p.kind = "crypto" => p.level \in 1..2}

TLSStates == [pc : 0..11, state : {"running", "ok", "err"}]
LoopStates == [pc : {"hello", "select", "crypto", "wait", "close", "stopped"},
               level : 1..2, msg : Messages, waits : Seq(Channels)]
MsgsStates == [chan : Seq(Messages), closed : BOOLEAN]
KeysStates == [read : 1..3, write : 1..3]
InStates == [got : SUBSET Int, handled : 0..3, finished : BOOLEAN]
OutStates == [written : Nat, packed : Nat]
SessStates == [done : BOOLEAN, complete : BOOLEAN, close : {"no", "local", "remote"},
               first : BOOLEAN, secure : BOOLEAN, sent : BOOLEAN, ack : BOOLEAN, ping : BOOLEAN]

\* The types of what TLS and the run loop of each endpoint share.
LocalTypes ==
    /\ tls \in [Endpoints -> TLSStates] /\ loop \in [Endpoints -> LoopStates]
    /\ msgs \in [Endpoints -> MsgsStates] /\ errs \in [Endpoints -> BOOLEAN]
    /\ keys \in [Endpoints -> KeysStates] /\ in \in [Endpoints -> [1..2 -> InStates]]

\* The types of the rest.
OtherTypes ==
    /\ out \in [Endpoints -> [1..2 -> OutStates]] /\ undec \in [Endpoints -> SUBSET Pkt]
    /\ sess \in [Endpoints -> SessStates] /\ net \in SUBSET Pkt

\* How far TLS and the run loop of e have come, and the keys: TLS has done pc
\* steps and is in state st, h1 and h2 messages of the levels were handled, and
\* the run loop is at lp, reading level lv.
Progress(e, pc, st, rk, wk, h1, h2, lp, lv) ==
    /\ rk = ReadKey(e, pc) /\ wk = WriteKey(e, pc)
    /\ h1 <= 1 /\ h1 + h2 <= LastMsg(e) /\ (h2 > 0 => h1 = 1)
    /\ ReadBy(e, pc) <= h1 + h2 /\ HandedBy(e, pc) <= WaitedFor(e, h1 + h2)
    /\ lp = "hello" => e = "client" /\ pc = 0
    /\ lp \in {"crypto", "wait"} => lv <= rk
    /\ st = "running" => lp # "stopped"
    /\ st = "running" /\ e = "client" /\ pc = 0 => lp \in {"hello", "close"}

\* Unless TLS has failed, messageChan holds what it has yet to read of the n
\* messages, and the run loop waits for what TLS has yet to hand over on account
\* of the last of them.
Together(e, pc, st, n, err, chan, lp, msg, ws) ==
    /\ st = IF pc = 11 THEN "ok" ELSE "running"
    /\ ~err
    /\ Len(chan) = n - ReadBy(e, pc)
    /\ \A i \in 1..(n - ReadBy(e, pc)) : chan[i] = Inbound(e)[ReadBy(e, pc) + i]
    /\ n > 0 => WaitedFor(e, n - 1) <= HandedBy(e, pc)
    /\ lp = "wait" <=> HandedBy(e, pc) < WaitedFor(e, n)
    /\ lp = "wait" =>
          msg = Inbound(e)[n] /\ Part(ws, e, HandedBy(e, pc), WaitedFor(e, n) - HandedBy(e, pc))

At(e, pc, st, rk, wk, h1, h2, lp, lv, err, chan, msg, ws) ==
    /\ Progress(e, pc, st, rk, wk, h1, h2, lp, lv)
    /\ st # "err" => Together(e, pc, st, h1 + h2, err, chan, lp, msg, ws)

Local(e) ==
    At(e, tls[e].pc, tls[e].state, keys[e].read, keys[e].write,
       in[e][1].handled, in[e][2].handled, loop[e].pc, loop[e].level,
       errs[e], msgs[e].chan, loop[e].msg, loop[e].waits)

StepInv == \A e \in Endpoints : Local(e)

\* A packet that waits for its key waits for a key that is not there.
Undecryptable == \A e \in Endpoints : \A p \in undec[e] : p.level > keys[e].read

\* The server has the ClientHello.  Before that its TLS stack has written nothing,
\* and it has sent nothing but CONNECTION_CLOSE.
Arrived == in["server"][1].handled = 1
Writes == \A l \in 1..2 : out["server"][l].written > 0 => Arrived
Sends == sess["server"].sent => Arrived
Travels == \A p \in net : p.from = "server" /\ p.kind # "close" => Arrived
HelloFirst == Writes /\ Sends /\ Travels /\ HelloArrived

IInv == LocalTypes /\ OtherTypes /\ StepInv /\ Undecryptable /\ HelloFirst

-----------------------------------------------------------------------------
(* What the scripts say *)

LEMMA Ends == Endpoints = {"client", "server"}
BY Zenon DEF Endpoints

LEMMA ScriptLength == \A e \in Endpoints : Len(Script(e)) = 11
BY Zenon DEF Script, Endpoints

\* The steps of the client, one by one.
LEMMA ClientScript ==
    LET s == Script("client") IN
    /\ \A pc \in {1, 3, 5, 6} : s[pc + 1].op = "read"
    /\ \A pc \in {0, 8} : s[pc + 1].op = "write"
    /\ \A pc \in {2, 4, 7, 9, 10} : s[pc + 1].op = "hand"
    /\ s[2].arg = "SH" /\ s[4].arg = "EE" /\ s[6].arg = "Cert" /\ s[7].arg = "Fin"
    /\ s[3].arg = "readKey" /\ s[5].arg = "params" /\ s[8].arg = "writeKey"
    /\ s[10].arg = "writeKey" /\ s[11].arg = "readKey"
    /\ s[1].arg = "CH" /\ s[9].arg = "Fin"
BY DEF Script, Read, Write, Hand

LEMMA ServerScript ==
    LET s == Script("server") IN
    /\ \A pc \in {0, 9} : s[pc + 1].op = "read"
    /\ \A pc \in {2, 4, 5, 6} : s[pc + 1].op = "write"
    /\ \A pc \in {1, 3, 7, 8, 10} : s[pc + 1].op = "hand"
    /\ s[1].arg = "CH" /\ s[10].arg = "Fin"
    /\ s[2].arg = "params" /\ s[4].arg = "writeKey" /\ s[8].arg = "writeKey"
    /\ s[9].arg = "readKey" /\ s[11].arg = "readKey"
    /\ s[3].arg = "SH" /\ s[5].arg = "EE" /\ s[6].arg = "Cert" /\ s[7].arg = "Fin"
BY DEF Script, Read, Write, Hand

\* A step of TLS that reads a message.
LEMMA ReadStep ==
    ASSUME NEW e \in Endpoints, NEW pc \in 0..10, Script(e)[pc + 1].op = "read"
    PROVE  /\ pc + 1 < 11 /\ ReadBy(e, pc + 1) = ReadBy(e, pc) + 1 /\ (e = "client" => pc # 0)
           /\ Script(e)[pc + 1].arg = Inbound(e)[ReadBy(e, pc) + 1]
           /\ HandedBy(e, pc + 1) = HandedBy(e, pc)
           /\ ReadKey(e, pc + 1) = ReadKey(e, pc) /\ WriteKey(e, pc + 1) = WriteKey(e, pc)
<1>1. CASE e = "client"
    <2>1. pc \in {1, 3, 5, 6}
        BY <1>1, ClientScript, SMTT(30), Z3T(30)
    <2>2. QED
        BY <1>1, <2>1, ClientScript, SMTT(30), Z3T(30)
        DEF ReadBy, HandedBy, ReadKey, WriteKey, Inbound
<1>2. CASE e = "server"
    <2>1. pc \in {0, 9}
        BY <1>2, ServerScript
    <2>2. QED
        BY <1>2, <2>1, ServerScript DEF ReadBy, HandedBy, ReadKey, WriteKey, Inbound
<1>3. QED
    BY <1>1, <1>2, Ends, Zenon

\* A step of TLS that writes a message: it is the ClientHello, or the run loop
\* still waits.
LEMMA WriteStep ==
    ASSUME NEW e \in Endpoints, NEW pc \in 0..10, Script(e)[pc + 1].op = "write"
    PROVE  /\ pc + 1 < 11 /\ ReadBy(e, pc + 1) = ReadBy(e, pc)
           /\ HandedBy(e, pc + 1) = HandedBy(e, pc)
           /\ ReadKey(e, pc + 1) = ReadKey(e, pc) /\ WriteKey(e, pc + 1) = WriteKey(e, pc)
           /\ WriteKey(e, pc) \in 1..2
           /\ (e = "client" /\ pc = 0) \/ HandedBy(e, pc) < WaitedFor(e, ReadBy(e, pc))
           /\ e = "server" => ReadBy(e, pc) = 1
<1>1. CASE e = "client"
    <2>1. pc \in {0, 8}
        BY <1>1, ClientScript, SMTT(30), Z3T(30)
    <2>2. QED
        BY <1>1, <2>1 DEF ReadBy, HandedBy, ReadKey, WriteKey, WaitedFor
<1>2. CASE e = "server"
    <2>1. pc \in {2, 4, 5, 6}
        BY <1>2, ServerScript
    <2>2. QED
        BY <1>2, <2>1, SMTT(30), Z3T(30) DEF ReadBy, HandedBy, ReadKey, WriteKey, WaitedFor
<1>3. QED
    BY <1>1, <1>2, Ends, Zenon

\* A step of TLS that hands over a key or the transport parameters: the run loop
\* waits for it.
LEMMA HandStep ==
    ASSUME NEW e \in Endpoints, NEW pc \in 0..10, Script(e)[pc + 1].op = "hand"
    PROVE  /\ ReadBy(e, pc + 1) = ReadBy(e, pc)
           /\ HandedBy(e, pc + 1) = HandedBy(e, pc) + 1
           /\ Script(e)[pc + 1].arg = Handed(e)[HandedBy(e, pc) + 1]
           /\ HandedBy(e, pc) < WaitedFor(e, ReadBy(e, pc))
           /\ ReadKey(e, pc + 1) =
                 IF Script(e)[pc + 1].arg = "readKey" THEN ReadKey(e, pc) + 1 ELSE ReadKey(e, pc)
           /\ WriteKey(e, pc + 1) =
                 IF Script(e)[pc + 1].arg = "writeKey" THEN WriteKey(e, pc) + 1 ELSE WriteKey(e, pc)
<1>1. CASE e = "client"
    <2>1. pc \in {2, 4, 7, 9, 10}
        BY <1>1, ClientScript, SMTT(30), Z3T(30)
    <2>2. QED
        BY <1>1, <2>1, ClientScript, SMTT(30), Z3T(30)
        DEF ReadBy, HandedBy, ReadKey, WriteKey, WaitedFor, Handed
<1>2. CASE e = "server"
    <2>1. pc \in {1, 3, 7, 8, 10}
        BY <1>2, ServerScript
    <2>2. QED
        BY <1>2, <2>1, ServerScript, SMTT(30), Z3T(30)
        DEF ReadBy, HandedBy, ReadKey, WriteKey, WaitedFor, Handed
<1>3. QED
    BY <1>1, <1>2, Ends, ZenonT(60)

\* A read key is the last thing that HandleMessage waits for, and it does so for
\* the last message of a level.
LEMMA ReadKeyIsLast ==
    ASSUME NEW e \in Endpoints, NEW d \in 0..4, NEW n \in 1..LastMsg(e),
           Handed(e)[d + 1] = "readKey", WaitedFor(e, n - 1) <= d, d < WaitedFor(e, n)
    PROVE  WaitedFor(e, n) = d + 1 /\ LastOfLevel(Inbound(e)[n])
<1>1. CASE e = "client"
    BY <1>1 DEF LastMsg, Handed, WaitedFor, LastOfLevel, Inbound
<1>2. CASE e = "server"
    BY <1>2, SMTT(30), Z3T(30) DEF LastMsg, Handed, WaitedFor, LastOfLevel, Inbound
<1>3. QED
    BY <1>1, <1>2, Ends, Zenon

\* What the functions above return.
LEMMA ScriptTypes ==
    ASSUME NEW e \in Endpoints, NEW pc \in 0..11, NEW n \in 0..LastMsg(e)
    PROVE  /\ ReadBy(e, pc) \in 0..4 /\ HandedBy(e, pc) \in 0..5
           /\ pc < 11 => HandedBy(e, pc) \in 0..4
           /\ ReadKey(e, pc) \in 1..3 /\ WriteKey(e, pc) \in 1..3 /\ WaitedFor(e, n) \in 0..5
           /\ LastMsg(e) \in 2..4
           /\ \A k \in 0..n : WaitedFor(e, k) <= WaitedFor(e, n)
BY DEF ReadBy, HandedBy, ReadKey, WriteKey, WaitedFor, LastMsg

\* The messages of the levels, in the order in which they are handled.
LEMMA Flights ==
    /\ Flight(Peer("client"), 1) = <<"SH">> /\ Flight(Peer("client"), 2) = <<"EE", "Cert", "Fin">>
    /\ Flight(Peer("server"), 1) = <<"CH">> /\ Flight(Peer("server"), 2) = <<"Fin">>
BY DEF Flight, Peer

\* What HandleMessage waits for.
LEMMA ClientWaits ==
    /\ Waits("client", "SH") = <<"readKey">> /\ Waits("client", "EE") = <<"params">>
    /\ Waits("client", "Cert") = <<>>
    /\ Waits("client", "Fin") = <<"writeKey", "writeKey", "readKey">>
BY Zenon DEF Waits

LEMMA ServerWaits ==
    /\ Waits("server", "CH") = <<"params", "writeKey", "writeKey", "readKey">>
    /\ Waits("server", "Fin") = <<"readKey">>
BY Zenon DEF Waits

LEMMA WaitsFollow ==
    ASSUME NEW e \in Endpoints, NEW n \in 1..LastMsg(e)
    PROVE  /\ Part(Waits(e, Inbound(e)[n]), e, WaitedFor(e, n - 1),
                   WaitedFor(e, n) - WaitedFor(e, n - 1))
           /\ Inbound(e)[n] \in Messages
<1>1. /\ Part(<<"readKey">>, "client", 0, 1) /\ Part(<<"params">>, "client", 1, 1)
      /\ Part(<<>>, "client", 2, 0)
    BY DEF Part, Handed, Channels
<1>5. Part(<<"writeKey", "writeKey", "readKey">>, "client", 2, 3)
    BY DEF Part, Handed, Channels
<1>6. Part(<<"params", "writeKey", "writeKey", "readKey">>, "server", 0, 4)
    BY DEF Part, Handed, Channels
<1>7.  Part(<<"readKey">>, "server", 4, 1)
    BY DEF Part, Handed, Channels
<1>2. CASE e = "client"
    <2>1. n \in {1, 2, 3, 4}
        BY <1>2 DEF LastMsg
    <2>2. /\ WaitedFor(e, 0) = 0 /\ WaitedFor(e, 1) = 1 /\ WaitedFor(e, 2) = 2
          /\ WaitedFor(e, 3) = 2 /\ WaitedFor(e, 4) = 5
        BY <1>2 DEF WaitedFor
    <2>3. /\ Inbound(e)[1] = "SH" /\ Inbound(e)[2] = "EE" /\ Inbound(e)[3] = "Cert"
          /\ Inbound(e)[4] = "Fin"
        BY <1>2, Zenon DEF Inbound
    <2>4. QED
        BY <1>1, <1>5, <1>2, <2>1, <2>2, <2>3, ClientWaits, SMTT(30), Z3T(30) DEF Messages
<1>3. CASE e = "server"
    <2>1. n \in {1, 2}
        BY <1>3 DEF LastMsg
    <2>2. WaitedFor(e, 0) = 0 /\ WaitedFor(e, 1) = 4 /\ WaitedFor(e, 2) = 5
        BY <1>3 DEF WaitedFor
    <2>3. Inbound(e)[1] = "CH" /\ Inbound(e)[2] = "Fin"
        BY <1>3, Zenon DEF Inbound
    <2>4. QED
        BY <1>6, <1>7, <1>3, <2>1, <2>2, <2>3, ServerWaits, SMTT(30), Z3T(30) DEF Messages
<1>4. QED
    BY <1>2, <1>3, Ends, ZenonT(30)

\* The next message of a level is the next one of all.
LEMMA NextMessage ==
    ASSUME NEW e \in Endpoints, NEW l \in 1..2, NEW h1 \in 0..1, NEW h2 \in 0..3,
           h2 > 0 => h1 = 1, l = 2 => h1 = 1, h1 + h2 <= LastMsg(e),
           NEW k, k = (IF l = 1 THEN h1 ELSE h2) + 1, k \in DOMAIN Flight(Peer(e), l)
    PROVE  /\ h1 + h2 + 1 \in 1..LastMsg(e) /\ (l = 1 => h1 = 0 /\ h2 = 0)
           /\ Flight(Peer(e), l)[k] = Inbound(e)[h1 + h2 + 1]
<1>1. CASE e = "client"
    BY <1>1, Flights, SMTT(30), Z3T(30) DEF LastMsg, Inbound
<1>2. CASE e = "server"
    BY <1>2, Flights, SMTT(30), Z3T(30) DEF LastMsg, Inbound
<1>3. QED
    BY <1>1, <1>2, Ends, Zenon

-----------------------------------------------------------------------------
(* What the steps do to both scripts *)

\* ReadHandshakeMessage.
LEMMA ReadKeeps ==
    ASSUME NEW e \in Endpoints, NEW pc \in 0..10, NEW rk, NEW wk, NEW h1 \in 0..3,
           NEW h2 \in 0..3, NEW lp, NEW lv, NEW msg, NEW ws, NEW chan \in Seq(Messages), NEW err,
           Progress(e, pc, "running", rk, wk, h1, h2, lp, lv),
           Together(e, pc, "running", h1 + h2, err, chan, lp, msg, ws),
           Script(e)[pc + 1].op = "read", chan # <<>>
    PROVE  /\ pc + 1 # 11 /\ Head(chan) = Script(e)[pc + 1].arg
           /\ Progress(e, pc + 1, "running", rk, wk, h1, h2, lp, lv)
           /\ Together(e, pc + 1, "running", h1 + h2, err, Tail(chan), lp, msg, ws)
<1> DEFINE r == ReadBy(e, pc)
           n == h1 + h2
<1>1. /\ pc + 1 < 11 /\ ReadBy(e, pc + 1) = r + 1 /\ (e = "client" => pc # 0)
      /\ Script(e)[pc + 1].arg = Inbound(e)[r + 1]
      /\ HandedBy(e, pc + 1) = HandedBy(e, pc)
      /\ ReadKey(e, pc + 1) = ReadKey(e, pc) /\ WriteKey(e, pc + 1) = WriteKey(e, pc)
    BY ReadStep, Zenon
<1>2. n \in 0..LastMsg(e) /\ pc \in 0..11
    BY DEF Progress, LastMsg
<1>3. r \in 0..4
    BY <1>2, ScriptTypes, Zenon
<1>4. Len(chan) = n - r /\ \A i \in 1..(n - r) : chan[i] = Inbound(e)[r + i]
    BY Zenon DEF Together
<1>5. n \in Nat /\ r + 1 <= n
    BY <1>2, <1>3, <1>4, SMTT(30), Z3T(30) DEF LastMsg
<1>6. Progress(e, pc + 1, "running", rk, wk, h1, h2, lp, lv)
    BY <1>1, <1>5 DEF Progress
<1> DEFINE new == Tail(chan)
<1> HIDE DEF r, n
<1>7. Len(new) = n - (r + 1) /\ \A i \in 1..(n - (r + 1)) : new[i] = chan[i + 1]
    <2>1. Len(new) = Len(chan) - 1 /\ \A i \in 1..(Len(chan) - 1) : new[i] = chan[i + 1]
        BY SMTT(30), Z3T(30)
    <2>2. Len(chan) = n - r
        BY <1>4, Zenon
    <2>3. Len(chan) - 1 = n - (r + 1)
        BY <1>3, <1>5, <2>2, SMTT(30), Z3T(30)
    <2>4. QED
        BY <2>1, <2>3, Zenon
<1> HIDE DEF new
<1>8. \A i \in 1..(n - (r + 1)) : new[i] = Inbound(e)[(r + 1) + i]
    <2> SUFFICES ASSUME NEW i \in 1..(n - (r + 1))
                 PROVE  new[i] = Inbound(e)[(r + 1) + i]
        BY Zenon
    <2>1. i + 1 \in 1..(n - r) /\ r + (i + 1) = (r + 1) + i
        BY <1>3, <1>5, SMTT(30), Z3T(30)
    <2>2. new[i] = chan[i + 1] /\ chan[i + 1] = Inbound(e)[r + (i + 1)]
        BY <1>4, <1>7, <2>1, ZenonT(60)
    <2>3. QED
        BY <2>1, <2>2, Zenon
<1>9. Together(e, pc + 1, "running", n, err, new, lp, msg, ws)
    <2>1. Together(e, pc, "running", n, err, chan, lp, msg, ws)
        BY Zenon DEF n
    <2>2. QED
        BY <1>1, <1>7, <1>8, <2>1, SMTT(30), Z3T(30) DEF Together
<1>10. Head(chan) = Script(e)[pc + 1].arg
    <2>1. Head(chan) = chan[1]
        BY SMTT(30), Z3T(30)
    <2>2. 1 \in 1..(n - r)
        BY <1>3, <1>5, SMTT(30), Z3T(30)
    <2>3. QED
        BY <1>1, <1>4, <2>1, <2>2, ZenonT(60)
<1>11. QED
    BY <1>1, <1>6, <1>9, <1>10, SMTT(30), Z3T(30) DEF n, new

\* TLS fails.
LEMMA FailKeeps ==
    ASSUME NEW e, NEW pc, NEW st, NEW rk, NEW wk, NEW h1, NEW h2, NEW lp, NEW lv,
           Progress(e, pc, st, rk, wk, h1, h2, lp, lv)
    PROVE  Progress(e, pc, "err", rk, wk, h1, h2, lp, lv)
BY Zenon DEF Progress

\* What is compared, in numbers.
LEMMA Bounds ==
    ASSUME NEW e \in Endpoints, NEW pc \in 0..11, NEW h1 \in 0..3, NEW h2 \in 0..3,
           NEW st, NEW rk, NEW wk, NEW lp, NEW lv, Progress(e, pc, st, rk, wk, h1, h2, lp, lv)
    PROVE  /\ h1 + h2 \in 0..LastMsg(e) /\ ReadBy(e, pc) \in 0..(h1 + h2)
           /\ HandedBy(e, pc) \in 0..WaitedFor(e, h1 + h2)
           /\ \A k \in 0..(h1 + h2) :
                 WaitedFor(e, k) \in 0..5 /\ WaitedFor(e, k) <= WaitedFor(e, h1 + h2)
<1> DEFINE n == h1 + h2
<1>1. n \in 0..LastMsg(e) /\ ReadBy(e, pc) <= n /\ HandedBy(e, pc) <= WaitedFor(e, n)
    BY DEF Progress, LastMsg
<1>2. ReadBy(e, pc) \in 0..4 /\ HandedBy(e, pc) \in 0..5 /\ LastMsg(e) \in 2..4
    BY <1>1, ScriptTypes, ZenonT(30)
<1>3. \A k \in 0..n : WaitedFor(e, k) <= WaitedFor(e, n)
    BY <1>1, ScriptTypes, ZenonT(30)
<1>4. \A k \in 0..n : WaitedFor(e, k) \in 0..5
    BY <1>1, <1>2, ScriptTypes
<1>5. QED
    BY <1>1, <1>2, <1>3, <1>4

\* Where the run loop is after WriteRecord.
AfterWrite(e, lp) == IF e = "client" /\ lp = "hello" THEN "select" ELSE lp

\* WriteRecord.
LEMMA WriteKeeps ==
    ASSUME NEW e \in Endpoints, NEW pc \in 0..10, NEW rk, NEW wk, NEW h1 \in 0..3,
           NEW h2 \in 0..3, NEW lp, NEW lv, NEW msg, NEW ws, NEW chan, NEW err,
           Progress(e, pc, "running", rk, wk, h1, h2, lp, lv),
           Together(e, pc, "running", h1 + h2, err, chan, lp, msg, ws),
           Script(e)[pc + 1].op = "write"
    PROVE  /\ pc + 1 # 11 /\ wk \in 1..2 /\ lp \in {"hello", "wait", "close"}
           /\ e = "server" => h1 = 1
           /\ Progress(e, pc + 1, "running", rk, wk, h1, h2, AfterWrite(e, lp), lv)
           /\ Together(e, pc + 1, "running", h1 + h2, err, chan, AfterWrite(e, lp), msg, ws)
<1> DEFINE n == h1 + h2
<1>1. /\ pc + 1 < 11 /\ ReadBy(e, pc + 1) = ReadBy(e, pc)
      /\ HandedBy(e, pc + 1) = HandedBy(e, pc)
      /\ ReadKey(e, pc + 1) = ReadKey(e, pc) /\ WriteKey(e, pc + 1) = WriteKey(e, pc)
      /\ WriteKey(e, pc) \in 1..2
      /\ (e = "client" /\ pc = 0) \/ HandedBy(e, pc) < WaitedFor(e, ReadBy(e, pc))
      /\ e = "server" => ReadBy(e, pc) = 1
    BY WriteStep, Zenon
<1>2. pc \in 0..11
    OBVIOUS
<1>3. /\ ReadBy(e, pc) \in 0..n /\ HandedBy(e, pc) \in 0..WaitedFor(e, n)
      /\ \A k \in 0..n : WaitedFor(e, k) \in 0..5 /\ WaitedFor(e, k) <= WaitedFor(e, n)
    BY <1>2, Bounds, Zenon
<1>4. lp = "wait" <=> HandedBy(e, pc) < WaitedFor(e, n)
    BY Zenon DEF Together
<1>5. lp \in {"hello", "wait", "close"}
    <2>1. CASE e = "client" /\ pc = 0
        BY <2>1, Zenon DEF Progress
    <2>2. CASE HandedBy(e, pc) < WaitedFor(e, ReadBy(e, pc))
        BY <1>3, <1>4, <2>2, SMTT(30), Z3T(30)
    <2>3. QED
        BY <1>1, <2>1, <2>2, ZenonT(30)
<1>6. Progress(e, pc + 1, "running", rk, wk, h1, h2, AfterWrite(e, lp), lv)
    BY <1>1, <1>5, SMTT(30), Z3T(30) DEF Progress, AfterWrite
<1>7. Together(e, pc + 1, "running", n, err, chan, AfterWrite(e, lp), msg, ws)
    BY <1>1, <1>5, SMTT(30), Z3T(30) DEF Together, AfterWrite
<1>8. e = "server" => h1 = 1
    BY <1>1, <1>3 DEF Progress
<1>9. QED
    BY <1>1, <1>5, <1>6, <1>7, <1>8 DEF Progress

\* Where the run loop goes after HandleMessage.
Onward == {"select", "crypto"}

\* The state of TLS after a step.
AfterStep(pc) == IF pc + 1 = 11 THEN "ok" ELSE "running"

\* SetReadKey, SetWriteKey and the transport parameters: the run loop waits for
\* them, and goes on waiting, or goes on at new.
LEMMA HandAt ==
    ASSUME NEW e \in Endpoints, NEW pc \in 0..10, NEW rk, NEW wk, NEW h1 \in 0..3,
           NEW h2 \in 0..3, NEW lp, NEW lv \in 1..2, NEW msg, NEW ws, NEW chan, NEW err,
           At(e, pc, "running", rk, wk, h1, h2, lp, lv, err, chan, msg, ws),
           Script(e)[pc + 1].op = "hand"
    PROVE  /\ lp = "wait" /\ Head(ws) = Script(e)[pc + 1].arg /\ ~err
           /\ Script(e)[pc + 1].arg = "readKey" => Len(ws) = 1 /\ LastOfLevel(msg)
           /\ Len(ws) > 1 =>
                 At(e, pc + 1, AfterStep(pc), ReadKey(e, pc + 1), WriteKey(e, pc + 1), h1, h2,
                    lp, lv, err, chan, msg, Tail(ws))
           /\ Len(ws) <= 1 => \A new \in Onward : \A w :
                 At(e, pc + 1, AfterStep(pc), ReadKey(e, pc + 1), WriteKey(e, pc + 1), h1, h2,
                    new, lv, err, chan, msg, w)
<1> DEFINE st == AfterStep(pc)
           n == h1 + h2
           d == HandedBy(e, pc)
           w0 == WaitedFor(e, n)
           arg == Script(e)[pc + 1].arg
<1>0. /\ Progress(e, pc, "running", rk, wk, h1, h2, lp, lv)
      /\ Together(e, pc, "running", h1 + h2, err, chan, lp, msg, ws)
    BY Zenon DEF At
<1>1. /\ ReadBy(e, pc + 1) = ReadBy(e, pc) /\ HandedBy(e, pc + 1) = d + 1
      /\ arg = Handed(e)[d + 1] /\ d < WaitedFor(e, ReadBy(e, pc))
      /\ ReadKey(e, pc + 1) = IF arg = "readKey" THEN ReadKey(e, pc) + 1 ELSE ReadKey(e, pc)
      /\ WriteKey(e, pc + 1) = IF arg = "writeKey" THEN WriteKey(e, pc) + 1 ELSE WriteKey(e, pc)
    BY HandStep, ZenonT(30)
<1>2. pc \in 0..11 /\ pc + 1 \in 0..11
    BY SMTT(30), Z3T(30)
<1>18. n \in Nat
    OBVIOUS
<1>3. /\ n \in 0..LastMsg(e) /\ ReadBy(e, pc) \in 0..n /\ d \in 0..w0
      /\ \A k \in 0..n : WaitedFor(e, k) \in 0..5 /\ WaitedFor(e, k) <= w0
    BY <1>0, <1>2, Bounds, ZenonT(60)
<1>4. d < w0 /\ n > 0 /\ w0 \in 0..5 /\ d \in 0..5
    BY <1>1, <1>3 DEF WaitedFor
<1>5. /\ lp = "wait" /\ msg = Inbound(e)[n] /\ WaitedFor(e, n - 1) <= d /\ Part(ws, e, d, w0 - d)
    BY <1>0, <1>4, Zenon DEF Together
<1>15. LastMsg(e) \in 2..4 /\ ReadKey(e, pc) \in 1..3 /\ ReadKey(e, pc + 1) \in 1..3
    BY <1>2, <1>3, ScriptTypes, ZenonT(30)
<1>16. ~err /\ st = IF pc + 1 = 11 THEN "ok" ELSE "running"
    BY <1>0, Zenon DEF Together, AfterStep
<1>17. ws \in Seq(Channels) /\ Len(ws) = w0 - d /\ \A i \in 1..(w0 - d) : ws[i] = Handed(e)[d + i]
    BY <1>5, Zenon DEF Part
<1>6. Head(ws) = arg
    <2>1. 1 \in 1..(w0 - d) /\ Len(ws) > 0 /\ ws \in Seq(Channels)
        BY <1>4, <1>17, SMTT(30), Z3T(30)
    <2>2. Head(ws) = ws[1] /\ ws[1] = Handed(e)[d + 1]
        BY <1>17, <2>1
    <2>3. QED
        BY <1>1, <2>2, ZenonT(60)
<1>7. arg = "readKey" => Len(ws) = 1 /\ LastOfLevel(msg)
    <2> SUFFICES ASSUME arg = "readKey" PROVE Len(ws) = 1 /\ LastOfLevel(msg)
        BY Zenon
    <2>1. n \in 1..LastMsg(e) /\ d \in 0..4
        BY <1>3, <1>4, <1>15, <1>18, SMTT(30), Z3T(30)
    <2>2. w0 = d + 1 /\ LastOfLevel(Inbound(e)[n])
        BY <1>1, <1>4, <1>5, <2>1, ReadKeyIsLast, ZenonT(30)
    <2>3. QED
        BY <1>5, <1>17, <2>1, <2>2, SMTT(30), Z3T(30)
<1>8. ReadKey(e, pc) <= ReadKey(e, pc + 1)
    BY <1>1, <1>15, SMTT(30), Z3T(30)
<1>9. ASSUME NEW new \in {"wait", "select", "crypto"}
      PROVE  Progress(e, pc + 1, st, ReadKey(e, pc + 1), WriteKey(e, pc + 1), h1, h2, new, lv)
    <2>1. HandedBy(e, pc + 1) <= WaitedFor(e, n)
        BY <1>1, <1>4, SMTT(30), Z3T(30)
    <2>2. lv <= ReadKey(e, pc)
        BY <1>0, <1>5, ZenonT(30) DEF Progress
    <2>3. lv <= ReadKey(e, pc + 1)
        BY <1>8, <1>15, <2>2, SMTT(30), Z3T(30)
    <2>4. QED
        BY <1>0, <1>1, <2>1, <2>3, SMTT(30), Z3T(30) DEF Progress
<1>10. /\ Len(chan) = n - ReadBy(e, pc + 1)
       /\ \A i \in 1..(n - ReadBy(e, pc + 1)) : chan[i] = Inbound(e)[ReadBy(e, pc + 1) + i]
    BY <1>0, <1>1, ZenonT(60) DEF Together
<1>11. n > 0 => WaitedFor(e, n - 1) <= HandedBy(e, pc + 1)
    <2>1. n - 1 \in 0..n
        BY <1>4, <1>18, SMTT(30), Z3T(30)
    <2>2. WaitedFor(e, n - 1) \in 0..5
        BY <1>3, <2>1, Zenon
    <2>3. QED
        BY <1>1, <1>4, <1>5, <2>2, SMTT(30), Z3T(30)
<1>12. ASSUME Len(ws) > 1
       PROVE  Together(e, pc + 1, st, n, err, chan, lp, msg, Tail(ws))
    <2> DEFINE k == w0 - d
    <2> HIDE DEF d, w0, n, arg
    <2>1. k \in 2..5 /\ Len(ws) = k /\ w0 - (d + 1) = k - 1 /\ d + 1 < w0
        BY <1>4, <1>12, <1>17, SMTT(30), Z3T(30)
    <2>2. \A i \in 1..k : ws[i] = Handed(e)[d + i]
        BY <1>17, ZenonT(60)
    <2>3. Tail(ws) \in Seq(Channels) /\ Len(Tail(ws)) = k - 1
        BY <1>17, <2>1, SMTT(30), Z3T(30)
    <2>4. ASSUME NEW i \in 1..(k - 1) PROVE Tail(ws)[i] = Handed(e)[(d + 1) + i]
        <3>1. i + 1 \in 1..k /\ Tail(ws)[i] = ws[i + 1] /\ d + (i + 1) = (d + 1) + i
            BY <1>4, <1>17, <2>1, SMTT(30), Z3T(30)
        <3>2. QED
            BY <2>2, <3>1, Zenon
    <2>6. Part(Tail(ws), e, d + 1, w0 - (d + 1))
        BY <2>1, <2>3, <2>4, Zenon DEF Part
    <2> USE DEF d, w0, n, arg
    <2>7. /\ lp = "wait" <=> HandedBy(e, pc + 1) < WaitedFor(e, n)
          /\ lp = "wait" => msg = Inbound(e)[n] /\ Part(Tail(ws), e, HandedBy(e, pc + 1),
                                                       WaitedFor(e, n) - HandedBy(e, pc + 1))
        BY <1>1, <1>5, <2>1, <2>6, ZenonT(60)
    <2>8. QED
        BY <1>10, <1>11, <1>16, <2>7, ZenonT(60) DEF Together
<1>13. ASSUME Len(ws) <= 1, NEW new \in {"select", "crypto"}, NEW w
       PROVE  Together(e, pc + 1, st, n, err, chan, new, msg, w)
    <2>1. ~(HandedBy(e, pc + 1) < WaitedFor(e, n)) /\ new # "wait"
        BY <1>1, <1>4, <1>13, <1>17, SMTT(30), Z3T(30)
    <2>2. QED
        BY <1>10, <1>11, <1>16, <2>1, ZenonT(60) DEF Together
<1>14. Len(ws) > 1 => At(e, pc + 1, st, ReadKey(e, pc + 1), WriteKey(e, pc + 1), h1, h2,
                         lp, lv, err, chan, msg, Tail(ws))
    BY <1>5, <1>9, <1>12, Zenon DEF At
<1>19. Len(ws) <= 1 => \A new \in Onward : \A w :
                 At(e, pc + 1, st, ReadKey(e, pc + 1), WriteKey(e, pc + 1), h1, h2,
                    new, lv, err, chan, msg, w)
    BY <1>9, <1>13, ZenonT(30) DEF At, Onward
<1>20. QED
    BY <1>5, <1>6, <1>7, <1>14, <1>16, <1>19, ZenonT(30)

\* m is the k-th message of level lv and the next one; g1 and g2 messages are
\* handled then, and the run loop goes on at new.
NextIs(e, lv, h1, h2, k, m, g1, g2, new) ==
    /\ k = (IF lv = 1 THEN h1 ELSE h2) + 1 /\ k \in DOMAIN Flight(Peer(e), lv)
    /\ m = Flight(Peer(e), lv)[k]
    /\ g1 = (IF lv = 1 THEN k ELSE h1) /\ g2 = (IF lv = 1 THEN h2 ELSE k)
    /\ new = IF Waits(e, m) = <<>> THEN "crypto" ELSE "wait"

\* HandleMessage: the next message goes to TLS, and what it makes TLS hand over
\* is waited for.
LEMMA MessageKeeps ==
    ASSUME NEW e \in Endpoints, NEW pc \in 0..11, NEW st, NEW rk, NEW wk, NEW h1 \in 0..3,
           NEW h2 \in 0..3, NEW lv \in 1..2, NEW k, NEW m, NEW g1, NEW g2, NEW new,
           Progress(e, pc, st, rk, wk, h1, h2, "crypto", lv),
           NextIs(e, lv, h1, h2, k, m, g1, g2, new)
    PROVE  /\ g1 \in 0..3 /\ g2 \in 0..3 /\ m \in Messages /\ Waits(e, m) \in Seq(Channels)
           /\ Progress(e, pc, st, rk, wk, g1, g2, new, lv)
           /\ \A err, chan, msg, ws :
                 /\ chan \in Seq(Messages)
                 /\ Together(e, pc, st, h1 + h2, err, chan, "crypto", msg, ws)
                 => Together(e, pc, st, g1 + g2, err, Append(chan, m), new, m, Waits(e, m))
<1> DEFINE n == h1 + h2
           d == HandedBy(e, pc)
           r == ReadBy(e, pc)
<1>1. /\ n \in 0..LastMsg(e) /\ r \in 0..n /\ d \in 0..WaitedFor(e, n)
      /\ \A i \in 0..n : WaitedFor(e, i) \in 0..5 /\ WaitedFor(e, i) <= WaitedFor(e, n)
    BY Bounds, ZenonT(60)
<1>2. LastMsg(e) \in 2..4 /\ r \in 0..4 /\ d \in 0..5 /\ WaitedFor(e, n) \in 0..5 /\ n \in 0..4
    BY <1>1, ScriptTypes, SMTT(30), Z3T(30)
<1>3. lv = 2 => h1 = 1
    <2>1. ReadKey(e, pc) >= 2 => ReadBy(e, pc) >= 1
        BY DEF ReadKey, ReadBy
    <2>2. lv = 2 => ReadKey(e, pc) >= 2
        <3>1. lv <= ReadKey(e, pc)
            BY Zenon DEF Progress
        <3>2. ReadKey(e, pc) \in 1..3
            BY <1>1, ScriptTypes, ZenonT(30)
        <3>3. QED
            BY <3>1, <3>2, ZenonT(30)
    <2>3. QED
        BY <1>1, <1>2, <2>1, <2>2, SMTT(30), Z3T(30) DEF Progress
<1>4. n + 1 \in 1..LastMsg(e) /\ (lv = 1 => h1 = 0 /\ h2 = 0) /\ m = Inbound(e)[n + 1]
    <2>1. h1 \in 0..1 /\ (h2 > 0 => h1 = 1) /\ h1 + h2 <= LastMsg(e)
        BY SMTT(30), Z3T(30) DEF Progress
    <2>2. QED
        BY <1>3, <2>1, NextMessage, SMTT(30), Z3T(30) DEF NextIs
<1>5. g1 \in 0..3 /\ g2 \in 0..3 /\ g1 + g2 = n + 1 /\ g1 <= 1 /\ (g2 > 0 => g1 = 1)
    <2>1. h2 <= 2
        BY <1>2, <1>3, <1>4
    <2>2. h1 <= 1
        BY Zenon DEF Progress
    <2>3. QED
        BY <1>3, <1>4, <2>1, <2>2, SMTT(30), Z3T(30) DEF NextIs
<1>6. /\ Part(Waits(e, m), e, WaitedFor(e, n), WaitedFor(e, n + 1) - WaitedFor(e, n))
      /\ m \in Messages
    <2>1. (n + 1) - 1 = n
        BY <1>2
    <2>2. QED
        BY <1>4, <2>1, WaitsFollow, ZenonT(30)
<1>7. WaitedFor(e, n + 1) \in 0..5 /\ WaitedFor(e, n) <= WaitedFor(e, n + 1)
    <2>1. n + 1 \in 0..LastMsg(e) /\ n \in 0..(n + 1)
        BY <1>2, <1>4
    <2>2. QED
        BY <2>1, ScriptTypes, ZenonT(30)
<1>8. Waits(e, m) \in Seq(Channels) /\ Len(Waits(e, m)) = WaitedFor(e, n + 1) - WaitedFor(e, n)
    BY <1>6, Zenon DEF Part
<1>9. Progress(e, pc, st, rk, wk, g1, g2, new, lv)
    <2>1. g1 + g2 <= LastMsg(e) /\ r <= g1 + g2
        BY <1>1, <1>2, <1>4, <1>5, SMTT(30), Z3T(30)
    <2>2. d <= WaitedFor(e, g1 + g2)
        BY <1>1, <1>2, <1>5, <1>7, SMTT(30), Z3T(30)
    <2>3. QED
        BY <1>5, <2>1, <2>2, ZenonT(30) DEF Progress, NextIs
<1>10. ASSUME NEW err, NEW chan \in Seq(Messages), NEW msg, NEW ws,
              Together(e, pc, st, n, err, chan, "crypto", msg, ws)
       PROVE  Together(e, pc, st, g1 + g2, err, Append(chan, m), new, m, Waits(e, m))
    <2>1. /\ st = IF pc = 11 THEN "ok" ELSE "running"
          /\ ~err /\ Len(chan) = n - r /\ ~(d < WaitedFor(e, n))
        BY <1>10, Zenon DEF Together
    <2>2. \A i \in 1..(n - r) : chan[i] = Inbound(e)[r + i]
        BY <1>10, Zenon DEF Together
    <2>3. d = WaitedFor(e, n)
        <3> HIDE DEF n, d
        <3>1. d <= WaitedFor(e, n) /\ ~(d < WaitedFor(e, n)) /\ d \in Nat /\ WaitedFor(e, n) \in Nat
            BY <1>1, <1>2, <2>1, SMTT(30), Z3T(30)
        <3>2. QED
            BY <3>1, SMTT(30), Z3T(30)
    <2>4. Len(Append(chan, m)) = (n + 1) - r
        <3> HIDE DEF n, r
        <3>1. Len(Append(chan, m)) = Len(chan) + 1 /\ n \in Nat /\ r \in Nat
            BY <1>2, <1>6
        <3>2. QED
            BY <2>1, <3>1
    <2>5. ASSUME NEW i \in 1..((n + 1) - r) PROVE Append(chan, m)[i] = Inbound(e)[r + i]
        <3>1. CASE i \in 1..(n - r)
            <4>1. Append(chan, m)[i] = chan[i]
                BY <1>2, <1>6, <2>1, <3>1, SMTT(30), Z3T(30)
            <4>2. QED
                BY <2>2, <3>1, <4>1, ZenonT(60)
        <3>2. CASE i = n - r + 1
            <4>1. Append(chan, m)[i] = m /\ r + i = n + 1
                <5> HIDE DEF n, r
                <5>1. Append(chan, m)[Len(chan) + 1] = m /\ n \in Nat /\ r \in Nat
                    BY <1>2, <1>6, SMTT(30), Z3T(30)
                <5>2. i = Len(chan) + 1 /\ r + i = n + 1
                    BY <2>1, <3>2, <5>1, SMTT(30), Z3T(30)
                <5>3. QED
                    BY <5>1, <5>2, ZenonT(60)
            <4>2. QED
                BY <1>4, <4>1, Zenon
        <3>3. i \in 1..(n - r) \/ i = n - r + 1
            <4> HIDE DEF n, r
            <4>1. QED
                BY <1>2, SMTT(30), Z3T(30)
        <3>4. QED
            BY <3>1, <3>2, <3>3, Zenon
    <2>6. (n + 1) - 1 = n
        BY <1>2
    <2>7. new = "wait" <=> d < WaitedFor(e, n + 1)
        <3>1. new = IF Waits(e, m) = <<>> THEN "crypto" ELSE "wait"
            BY Zenon DEF NextIs
        <3>2. Waits(e, m) = <<>> <=> Len(Waits(e, m)) = 0
            BY <1>8, SMTT(30), Z3T(30)
        <3>3. Len(Waits(e, m)) = 0 <=> ~(d < WaitedFor(e, n + 1))
            <4> HIDE DEF n, d, r
            <4> DEFINE a == WaitedFor(e, n)
                       b == WaitedFor(e, n + 1)
            <4>1. b \in 0..5 /\ a \in 0..5 /\ a <= b /\ Len(Waits(e, m)) = b - a /\ d = a
                BY <1>2, <1>7, <1>8, <2>3, ZenonT(60)
            <4>2. Len(Waits(e, m)) = 0 <=> ~(d < b)
                <5> HIDE DEF a, b
                <5>1. QED
                    BY <4>1, SMTT(30), Z3T(30)
            <4>3. QED
                BY <4>2, Zenon
        <3>4. QED
            BY <3>1, <3>2, <3>3, Zenon
    <2>8. Part(Waits(e, m), e, d, WaitedFor(e, n + 1) - d)
        BY <1>6, <2>3, ZenonT(60)
    <2>9. WaitedFor(e, n) <= d
        BY <1>2, <2>3, SMTT(30), Z3T(30)
    <2> HIDE DEF n, r, d
    <2>10. Together(e, pc, st, n + 1, err, Append(chan, m), new, m, Waits(e, m))
        <3> USE DEF r, d
        <3>1. QED
            BY <1>4, <2>1, <2>4, <2>5, <2>6, <2>7, <2>8, <2>9, ZenonT(60) DEF Together
    <2>11. QED
        BY <1>5, <2>10, Zenon
<1>11. QED
    BY <1>5, <1>6, <1>8, <1>9, <1>10, ZenonT(60)

\* The same, of Progress and Together at once.
LEMMA ReadAt ==
    ASSUME NEW e \in Endpoints, NEW pc \in 0..10, NEW rk, NEW wk, NEW h1 \in 0..3,
           NEW h2 \in 0..3, NEW lp, NEW lv, NEW msg, NEW ws, NEW chan \in Seq(Messages), NEW err,
           At(e, pc, "running", rk, wk, h1, h2, lp, lv, err, chan, msg, ws),
           Script(e)[pc + 1].op = "read", chan # <<>>
    PROVE  /\ pc + 1 # 11 /\ Head(chan) = Script(e)[pc + 1].arg
           /\ At(e, pc + 1, "running", rk, wk, h1, h2, lp, lv, err, Tail(chan), msg, ws)
<1>1. /\ Progress(e, pc, "running", rk, wk, h1, h2, lp, lv)
      /\ Together(e, pc, "running", h1 + h2, err, chan, lp, msg, ws)
    BY Zenon DEF At
<1>2. /\ pc + 1 # 11 /\ Head(chan) = Script(e)[pc + 1].arg
      /\ Progress(e, pc + 1, "running", rk, wk, h1, h2, lp, lv)
      /\ Together(e, pc + 1, "running", h1 + h2, err, Tail(chan), lp, msg, ws)
    BY <1>1, ReadKeeps, Zenon
<1>3. QED
    BY <1>2, Zenon DEF At

\* The run loop waits for x, and a read key is the last thing it waits for; x is
\* the next message that TLS reads.
WaitsFor(x, lp, ws, msg) ==
    /\ lp = "wait" /\ Head(ws) = x
    /\ x = "readKey" => Len(ws) = 1 /\ LastOfLevel(msg)
Comes(x, chan) == Head(chan) = x

LEMMA WaitsAt ==
    ASSUME NEW e \in Endpoints, NEW pc \in 0..10, NEW rk, NEW wk, NEW h1 \in 0..3,
           NEW h2 \in 0..3, NEW lp, NEW lv \in 1..2, NEW msg, NEW ws, NEW chan, NEW err,
           At(e, pc, "running", rk, wk, h1, h2, lp, lv, err, chan, msg, ws),
           Script(e)[pc + 1].op = "hand"
    PROVE  WaitsFor(Script(e)[pc + 1].arg, lp, ws, msg)
<1>1. /\ lp = "wait" /\ Head(ws) = Script(e)[pc + 1].arg /\ ~err
      /\ Script(e)[pc + 1].arg = "readKey" => Len(ws) = 1 /\ LastOfLevel(msg)
      /\ Len(ws) > 1 =>
            At(e, pc + 1, AfterStep(pc), ReadKey(e, pc + 1), WriteKey(e, pc + 1), h1, h2,
               lp, lv, err, chan, msg, Tail(ws))
      /\ Len(ws) <= 1 => \A new \in Onward : \A w :
            At(e, pc + 1, AfterStep(pc), ReadKey(e, pc + 1), WriteKey(e, pc + 1), h1, h2,
               new, lv, err, chan, msg, w)
    BY HandAt, Zenon
<1>2. QED
    BY <1>1, Zenon DEF WaitsFor

LEMMA ComesAt ==
    ASSUME NEW e \in Endpoints, NEW pc \in 0..10, NEW rk, NEW wk, NEW h1 \in 0..3,
           NEW h2 \in 0..3, NEW lp, NEW lv, NEW msg, NEW ws, NEW chan \in Seq(Messages), NEW err,
           At(e, pc, "running", rk, wk, h1, h2, lp, lv, err, chan, msg, ws),
           Script(e)[pc + 1].op = "read", chan # <<>>
    PROVE  Comes(Script(e)[pc + 1].arg, chan)
<1>3. /\ pc + 1 # 11 /\ Head(chan) = Script(e)[pc + 1].arg
      /\ At(e, pc + 1, "running", rk, wk, h1, h2, lp, lv, err, Tail(chan), msg, ws)
    BY ReadAt, Zenon
<1>2. QED
    BY <1>3, Zenon DEF Comes

LEMMA WriteAt ==
    ASSUME NEW e \in Endpoints, NEW pc \in 0..10, NEW rk, NEW wk, NEW h1 \in 0..3,
           NEW h2 \in 0..3, NEW lp, NEW lv, NEW msg, NEW ws, NEW chan, NEW err,
           At(e, pc, "running", rk, wk, h1, h2, lp, lv, err, chan, msg, ws),
           Script(e)[pc + 1].op = "write"
    PROVE  /\ pc + 1 # 11 /\ wk \in 1..2 /\ lp \in {"hello", "wait", "close"}
           /\ e = "server" => h1 = 1
           /\ At(e, pc + 1, "running", rk, wk, h1, h2, AfterWrite(e, lp), lv, err, chan, msg, ws)
<1>1. /\ Progress(e, pc, "running", rk, wk, h1, h2, lp, lv)
      /\ Together(e, pc, "running", h1 + h2, err, chan, lp, msg, ws)
    BY Zenon DEF At
<1>2. /\ pc + 1 # 11 /\ wk \in 1..2 /\ lp \in {"hello", "wait", "close"}
      /\ e = "server" => h1 = 1
      /\ Progress(e, pc + 1, "running", rk, wk, h1, h2, AfterWrite(e, lp), lv)
      /\ Together(e, pc + 1, "running", h1 + h2, err, chan, AfterWrite(e, lp), msg, ws)
    BY <1>1, WriteKeeps, Zenon
<1>3. QED
    BY <1>2, Zenon DEF At

LEMMA MessageAt ==
    ASSUME NEW e \in Endpoints, NEW pc \in 0..11, NEW st, NEW rk, NEW wk, NEW h1 \in 0..3,
           NEW h2 \in 0..3, NEW lv \in 1..2, NEW k, NEW m, NEW g1, NEW g2, NEW new,
           NEW err, NEW chan \in Seq(Messages), NEW msg, NEW ws,
           At(e, pc, st, rk, wk, h1, h2, "crypto", lv, err, chan, msg, ws),
           NextIs(e, lv, h1, h2, k, m, g1, g2, new)
    PROVE  /\ g1 \in 0..3 /\ g2 \in 0..3 /\ m \in Messages /\ Waits(e, m) \in Seq(Channels)
           /\ At(e, pc, st, rk, wk, g1, g2, new, lv, err, Append(chan, m), m, Waits(e, m))
<1>1. Progress(e, pc, st, rk, wk, h1, h2, "crypto", lv)
    BY Zenon DEF At
<1>2. /\ g1 \in 0..3 /\ g2 \in 0..3 /\ m \in Messages /\ Waits(e, m) \in Seq(Channels)
      /\ Progress(e, pc, st, rk, wk, g1, g2, new, lv)
      /\ Together(e, pc, st, h1 + h2, err, chan, "crypto", msg, ws)
            => Together(e, pc, st, g1 + g2, err, Append(chan, m), new, m, Waits(e, m))
    BY <1>1, MessageKeeps, ZenonT(60)
<1>3. QED
    BY <1>2, Zenon DEF At

\* The run loop may go from lp to new.
MayGo(st, rk, lp, new, lv2) ==
    /\ new \in {"select", "crypto", "close", "stopped"}
    /\ new = "crypto" => lv2 <= rk
    /\ new = "stopped" => st # "running"
    /\ new # "close" => lp # "hello" /\ (lp # "close" \/ new = "stopped")
    /\ lp # "wait" \/ st = "err"

-----------------------------------------------------------------------------
(* TLS and the run loop stay in step *)

\* The part of the state that Local is about.
Same(e) ==
    /\ tls'[e] = tls[e] /\ loop'[e] = loop[e] /\ msgs'[e] = msgs[e]
    /\ errs'[e] = errs[e] /\ keys'[e] = keys[e] /\ in'[e] = in[e]

\* What does not concern an endpoint does not change it.
LEMMA OtherEnd ==
    ASSUME NEW e, Local(e), Same(e)
    PROVE  Local(e)'
BY Zenon DEF Local, Same

\* A function that was changed in one place.
LEMMA OneChanged ==
    ASSUME NEW D, NEW S, NEW f \in [D -> S], NEW d \in D, NEW x \in S, NEW g,
           g = [f EXCEPT ![d] = x]
    PROVE  g \in [D -> S] /\ g[d] = x /\ \A z \in D : z # d => g[z] = f[z]
BY Zenon

LEMMA AdvanceIs ==
    ASSUME LocalTypes, NEW e \in Endpoints, Running(e), Advance(e)
    PROVE  /\ tls[e].pc \in 0..10 /\ tls[e].state = "running"
           /\ tls'[e].pc = tls[e].pc + 1
           /\ tls'[e].state = IF tls[e].pc + 1 = 11 THEN "ok" ELSE "running"
           /\ \A f \in Endpoints : f # e => tls'[f] = tls[f]
           /\ tls' \in [Endpoints -> TLSStates]
           /\ Step(e) = Script(e)[tls[e].pc + 1]
<1> DEFINE s == IF tls[e].pc + 1 = Len(Script(e)) THEN "ok" ELSE tls[e].state
           n == tls[e].pc + 1
           x == [tls[e] EXCEPT !.pc = n, !.state = s]
<1>1. tls \in [Endpoints -> TLSStates]
    BY Zenon DEF LocalTypes
<1>2. tls' = [tls EXCEPT ![e] = x]
    BY <1>1, Zenon DEF Advance
<1>3. tls[e] \in TLSStates /\ Len(Script(e)) = 11
    BY <1>1, ScriptLength, Zenon
<1>4. tls[e].pc \in 0..10 /\ tls[e].state = "running"
    BY <1>3, SMTT(30), Z3T(30) DEF Running, TLSStates
<1>5. n \in 0..11 /\ s = IF n = 11 THEN "ok" ELSE "running"
    BY <1>3, <1>4, SMTT(30), Z3T(30)
<1>6. s \in {"running", "ok", "err"}
    BY <1>5, ZenonT(30)
<1> HIDE DEF s, n
<1>7. x \in TLSStates /\ x.pc = n /\ x.state = s
    BY <1>3, <1>5, <1>6, Zenon DEF TLSStates
<1> HIDE DEF x
<1>8. QED
    BY <1>1, <1>2, <1>4, <1>5, <1>7, OneChanged, ZenonT(60) DEF Step, n

\* What the types say of one endpoint.
LEMMA LocalFacts ==
    ASSUME LocalTypes, NEW e \in Endpoints
    PROVE  /\ tls[e].pc \in 0..11 /\ tls[e].state \in {"running", "ok", "err"}
           /\ loop[e] \in LoopStates /\ loop[e].level \in 1..2 /\ loop[e].waits \in Seq(Channels)
           /\ msgs[e] \in MsgsStates /\ msgs[e].chan \in Seq(Messages)
           /\ keys[e] \in KeysStates /\ keys[e].read \in 1..3 /\ keys[e].write \in 1..3
           /\ in[e] \in [1..2 -> InStates]
           /\ in[e][1].handled \in 0..3 /\ in[e][2].handled \in 0..3
           /\ tls[e] \in TLSStates /\ errs[e] \in BOOLEAN
<1>1. /\ tls[e] \in TLSStates /\ loop[e] \in LoopStates /\ msgs[e] \in MsgsStates
      /\ keys[e] \in KeysStates /\ in[e] \in [1..2 -> InStates] /\ errs[e] \in BOOLEAN
    BY Zenon DEF LocalTypes
<1>2. in[e][1] \in InStates /\ in[e][2] \in InStates
    <2>1. 1 \in 1..2 /\ 2 \in 1..2
        OBVIOUS
    <2>2. QED
        BY <1>1, <2>1, Zenon
<1>3. tls[e].pc \in 0..11 /\ tls[e].state \in {"running", "ok", "err"}
    BY <1>1, ZenonT(30) DEF TLSStates
<1>4. loop[e].level \in 1..2 /\ loop[e].waits \in Seq(Channels)
    BY <1>1, ZenonT(30) DEF LoopStates
<1>5. msgs[e].chan \in Seq(Messages) /\ keys[e].read \in 1..3 /\ keys[e].write \in 1..3
    BY <1>1, ZenonT(30) DEF MsgsStates, KeysStates
<1>6. in[e][1].handled \in 0..3 /\ in[e][2].handled \in 0..3
    BY <1>2, ZenonT(30) DEF InStates
<1>7. QED
    BY <1>1, <1>3, <1>4, <1>5, <1>6, ZenonT(30)

\* The invariant of e after a step of e.
Kept(e) == LocalTypes' /\ Local(e)' /\ \A f \in Endpoints : f # e => Same(f)

Failed(e) == tls' = [tls EXCEPT ![e].state = "err"]

\* TLS fails, while the run loop does nothing.
LEMMA FailStays ==
    ASSUME LocalTypes, NEW e \in Endpoints, Local(e),
           Failed(e), UNCHANGED <<loop, errs, keys, in>>,
           msgs' \in [Endpoints -> MsgsStates],
           \A f \in Endpoints : f # e => msgs'[f] = msgs[f]
    PROVE  Kept(e)
<1> DEFINE x == [tls[e] EXCEPT !.state = "err"]
<1>1. tls \in [Endpoints -> TLSStates]
    BY Zenon DEF LocalTypes
<1>2. tls' = [tls EXCEPT ![e] = x] /\ tls[e] \in TLSStates
    BY <1>1, Zenon DEF Failed
<1>3. x \in TLSStates /\ x.pc = tls[e].pc /\ x.state = "err"
    BY <1>2, ZenonT(30) DEF TLSStates
<1> HIDE DEF x
<1>4. /\ tls' \in [Endpoints -> TLSStates] /\ tls'[e] = x
      /\ \A f \in Endpoints : f # e => tls'[f] = tls[f]
    BY <1>1, <1>2, <1>3, OneChanged, Zenon
<1>5. Progress(e, tls[e].pc, "err", keys[e].read, keys[e].write,
               in[e][1].handled, in[e][2].handled, loop[e].pc, loop[e].level)
    BY FailKeeps, Zenon DEF Local, At
<1>6. Local(e)'
    BY <1>3, <1>4, <1>5, Zenon DEF Local, At
<1>7. LocalTypes'
    BY <1>4, Zenon DEF LocalTypes
<1>8. \A f \in Endpoints : f # e => Same(f)
    BY <1>4, Zenon DEF Same
<1>9. QED
    BY <1>6, <1>7, <1>8, Zenon DEF Kept

LEMMA ReadStays ==
    ASSUME LocalTypes, NEW e \in Endpoints, Local(e), TLSRead(e)
    PROVE  Kept(e)
<1> DEFINE c == Tail(msgs[e].chan)
           x == [msgs[e] EXCEPT !.chan = c]
<1>1. /\ msgs[e] \in MsgsStates /\ msgs[e].chan \in Seq(Messages)
      /\ in[e][1].handled \in 0..3 /\ in[e][2].handled \in 0..3
    BY LocalFacts, Zenon
<1>2. msgs \in [Endpoints -> MsgsStates]
    BY Zenon DEF LocalTypes
<1>3. msgs' = [msgs EXCEPT ![e] = x] /\ msgs[e].chan # <<>> /\ Running(e) /\ Step(e).op = "read"
    BY <1>2, Zenon DEF TLSRead
<1>4. c \in Seq(Messages)
    BY <1>1, <1>3, SMTT(30), Z3T(30)
<1> HIDE DEF c
<1>5. x \in MsgsStates /\ x.chan = c
    BY <1>1, <1>4, ZenonT(30) DEF MsgsStates
<1> HIDE DEF x
<1>6. /\ msgs' \in [Endpoints -> MsgsStates] /\ msgs'[e] = x
      /\ \A f \in Endpoints : f # e => msgs'[f] = msgs[f]
    BY <1>2, <1>3, <1>5, OneChanged, Zenon
<1>7. UNCHANGED <<loop, errs, keys, in>>
    BY ZenonT(30) DEF TLSRead
<1>8. CASE Failed(e)
    BY <1>6, <1>7, <1>8, FailStays, ZenonT(60)
<1>9. CASE Advance(e)
    <2>1. /\ tls[e].pc \in 0..10 /\ tls[e].state = "running" /\ tls'[e].pc = tls[e].pc + 1
          /\ tls'[e].state = IF tls[e].pc + 1 = 11 THEN "ok" ELSE "running"
          /\ \A f \in Endpoints : f # e => tls'[f] = tls[f]
          /\ tls' \in [Endpoints -> TLSStates]
          /\ Step(e) = Script(e)[tls[e].pc + 1]
        BY <1>3, <1>9, AdvanceIs, ZenonT(60)
    <2>2. At(e, tls[e].pc, "running", keys[e].read, keys[e].write,
             in[e][1].handled, in[e][2].handled, loop[e].pc, loop[e].level,
             errs[e], msgs[e].chan, loop[e].msg, loop[e].waits)
        BY <2>1, Zenon DEF Local
    <2>8. Script(e)[tls[e].pc + 1].op = "read"
        BY <1>3, <2>1, Zenon
    <2>3. /\ tls[e].pc + 1 # 11
          /\ At(e, tls[e].pc + 1, "running", keys[e].read, keys[e].write,
                in[e][1].handled, in[e][2].handled, loop[e].pc, loop[e].level,
                errs[e], c, loop[e].msg, loop[e].waits)
        BY <1>1, <1>3, <2>1, <2>2, <2>8, ReadAt, ZenonT(60) DEF c
    <2>4. Local(e)'
        BY <1>5, <1>6, <1>7, <2>1, <2>3, ZenonT(60) DEF Local
    <2>5. LocalTypes'
        BY <1>6, <1>7, <2>1, ZenonT(60) DEF LocalTypes
    <2>6. \A f \in Endpoints : f # e => Same(f)
        BY <1>6, <1>7, <2>1, ZenonT(60) DEF Same
    <2>7. QED
        BY <2>4, <2>5, <2>6, Zenon DEF Kept
<1>10. QED
    BY <1>8, <1>9, Zenon DEF TLSRead, Failed

LEMMA ReadClosedStays ==
    ASSUME LocalTypes, NEW e \in Endpoints, Local(e), TLSReadClosed(e)
    PROVE  Kept(e)
<1>1. Failed(e) /\ UNCHANGED <<loop, errs, keys, in>> /\ msgs' = msgs
    BY Zenon DEF TLSReadClosed, Failed
<1>2. msgs \in [Endpoints -> MsgsStates]
    BY Zenon DEF LocalTypes
<1>3. QED
    BY <1>1, <1>2, FailStays, Zenon


\* The run loop goes on at a.
GoesTo(e, a) == loop' = [loop EXCEPT ![e].pc = a]

LEMMA GoesToIs ==
    ASSUME LocalTypes, NEW e \in Endpoints,
           NEW a \in {"hello", "select", "crypto", "wait", "close", "stopped"}, GoesTo(e, a)
    PROVE  /\ loop' \in [Endpoints -> LoopStates]
           /\ loop'[e].pc = a /\ loop'[e].level = loop[e].level
           /\ loop'[e].msg = loop[e].msg /\ loop'[e].waits = loop[e].waits
           /\ \A f \in Endpoints : f # e => loop'[f] = loop[f]
<1> DEFINE x == [loop[e] EXCEPT !.pc = a]
<1>1. loop \in [Endpoints -> LoopStates]
    BY Zenon DEF LocalTypes
<1>2. loop' = [loop EXCEPT ![e] = x] /\ loop[e] \in LoopStates
    BY <1>1, Zenon DEF GoesTo
<1>3. /\ x \in LoopStates /\ x.pc = a /\ x.level = loop[e].level
      /\ x.msg = loop[e].msg /\ x.waits = loop[e].waits
    BY <1>2, ZenonT(30) DEF LoopStates
<1> HIDE DEF x
<1>4. /\ loop' \in [Endpoints -> LoopStates] /\ loop'[e] = x
      /\ \A f \in Endpoints : f # e => loop'[f] = loop[f]
    BY <1>1, <1>2, <1>3, OneChanged, ZenonT(60)
<1>5. QED
    BY <1>3, <1>4, Zenon

LEMMA WriteStays ==
    ASSUME LocalTypes, NEW e \in Endpoints, Local(e), WriteRecord(e)
    PROVE  Kept(e) /\ keys[e].write \in 1..2 /\ (e = "server" => in[e][1].handled = 1)
<1> DEFINE new == AfterWrite(e, loop[e].pc)
<1>1. Running(e) /\ Step(e).op = "write" /\ Advance(e) /\ UNCHANGED <<msgs, errs, keys, in>>
    BY ZenonT(30) DEF WriteRecord
<1>2. /\ tls[e].pc \in 0..10 /\ tls[e].state = "running" /\ tls'[e].pc = tls[e].pc + 1
      /\ tls'[e].state = IF tls[e].pc + 1 = 11 THEN "ok" ELSE "running"
      /\ \A f \in Endpoints : f # e => tls'[f] = tls[f]
      /\ tls' \in [Endpoints -> TLSStates]
      /\ Step(e) = Script(e)[tls[e].pc + 1]
    BY <1>1, AdvanceIs, Zenon
<1>3. Script(e)[tls[e].pc + 1].op = "write"
    BY <1>1, <1>2, Zenon
<1>4. /\ loop' \in [Endpoints -> LoopStates]
      /\ loop'[e].pc = new /\ loop'[e].level = loop[e].level
      /\ loop'[e].msg = loop[e].msg /\ loop'[e].waits = loop[e].waits
      /\ \A f \in Endpoints : f # e => loop'[f] = loop[f]
    <2>1. CASE e = "client" /\ loop[e].pc = "hello"
        <3>1. GoesTo(e, "select") /\ new = "select"
            BY <2>1, Zenon DEF WriteRecord, GoesTo, AfterWrite
        <3> HIDE DEF new
        <3>2. "select" \in {"hello", "select", "crypto", "wait", "close", "stopped"}
            BY Zenon
        <3>3. QED
            BY <3>1, <3>2, GoesToIs, ZenonT(60)
    <2>2. CASE ~ (e = "client" /\ loop[e].pc = "hello")
        BY <2>2, Zenon DEF WriteRecord, LocalTypes, AfterWrite
    <2>3. QED
        BY <2>1, <2>2, Zenon
<1>5. in[e][1].handled \in 0..3 /\ in[e][2].handled \in 0..3
    BY LocalFacts, ZenonT(60)
<1>11. At(e, tls[e].pc, "running", keys[e].read, keys[e].write,
          in[e][1].handled, in[e][2].handled, loop[e].pc, loop[e].level,
          errs[e], msgs[e].chan, loop[e].msg, loop[e].waits)
    BY <1>2, Zenon DEF Local
<1>6. /\ tls[e].pc + 1 # 11 /\ keys[e].write \in 1..2 /\ (e = "server" => in[e][1].handled = 1)
      /\ At(e, tls[e].pc + 1, "running", keys[e].read, keys[e].write,
            in[e][1].handled, in[e][2].handled, new, loop[e].level,
            errs[e], msgs[e].chan, loop[e].msg, loop[e].waits)
    <2>1. tls[e].pc \in 0..10
        BY <1>2, Zenon
    <2>2. QED
        BY <1>3, <1>5, <1>11, <2>1, WriteAt, ZenonT(60)
<1> HIDE DEF new
<1>7. Local(e)'
    BY <1>1, <1>2, <1>4, <1>6, ZenonT(60) DEF Local
<1>8. LocalTypes'
    BY <1>1, <1>2, <1>4, ZenonT(60) DEF LocalTypes
<1>9. \A f \in Endpoints : f # e => Same(f)
    BY <1>1, <1>2, <1>4, ZenonT(60) DEF Same
<1>10. QED
    BY <1>6, <1>7, <1>8, <1>9, ZenonT(60) DEF Kept


\* The end of HandleMessage, whether TLS has handed over everything or has failed.
LEMMA HandledIs ==
    ASSUME LocalTypes, NEW e \in Endpoints, MessageHandled(e)
    PROVE  /\ loop' \in [Endpoints -> LoopStates]
           /\ loop'[e].pc \in Onward /\ loop'[e].level = loop[e].level
           /\ loop'[e].msg = loop[e].msg
           /\ \A f \in Endpoints : f # e => loop'[f] = loop[f]
           /\ in' \in [Endpoints -> [1..2 -> InStates]]
           /\ in'[e][1].handled = in[e][1].handled /\ in'[e][2].handled = in[e][2].handled
           /\ \A f \in Endpoints : f # e => in'[f] = in[f]
<1>1. loop \in [Endpoints -> LoopStates] /\ in \in [Endpoints -> [1..2 -> InStates]]
    BY Zenon DEF LocalTypes
<1>2. loop[e] \in LoopStates /\ in[e] \in [1..2 -> InStates]
    BY <1>1, Zenon
<1> DEFINE l == loop[e].level
<1>3. l \in 1..2
    BY <1>2, ZenonT(30) DEF LoopStates
<1>4. ASSUME NEW a \in {"select", "crypto"}, loop' = [loop EXCEPT ![e].pc = a, ![e].waits = <<>>]
      PROVE  /\ loop' \in [Endpoints -> LoopStates]
             /\ loop'[e].pc \in {"select", "crypto"} /\ loop'[e].level = l
             /\ loop'[e].msg = loop[e].msg
             /\ \A f \in Endpoints : f # e => loop'[f] = loop[f]
    <2> DEFINE x == [loop[e] EXCEPT !.pc = a, !.waits = <<>>]
               new == [loop EXCEPT ![e] = x]
    <2>1. loop' = new
        BY <1>1, <1>4, Zenon
    <2>2. <<>> \in Seq(Channels)
        OBVIOUS
    <2>3. x \in LoopStates /\ x.pc = a /\ x.level = l /\ x.msg = loop[e].msg
        BY <1>2, <2>2, Zenon DEF LoopStates
    <2> HIDE DEF x
    <2>4. /\ new \in [Endpoints -> LoopStates] /\ new[e] = x
          /\ \A f \in Endpoints : f # e => new[f] = loop[f]
        BY <1>1, <2>3, OneChanged, ZenonT(60)
    <2> HIDE DEF new
    <2>5. QED
        BY <2>1, <2>3, <2>4, ZenonT(60)
<1>5. CASE LastOfLevel(loop[e].msg) /\ ~errs[e]
    <2>1. /\ loop' = [loop EXCEPT ![e].pc = "select", ![e].waits = <<>>]
          /\ in' = [in EXCEPT ![e][l].finished = TRUE]
        BY <1>5, Zenon DEF MessageHandled
    <2> DEFINE y == [in[e][l] EXCEPT !.finished = TRUE]
               x == [in[e] EXCEPT ![l] = y]
               new == [in EXCEPT ![e] = x]
    <2>2. in' = new
        BY <1>1, <2>1, ZenonT(60)
    <2>3. in[e][l] \in InStates
        BY <1>2, <1>3, Zenon
    <2>4. y \in InStates /\ y.handled = in[e][l].handled
        BY <2>3, Zenon DEF InStates
    <2> HIDE DEF y, l
    <2>5. x \in [1..2 -> InStates] /\ x[l] = y /\ \A k \in 1..2 : k # l => x[k] = in[e][k]
        BY <1>2, <1>3, <2>4, OneChanged, ZenonT(60)
    <2> HIDE DEF x
    <2>6. /\ new \in [Endpoints -> [1..2 -> InStates]] /\ new[e] = x
          /\ \A f \in Endpoints : f # e => new[f] = in[f]
        BY <1>1, <2>5, OneChanged, ZenonT(60)
    <2> HIDE DEF new
    <2>7. \A k \in 1..2 : x[k].handled = in[e][k].handled
        BY <2>4, <2>5, Zenon
    <2>8. 1 \in 1..2 /\ 2 \in 1..2
        OBVIOUS
    <2>9. in'[e][1].handled = in[e][1].handled /\ in'[e][2].handled = in[e][2].handled
        BY <2>2, <2>6, <2>7, <2>8, ZenonT(60)
    <2>10. "select" \in {"select", "crypto"}
        BY Zenon
    <2>11. /\ loop' \in [Endpoints -> LoopStates]
           /\ loop'[e].pc \in {"select", "crypto"} /\ loop'[e].level = l
           /\ loop'[e].msg = loop[e].msg
           /\ \A f \in Endpoints : f # e => loop'[f] = loop[f]
        BY <1>4, <2>1, <2>10, ZenonT(60)
    <2>12. QED
        BY <2>2, <2>6, <2>9, <2>11, ZenonT(60) DEF l, Onward
<1>6. CASE ~ (LastOfLevel(loop[e].msg) /\ ~errs[e])
    <2>1. loop' = [loop EXCEPT ![e].pc = "crypto", ![e].waits = <<>>] /\ in' = in
        BY <1>6, Zenon DEF MessageHandled
    <2>2. "crypto" \in {"select", "crypto"}
        BY Zenon
    <2>3. QED
        BY <1>1, <1>4, <2>1, <2>2, ZenonT(60) DEF Onward
<1>7. QED
    BY <1>5, <1>6, Zenon


\* The keys of HandOver.
Installs(e) ==
    keys' = CASE Step(e).arg = "readKey" -> [keys EXCEPT ![e].read = @ + 1]
              [] Step(e).arg = "writeKey" -> [keys EXCEPT ![e].write = @ + 1]
              [] OTHER -> keys

LEMMA KeysAre ==
    ASSUME LocalTypes, NEW e \in Endpoints, tls[e].pc \in 0..10, Installs(e),
           keys[e].read = ReadKey(e, tls[e].pc), keys[e].write = WriteKey(e, tls[e].pc),
           Step(e) = Script(e)[tls[e].pc + 1], Step(e).op = "hand"
    PROVE  /\ keys' \in [Endpoints -> KeysStates]
           /\ keys'[e].read = ReadKey(e, tls[e].pc + 1)
           /\ keys'[e].write = WriteKey(e, tls[e].pc + 1)
           /\ Step(e).arg # "readKey" => keys'[e].read = keys[e].read
           /\ \A f \in Endpoints : f # e => keys'[f] = keys[f]
<1> DEFINE arg == Step(e).arg
           pc == tls[e].pc
           r == ReadKey(e, pc + 1)
           w == WriteKey(e, pc + 1)
<1>1. /\ r = IF arg = "readKey" THEN ReadKey(e, pc) + 1 ELSE ReadKey(e, pc)
      /\ w = IF arg = "writeKey" THEN WriteKey(e, pc) + 1 ELSE WriteKey(e, pc)
    BY HandStep, ZenonT(30)
<1>2. r \in 1..3 /\ w \in 1..3
    <2>1. pc + 1 \in 0..11 /\ 0 \in 0..LastMsg(e)
        BY DEF LastMsg
    <2>2. QED
        BY <2>1, ScriptTypes, Zenon
<1>3. keys \in [Endpoints -> KeysStates]
    BY Zenon DEF LocalTypes
<1>4. keys[e] \in KeysStates
    BY <1>3, Zenon
<1> HIDE DEF r, w
<1>5. CASE arg = "readKey"
    <2>1. r = keys[e].read + 1 /\ w = keys[e].write
        BY <1>1, <1>5, Zenon
    <2> DEFINE x == [keys[e] EXCEPT !.read = r]
               new == [keys EXCEPT ![e] = x]
    <2>2. keys' = new
        BY <1>3, <1>5, <2>1, ZenonT(30) DEF Installs
    <2>3. x \in KeysStates /\ x.read = r /\ x.write = w
        BY <1>2, <1>4, <2>1, Zenon DEF KeysStates
    <2> HIDE DEF x
    <2>4. /\ new \in [Endpoints -> KeysStates] /\ new[e] = x
          /\ \A f \in Endpoints : f # e => new[f] = keys[f]
        BY <1>3, <2>3, OneChanged, Zenon
    <2> HIDE DEF new
    <2>5. QED
        BY <1>5, <2>2, <2>3, <2>4, ZenonT(60) DEF r, w
<1>6. CASE arg = "writeKey"
    <2>1. r = keys[e].read /\ w = keys[e].write + 1
        BY <1>1, <1>6, Zenon
    <2> DEFINE x == [keys[e] EXCEPT !.write = w]
               new == [keys EXCEPT ![e] = x]
    <2>2. keys' = new
        BY <1>3, <1>6, <2>1, Zenon DEF Installs
    <2>3. x \in KeysStates /\ x.read = r /\ x.write = w
        BY <1>2, <1>4, <2>1, ZenonT(30) DEF KeysStates
    <2> HIDE DEF x
    <2>4. /\ new \in [Endpoints -> KeysStates] /\ new[e] = x
          /\ \A f \in Endpoints : f # e => new[f] = keys[f]
        BY <1>3, <2>3, OneChanged, Zenon
    <2> HIDE DEF new
    <2>5. QED
        BY <2>1, <2>2, <2>3, <2>4, ZenonT(60) DEF r, w
<1>7. CASE arg # "readKey" /\ arg # "writeKey"
    <2>1. r = keys[e].read /\ w = keys[e].write /\ keys' = keys
        BY <1>1, <1>7, Zenon DEF Installs
    <2>2. QED
        BY <1>3, <2>1, Zenon DEF r, w
<1>8. QED
    BY <1>5, <1>6, <1>7, Zenon

LEMMA LongerThanOne == ASSUME NEW s \in Seq(Channels), Len(s) > 1 PROVE Len(s) # 1
<1>1. \A n \in Nat : n > 1 => n # 1
    OBVIOUS
<1>2. Len(s) \in Nat
    OBVIOUS
<1>3. QED
    BY <1>1, <1>2, Zenon

LEMMA HandOverStays ==
    ASSUME LocalTypes, NEW e \in Endpoints, Local(e), HandOver(e)
    PROVE  /\ Kept(e)
           /\ in'[e][1].handled = in[e][1].handled
           /\ undec' = [undec EXCEPT ![e] = {}] \/ (undec' = undec /\ keys'[e].read = keys[e].read)
<1> DEFINE pc == tls[e].pc
<1>1. Running(e) /\ Step(e).op = "hand" /\ Advance(e) /\ Installs(e) /\ UNCHANGED <<msgs, errs>>
    BY Zenon DEF HandOver, Installs
<1>2. /\ pc \in 0..10 /\ tls[e].state = "running" /\ tls'[e].pc = pc + 1
      /\ tls'[e].state = IF pc + 1 = 11 THEN "ok" ELSE "running"
      /\ \A f \in Endpoints : f # e => tls'[f] = tls[f]
      /\ tls' \in [Endpoints -> TLSStates]
      /\ Step(e) = Script(e)[pc + 1]
    BY <1>1, AdvanceIs, Zenon
<1>3. Script(e)[pc + 1].op = "hand" /\ tls'[e].state = AfterStep(pc) /\ pc \in 0..10
    BY <1>1, <1>2, Zenon DEF AfterStep
<1>4. /\ in[e][1].handled \in 0..3 /\ in[e][2].handled \in 0..3 /\ loop[e].level \in 1..2
      /\ loop[e] \in LoopStates /\ loop[e].waits \in Seq(Channels)
    BY LocalFacts, Zenon
<1>5. At(e, pc, "running", keys[e].read, keys[e].write,
         in[e][1].handled, in[e][2].handled, loop[e].pc, loop[e].level,
         errs[e], msgs[e].chan, loop[e].msg, loop[e].waits)
    BY <1>2, Zenon DEF Local
<1>6. keys[e].read = ReadKey(e, pc) /\ keys[e].write = WriteKey(e, pc)
    BY <1>5, Zenon DEF At, Progress
<1>7. /\ keys' \in [Endpoints -> KeysStates]
      /\ keys'[e].read = ReadKey(e, pc + 1) /\ keys'[e].write = WriteKey(e, pc + 1)
      /\ Step(e).arg # "readKey" => keys'[e].read = keys[e].read
      /\ \A f \in Endpoints : f # e => keys'[f] = keys[f]
    BY <1>1, <1>2, <1>6, KeysAre, ZenonT(60)
<1>8. /\ loop[e].pc = "wait" /\ ~errs[e]
      /\ Step(e).arg = "readKey" => Len(loop[e].waits) = 1 /\ LastOfLevel(loop[e].msg)
      /\ Len(loop[e].waits) > 1 =>
            At(e, pc + 1, AfterStep(pc), ReadKey(e, pc + 1), WriteKey(e, pc + 1),
               in[e][1].handled, in[e][2].handled, loop[e].pc, loop[e].level,
               errs[e], msgs[e].chan, loop[e].msg, Tail(loop[e].waits))
      /\ Len(loop[e].waits) <= 1 => \A new \in Onward : \A w :
            At(e, pc + 1, AfterStep(pc), ReadKey(e, pc + 1), WriteKey(e, pc + 1),
               in[e][1].handled, in[e][2].handled, new, loop[e].level,
               errs[e], msgs[e].chan, loop[e].msg, w)
    <2> HIDE DEF pc
    <2>1. loop[e].pc = "wait" /\ ~errs[e]
        BY <1>5, Zenon DEF HandOver, At, Together
    <2>2. Step(e).arg = "readKey" => Len(loop[e].waits) = 1 /\ LastOfLevel(loop[e].msg)
        <3>1. WaitsFor(Script(e)[pc + 1].arg, loop[e].pc, loop[e].waits, loop[e].msg)
            BY <1>3, <1>4, <1>5, WaitsAt, ZenonT(60)
        <3>2. QED
            BY <1>2, <3>1, Zenon DEF WaitsFor
    <2>3. Len(loop[e].waits) > 1 =>
            At(e, pc + 1, AfterStep(pc), ReadKey(e, pc + 1), WriteKey(e, pc + 1),
               in[e][1].handled, in[e][2].handled, loop[e].pc, loop[e].level,
               errs[e], msgs[e].chan, loop[e].msg, Tail(loop[e].waits))
        BY <1>3, <1>4, <1>5, HandAt, ZenonT(60)
    <2>4. Len(loop[e].waits) <= 1 => \A new \in Onward : \A w :
            At(e, pc + 1, AfterStep(pc), ReadKey(e, pc + 1), WriteKey(e, pc + 1),
               in[e][1].handled, in[e][2].handled, new, loop[e].level,
               errs[e], msgs[e].chan, loop[e].msg, w)
        BY <1>3, <1>4, <1>5, HandAt, ZenonT(60)
    <2>5. QED
        BY <2>1, <2>2, <2>3, <2>4, ZenonT(60)


<1>9. /\ LocalTypes' /\ Local(e)' /\ (\A f \in Endpoints : f # e => Same(f))
      /\ in'[e][1].handled = in[e][1].handled
      /\ undec' = [undec EXCEPT ![e] = {}] \/ (undec' = undec /\ Step(e).arg # "readKey")
    <2>1. CASE Len(loop[e].waits) > 1
        <3> DEFINE t == Tail(loop[e].waits)
                   x == [loop[e] EXCEPT !.waits = t]
                   new == [loop EXCEPT ![e] = x]
        <3>1. loop \in [Endpoints -> LoopStates]
            BY Zenon DEF LocalTypes
        <3>2. loop' = new /\ in' = in /\ undec' = undec
            BY <2>1, <3>1, ZenonT(60) DEF HandOver
        <3>3. t \in Seq(Channels)
            BY <1>4, <2>1, SMTT(30), Z3T(30)
        <3>12. Step(e).arg = "readKey" => Len(loop[e].waits) = 1
            BY <1>8, Zenon
        <3>13. Len(loop[e].waits) # 1
            BY <1>4, <2>1, LongerThanOne, Zenon
        <3>4. Step(e).arg # "readKey"
            BY <3>12, <3>13, Zenon
        <3>5. At(e, pc + 1, AfterStep(pc), ReadKey(e, pc + 1), WriteKey(e, pc + 1),
                 in[e][1].handled, in[e][2].handled, loop[e].pc, loop[e].level,
                 errs[e], msgs[e].chan, loop[e].msg, t)
            BY <1>8, <2>1, Zenon
        <3> HIDE DEF t
        <3>6. /\ x \in LoopStates /\ x.waits = t /\ x.pc = loop[e].pc /\ x.level = loop[e].level
              /\ x.msg = loop[e].msg
            BY <1>4, <3>3, ZenonT(30) DEF LoopStates
        <3> HIDE DEF x
        <3>7. /\ new \in [Endpoints -> LoopStates] /\ new[e] = x
              /\ \A f \in Endpoints : f # e => new[f] = loop[f]
            BY <3>1, <3>6, OneChanged, Zenon
        <3> HIDE DEF new, pc
        <3>8. Local(e)'
            <4>1. /\ tls'[e].pc = pc + 1 /\ tls'[e].state = AfterStep(pc)
                  /\ keys'[e].read = ReadKey(e, pc + 1) /\ keys'[e].write = WriteKey(e, pc + 1)
                BY <1>2, <1>3, <1>7, Zenon
            <4>2. /\ loop'[e].pc = loop[e].pc /\ loop'[e].level = loop[e].level
                  /\ loop'[e].msg = loop[e].msg /\ loop'[e].waits = t
                BY <3>2, <3>6, <3>7, Zenon
            <4>3. QED
                BY <1>1, <3>2, <3>5, <4>1, <4>2, ZenonT(60) DEF Local
        <3>9. LocalTypes'
            BY <1>1, <1>2, <1>7, <3>2, <3>7, ZenonT(60) DEF LocalTypes
        <3>10. \A f \in Endpoints : f # e => Same(f)
            BY <1>1, <1>2, <1>7, <3>2, <3>7, Zenon DEF Same
        <3>11. QED
            BY <3>2, <3>4, <3>8, <3>9, <3>10, ZenonT(60)
    <2>2. CASE ~(Len(loop[e].waits) > 1)
        <3>1. MessageHandled(e)
            BY <2>2, Zenon DEF HandOver
        <3>2. /\ loop' \in [Endpoints -> LoopStates]
              /\ loop'[e].pc \in Onward /\ loop'[e].level = loop[e].level
              /\ loop'[e].msg = loop[e].msg
              /\ \A f \in Endpoints : f # e => loop'[f] = loop[f]
              /\ in' \in [Endpoints -> [1..2 -> InStates]]
              /\ in'[e][1].handled = in[e][1].handled /\ in'[e][2].handled = in[e][2].handled
              /\ \A f \in Endpoints : f # e => in'[f] = in[f]
            BY <3>1, HandledIs, Zenon
        <3>3. undec' = [undec EXCEPT ![e] = {}] \/ (undec' = undec /\ Step(e).arg # "readKey")
            BY <1>8, <3>1, ZenonT(60) DEF MessageHandled, TryDecryptingQueuedPackets
        <3>4. Len(loop[e].waits) <= 1
            BY <1>4, <2>2, SMTT(30), Z3T(30)
        <3>5. At(e, pc + 1, AfterStep(pc), ReadKey(e, pc + 1), WriteKey(e, pc + 1),
                 in[e][1].handled, in[e][2].handled, loop'[e].pc, loop[e].level,
                 errs[e], msgs[e].chan, loop[e].msg, loop'[e].waits)
            BY <1>8, <3>2, <3>4, ZenonT(60)
        <3> HIDE DEF pc
        <3>8. Local(e)'
            <4>1. /\ tls'[e].pc = pc + 1 /\ tls'[e].state = AfterStep(pc)
                  /\ keys'[e].read = ReadKey(e, pc + 1) /\ keys'[e].write = WriteKey(e, pc + 1)
                BY <1>2, <1>3, <1>7, Zenon
            <4>2. /\ loop'[e].level = loop[e].level /\ loop'[e].msg = loop[e].msg
                  /\ in'[e][1].handled = in[e][1].handled /\ in'[e][2].handled = in[e][2].handled
                BY <3>2, Zenon
            <4>3. QED
                BY <1>1, <3>5, <4>1, <4>2, ZenonT(60) DEF Local
        <3>9. LocalTypes'
            BY <1>1, <1>2, <1>7, <3>2, ZenonT(60) DEF LocalTypes
        <3>10. \A f \in Endpoints : f # e => Same(f)
            BY <1>1, <1>2, <1>7, <3>2, ZenonT(60) DEF Same
        <3>11. QED
            BY <3>2, <3>3, <3>8, <3>9, <3>10, Zenon
    <2>3. QED
        BY <2>1, <2>2, Zenon
<1>10. QED
    BY <1>7, <1>9, Zenon DEF Kept


LEMMA MessageStays ==
    ASSUME LocalTypes, NEW e \in Endpoints, Local(e), HandleMessage(e)
    PROVE  Kept(e) /\ (in[e][1].handled = 1 => in'[e][1].handled = 1)
<1> DEFINE l == loop[e].level
           h1 == in[e][1].handled
           h2 == in[e][2].handled
           k == in[e][l].handled + 1
           m == Flight(Peer(e), l)[k]
           g1 == IF l = 1 THEN k ELSE h1
           g2 == IF l = 1 THEN h2 ELSE k
           p == IF Waits(e, m) = <<>> THEN "crypto" ELSE "wait"
           c == Append(msgs[e].chan, m)
<1>1. /\ tls[e].pc \in 0..11 /\ loop[e] \in LoopStates /\ l \in 1..2
      /\ msgs[e] \in MsgsStates /\ msgs[e].chan \in Seq(Messages)
      /\ h1 \in 0..3 /\ h2 \in 0..3 /\ in[e] \in [1..2 -> InStates]
    BY LocalFacts, Zenon
<1>2. /\ loop[e].pc = "crypto" /\ k \in DOMAIN Flight(Peer(e), l)
      /\ in' = [in EXCEPT ![e][l].handled = k]
      /\ msgs' = [msgs EXCEPT ![e].chan = Append(@, m)]
      /\ loop' = [loop EXCEPT ![e].msg = m, ![e].waits = Waits(e, m), ![e].pc = p]
      /\ UNCHANGED <<tls, errs, keys>>
    BY Zenon DEF HandleMessage
<1>3. At(e, tls[e].pc, tls[e].state, keys[e].read, keys[e].write, h1, h2, "crypto", l,
         errs[e], msgs[e].chan, loop[e].msg, loop[e].waits)
    BY <1>2, Zenon DEF Local
<1>4. NextIs(e, l, h1, h2, k, m, g1, g2, p)
    <2>1. k = (IF l = 1 THEN h1 ELSE h2) + 1
        BY <1>1, SMTT(30), Z3T(30)
    <2>2. QED
        BY <1>2, <2>1, ZenonT(60) DEF NextIs
<1>5. /\ loop \in [Endpoints -> LoopStates] /\ msgs \in [Endpoints -> MsgsStates]
      /\ in \in [Endpoints -> [1..2 -> InStates]]
    BY Zenon DEF LocalTypes
<1>6. h1 = 1 => g1 = 1
    <2>1. h1 = 1 => l # 1
        <3>1. \A i \in Nat : i + 1 \in {1} => i = 0
            BY SMTT(30), Z3T(30)
        <3>2. DOMAIN Flight(Peer(e), 1) = {1}
            BY Flights, SMTT(30), Z3T(30) DEF Endpoints
        <3>3. ASSUME l = 1 PROVE h1 = 0
            <4>1. h1 + 1 \in {1}
                BY <1>2, <3>2, <3>3, ZenonT(60)
            <4>2. h1 \in Nat
                BY <1>1, SMTT(30), Z3T(30)
            <4>3. QED
                BY <3>1, <4>1, <4>2, Zenon
        <3>4. QED
            BY <3>3, SMTT(30), Z3T(30)
    <2>2. QED
        BY <2>1, ZenonT(30)
<1>7. in[e][l] \in InStates /\ k \in 1..4
    <2>1. in[e][l] \in InStates
        BY <1>1, Zenon
    <2>2. QED
        BY <2>1 DEF InStates
<1>8. g1 = (IF l = 1 THEN k ELSE h1) /\ g2 = (IF l = 1 THEN h2 ELSE k)
    BY ZenonT(30)
<1>16. in' = [in EXCEPT ![e] = [in[e] EXCEPT ![l] = [in[e][l] EXCEPT !.handled = k]]]
    BY <1>2, <1>5, ZenonT(60)
<1>17. msgs' = [msgs EXCEPT ![e] = [msgs[e] EXCEPT !.chan = c]]
    BY <1>2, <1>5, Zenon
<1>18. loop' = [loop EXCEPT ![e] = [loop[e] EXCEPT !.msg = m, !.waits = Waits(e, m), !.pc = p]]
    BY <1>2, <1>5, ZenonT(30)
<1>19. p \in {"hello", "select", "crypto", "wait", "close", "stopped"}
    BY ZenonT(30)
<1>20. in[e][1].handled = h1 /\ in[e][2].handled = h2
    BY ZenonT(30)
<1>21. c = Append(msgs[e].chan, m)
    BY Zenon
<1>22. loop[e].level = l
    BY ZenonT(30)
<1> HIDE DEF g1, g2, p, h1, h2, k, m, c, l
<1>9. /\ g1 \in 0..3 /\ g2 \in 0..3 /\ m \in Messages /\ Waits(e, m) \in Seq(Channels)
      /\ At(e, tls[e].pc, tls[e].state, keys[e].read, keys[e].write, g1, g2, p, l,
            errs[e], c, m, Waits(e, m))
    BY <1>1, <1>3, <1>4, <1>21, MessageAt, ZenonT(60)
<1>10. c \in Seq(Messages) /\ k \in 0..3
    BY <1>1, <1>8, <1>9, <1>21, SMTT(30), Z3T(30)
<1>11. /\ in' \in [Endpoints -> [1..2 -> InStates]]
       /\ in'[e][1].handled = g1 /\ in'[e][2].handled = g2
       /\ \A f \in Endpoints : f # e => in'[f] = in[f]
    <2> DEFINE y == [in[e][l] EXCEPT !.handled = k]
               x == [in[e] EXCEPT ![l] = y]
               new == [in EXCEPT ![e] = x]
    <2>1. in' = new
        BY <1>16, Zenon
    <2>2. y \in InStates /\ y.handled = k
        BY <1>7, <1>10, ZenonT(30) DEF InStates
    <2> HIDE DEF y
    <2>3. x \in [1..2 -> InStates] /\ x[l] = y /\ \A i \in 1..2 : i # l => x[i] = in[e][i]
        BY <1>1, <2>2, OneChanged, Zenon
    <2> HIDE DEF x
    <2>4. /\ new \in [Endpoints -> [1..2 -> InStates]] /\ new[e] = x
          /\ \A f \in Endpoints : f # e => new[f] = in[f]
        BY <1>5, <2>3, OneChanged, ZenonT(60)
    <2> HIDE DEF new
    <2>5. x[1].handled = g1 /\ x[2].handled = g2
        BY <1>1, <1>8, <1>20, <2>2, <2>3, SMTT(30), Z3T(30)
    <2>6. QED
        BY <2>1, <2>4, <2>5, Zenon
<1>12. /\ msgs' \in [Endpoints -> MsgsStates] /\ msgs'[e].chan = c
       /\ \A f \in Endpoints : f # e => msgs'[f] = msgs[f]
    <2> DEFINE x == [msgs[e] EXCEPT !.chan = c]
               new == [msgs EXCEPT ![e] = x]
    <2>1. msgs' = new
        BY <1>17, Zenon
    <2>2. x \in MsgsStates /\ x.chan = c
        BY <1>1, <1>10, ZenonT(30) DEF MsgsStates
    <2> HIDE DEF x
    <2>3. /\ new \in [Endpoints -> MsgsStates] /\ new[e] = x
          /\ \A f \in Endpoints : f # e => new[f] = msgs[f]
        BY <1>5, <2>2, OneChanged, Zenon
    <2> HIDE DEF new
    <2>4. QED
        BY <2>1, <2>2, <2>3, ZenonT(60)
<1>13. /\ loop' \in [Endpoints -> LoopStates] /\ loop'[e].pc = p /\ loop'[e].level = l
       /\ loop'[e].msg = m /\ loop'[e].waits = Waits(e, m)
       /\ \A f \in Endpoints : f # e => loop'[f] = loop[f]
    <2> DEFINE w == Waits(e, m)
    <2>0. w \in Seq(Channels) /\ w = Waits(e, m)
        BY <1>9, Zenon
    <2> HIDE DEF w
    <2> DEFINE x == [loop[e] EXCEPT !.msg = m, !.waits = w, !.pc = p]
               new == [loop EXCEPT ![e] = x]
    <2>1. loop' = new
        BY <1>18, <2>0, Zenon
    <2>2. x \in LoopStates /\ x.pc = p /\ x.level = l /\ x.msg = m /\ x.waits = w
        BY <1>1, <1>9, <1>19, <1>22, <2>0, ZenonT(30) DEF LoopStates
    <2> HIDE DEF x
    <2>3. /\ new \in [Endpoints -> LoopStates] /\ new[e] = x
          /\ \A f \in Endpoints : f # e => new[f] = loop[f]
        BY <1>5, <2>2, OneChanged, ZenonT(60)
    <2> HIDE DEF new
    <2>4. QED
        BY <2>0, <2>1, <2>2, <2>3, ZenonT(60)
<1>14. Kept(e)
    <2>1. Local(e)'
        BY <1>2, <1>9, <1>11, <1>12, <1>13, ZenonT(60) DEF Local
    <2>2. LocalTypes'
        BY <1>2, <1>11, <1>12, <1>13, ZenonT(60) DEF LocalTypes
    <2>3. \A f \in Endpoints : f # e => Same(f)
        BY <1>2, <1>11, <1>12, <1>13, ZenonT(60) DEF Same
    <2>4. QED
        BY <2>1, <2>2, <2>3, Zenon DEF Kept
<1>15. QED
    BY <1>6, <1>11, <1>14, <1>20, ZenonT(60)


\* TLS does nothing, and the run loop goes on elsewhere.
Moves(e) ==
    /\ UNCHANGED <<tls, msgs, errs, keys>>
    /\ loop' \in [Endpoints -> LoopStates] /\ in' \in [Endpoints -> [1..2 -> InStates]]
    /\ \A f \in Endpoints : f # e => loop'[f] = loop[f]
    /\ \A f \in Endpoints : f # e => in'[f] = in[f]
    /\ in'[e][1].handled = in[e][1].handled /\ in'[e][2].handled = in[e][2].handled
    /\ MayGo(tls[e].state, keys[e].read, loop[e].pc, loop'[e].pc, loop'[e].level)

LEMMA PlaceStays ==
    ASSUME LocalTypes, NEW e \in Endpoints, Local(e), Moves(e)
    PROVE  Kept(e)
<1>1. tls[e].pc \in 0..11 /\ in[e][1].handled \in 0..3 /\ in[e][2].handled \in 0..3
    BY LocalFacts, Zenon
<1>2. At(e, tls[e].pc, tls[e].state, keys[e].read, keys[e].write,
         in[e][1].handled, in[e][2].handled, loop[e].pc, loop[e].level,
         errs[e], msgs[e].chan, loop[e].msg, loop[e].waits)
    BY Zenon DEF Local
<1>3. MayGo(tls[e].state, keys[e].read, loop[e].pc, loop'[e].pc, loop'[e].level)
    BY Zenon DEF Moves
<1> DEFINE pc == tls[e].pc
           st == tls[e].state
           rk == keys[e].read
           wk == keys[e].write
           h1 == in[e][1].handled
           h2 == in[e][2].handled
           lp == loop[e].pc
           new == loop'[e].pc
           lv2 == loop'[e].level
           msg2 == loop'[e].msg
           ws2 == loop'[e].waits
<1>4. At(e, pc, st, rk, wk, h1, h2, new, lv2, errs[e], msgs[e].chan, msg2, ws2)
    <2>1. /\ Progress(e, pc, st, rk, wk, h1, h2, lp, loop[e].level) /\ MayGo(st, rk, lp, new, lv2)
          /\ st # "err" => Together(e, pc, st, h1 + h2, errs[e], msgs[e].chan, lp,
                                    loop[e].msg, loop[e].waits)
        BY <1>2, <1>3, Zenon DEF At
    <2> HIDE DEF pc, st, rk, wk, h1, h2, lp, new, lv2, msg2, ws2
    <2>2. Progress(e, pc, st, rk, wk, h1, h2, new, lv2)
        BY <2>1, Zenon DEF Progress, MayGo
    <2>3. new # "wait" /\ (lp # "wait" \/ st = "err")
        BY <2>1, Zenon DEF MayGo
    <2>4. ASSUME st # "err"
          PROVE  Together(e, pc, st, h1 + h2, errs[e], msgs[e].chan, new, msg2, ws2)
        BY <2>1, <2>3, <2>4, Zenon DEF Together
    <2>5. QED
        BY <2>2, <2>4, Zenon DEF At
<1>5. Local(e)'
    BY <1>4, Zenon DEF Local, Moves
<1>6. LocalTypes'
    BY Zenon DEF LocalTypes, Moves
<1>7. \A f \in Endpoints : f # e => Same(f)
    BY Zenon DEF Same, Moves
<1>8. QED
    BY <1>5, <1>6, <1>7, Zenon DEF Kept

\* Nothing of what TLS and the run loop share changes.
LEMMA NothingStays ==
    ASSUME LocalTypes, NEW e \in Endpoints, Local(e), UNCHANGED <<tls, loop, msgs, errs, keys, in>>
    PROVE  Kept(e)
BY Zenon DEF LocalTypes, Local, Same, Kept

LEMMA NoMoreStays ==
    ASSUME LocalTypes, NEW e \in Endpoints, Local(e), NoMoreMessages(e)
    PROVE  Kept(e)
<1>1. /\ loop[e].pc = "crypto" /\ GoesTo(e, "select") /\ UNCHANGED <<tls, msgs, errs, keys>>
      /\ in' = in
    BY Zenon DEF NoMoreMessages, GoesTo
<1>2. "select" \in {"hello", "select", "crypto", "wait", "close", "stopped"}
    BY Zenon
<1>3. /\ loop' \in [Endpoints -> LoopStates] /\ loop'[e].pc = "select"
      /\ \A f \in Endpoints : f # e => loop'[f] = loop[f]
    BY <1>1, <1>2, GoesToIs, Zenon
<1>4. in \in [Endpoints -> [1..2 -> InStates]]
    BY Zenon DEF LocalTypes
<1>5. /\ loop'[e].pc \in {"select", "crypto", "close", "stopped"} /\ loop'[e].pc # "crypto"
      /\ loop'[e].pc # "stopped" /\ loop[e].pc # "hello" /\ loop[e].pc # "close"
      /\ loop[e].pc # "wait"
    BY <1>1, <1>3, Zenon
<1>6. QED
    BY <1>1, <1>3, <1>4, <1>5, PlaceStays, ZenonT(60), SMTT(30) DEF Moves, MayGo

LEMMA CloseReturnsStays ==
    ASSUME LocalTypes, NEW e \in Endpoints, Local(e), CloseReturns(e)
    PROVE  Kept(e)
<1>1. /\ loop[e].pc = "close" /\ GoesTo(e, "stopped") /\ UNCHANGED <<tls, msgs, errs, keys>>
      /\ in' = in /\ tls[e].state # "running"
    BY Zenon DEF CloseReturns, GoesTo
<1>2. "stopped" \in {"hello", "select", "crypto", "wait", "close", "stopped"}
    BY Zenon
<1>3. /\ loop' \in [Endpoints -> LoopStates] /\ loop'[e].pc = "stopped"
      /\ \A f \in Endpoints : f # e => loop'[f] = loop[f]
    BY <1>1, <1>2, GoesToIs, Zenon
<1>4. in \in [Endpoints -> [1..2 -> InStates]]
    BY Zenon DEF LocalTypes
<1>5. /\ loop'[e].pc \in {"select", "crypto", "close", "stopped"} /\ loop'[e].pc # "crypto"
      /\ loop[e].pc # "hello" /\ loop[e].pc # "wait"
    BY <1>1, <1>3, Zenon
<1>6. QED
    BY <1>1, <1>3, <1>4, <1>5, PlaceStays, ZenonT(60), SMTT(30) DEF Moves, MayGo

LEMMA StopStays ==
    ASSUME LocalTypes, NEW e \in Endpoints, Local(e), StopLoop(e)
    PROVE  Kept(e)
<1>1. /\ loop[e].pc \in {"select", "hello"} /\ GoesTo(e, "close")
      /\ UNCHANGED <<tls, msgs, errs, keys>> /\ in' = in
    BY Zenon DEF StopLoop, GoesTo
<1>2. "close" \in {"hello", "select", "crypto", "wait", "close", "stopped"}
    BY Zenon
<1>3. /\ loop' \in [Endpoints -> LoopStates] /\ loop'[e].pc = "close"
      /\ \A f \in Endpoints : f # e => loop'[f] = loop[f]
    BY <1>1, <1>2, GoesToIs, ZenonT(60)
<1>4. in \in [Endpoints -> [1..2 -> InStates]]
    BY Zenon DEF LocalTypes
<1>5. /\ loop'[e].pc \in {"select", "crypto", "close", "stopped"} /\ loop'[e].pc # "crypto"
      /\ loop'[e].pc # "stopped" /\ loop[e].pc # "wait"
    BY <1>1, <1>3, Zenon
<1>6. QED
    BY <1>1, <1>3, <1>4, <1>5, PlaceStays, Zenon DEF Moves, MayGo

LEMMA GiveUpStays ==
    ASSUME LocalTypes, NEW e \in Endpoints, Local(e), GiveUpWaiting(e)
    PROVE  Kept(e) /\ in'[e][1].handled = in[e][1].handled /\ keys' = keys
<1>1. /\ loop[e].pc = "wait" /\ errs[e] /\ MessageHandled(e)
      /\ UNCHANGED <<tls, msgs, errs, keys>>
    BY Zenon DEF GiveUpWaiting
<1>2. tls[e].state = "err" /\ loop[e].level <= keys[e].read
    <2>1. At(e, tls[e].pc, tls[e].state, keys[e].read, keys[e].write,
             in[e][1].handled, in[e][2].handled, loop[e].pc, loop[e].level,
             errs[e], msgs[e].chan, loop[e].msg, loop[e].waits)
        BY Zenon DEF Local
    <2>2. tls[e].state = "err"
        BY <1>1, <2>1, Zenon DEF At, Together
    <2>3. loop[e].pc \in {"crypto", "wait"} => loop[e].level <= keys[e].read
        BY <2>1, Zenon DEF At, Progress
    <2>4. QED
        BY <1>1, <2>2, <2>3, Zenon
<1>3. /\ loop' \in [Endpoints -> LoopStates]
      /\ loop'[e].pc \in Onward /\ loop'[e].level = loop[e].level
      /\ \A f \in Endpoints : f # e => loop'[f] = loop[f]
      /\ in' \in [Endpoints -> [1..2 -> InStates]]
      /\ in'[e][1].handled = in[e][1].handled /\ in'[e][2].handled = in[e][2].handled
      /\ \A f \in Endpoints : f # e => in'[f] = in[f]
    BY <1>1, HandledIs, Zenon
<1>4. /\ loop'[e].pc \in {"select", "crypto", "close", "stopped"} /\ loop'[e].pc # "stopped"
      /\ loop[e].pc # "hello" /\ loop[e].pc # "close"
    BY <1>1, <1>3, Zenon DEF Onward
<1>5. loop'[e].pc = "crypto" => loop'[e].level <= keys[e].read
    BY <1>2, <1>3, Zenon
<1>6. Kept(e)
    BY <1>1, <1>2, <1>3, <1>4, <1>5, PlaceStays, ZenonT(60) DEF Moves, MayGo
<1>7. QED
    BY <1>1, <1>3, <1>6, Zenon


LEMMA UnpackedStays ==
    ASSUME LocalTypes, NEW e \in Endpoints, Local(e), NEW p \in Pkt, loop[e].pc = "select",
           CanOpen(e, p), Unpacked(e, p), UNCHANGED <<tls, msgs, errs, keys>>
    PROVE  Kept(e) /\ in'[e][1].handled = in[e][1].handled
<1>1. /\ loop \in [Endpoints -> LoopStates] /\ in \in [Endpoints -> [1..2 -> InStates]]
      /\ loop[e] \in LoopStates /\ in[e] \in [1..2 -> InStates]
    BY LocalFacts, Zenon DEF LocalTypes
<1>2. CASE ~ (p.kind = "crypto" /\ ~in[e][p.level].finished)
    <2>1. in' = in /\ loop' = loop
        BY <1>2, Zenon DEF Unpacked
    <2>2. UNCHANGED <<tls, loop, msgs, errs, keys, in>>
        BY <2>1, Zenon
    <2>3. QED
        BY <2>1, <2>2, NothingStays, Zenon
<1>3. CASE p.kind = "crypto" /\ ~in[e][p.level].finished
    <2> DEFINE l == p.level
               u == in[e][l].got \cup p.units
               y == [in[e][l] EXCEPT !.got = u]
               x == [in[e] EXCEPT ![l] = y]
               newIn == [in EXCEPT ![e] = x]
               z == [loop[e] EXCEPT !.pc = "crypto", !.level = l]
               new == [loop EXCEPT ![e] = z]
    <2>1. l \in 1..2 /\ p.units \subseteq Int /\ l <= keys[e].read
        BY <1>3, Zenon DEF Pkt, CanOpen
    <2>2. in' = newIn
        BY <1>1, <1>3, ZenonT(60) DEF Unpacked
    <2>3. loop' = new
        BY <1>1, <1>3, ZenonT(30) DEF Unpacked
    <2>4. in[e][l] \in InStates
        BY <1>1, <2>1, Zenon
    <2>5. u \subseteq Int
        BY <2>1, <2>4, ZenonT(30) DEF InStates
    <2> HIDE DEF u
    <2>6. y \in InStates /\ y.handled = in[e][l].handled
        BY <2>4, <2>5, ZenonT(30) DEF InStates
    <2> HIDE DEF y, l
    <2>7. x \in [1..2 -> InStates] /\ x[l] = y /\ \A k \in 1..2 : k # l => x[k] = in[e][k]
        BY <1>1, <2>1, <2>6, OneChanged, Zenon
    <2> HIDE DEF x
    <2>8. /\ newIn \in [Endpoints -> [1..2 -> InStates]] /\ newIn[e] = x
          /\ \A f \in Endpoints : f # e => newIn[f] = in[f]
        BY <1>1, <2>7, OneChanged, Zenon
    <2> HIDE DEF newIn
    <2>9. \A k \in 1..2 : x[k].handled = in[e][k].handled
        BY <2>6, <2>7, Zenon
    <2>10. 1 \in 1..2 /\ 2 \in 1..2
        OBVIOUS
    <2>11. in'[e][1].handled = in[e][1].handled /\ in'[e][2].handled = in[e][2].handled
        BY <2>2, <2>8, <2>9, <2>10, Zenon
    <2>12. z \in LoopStates /\ z.pc = "crypto" /\ z.level = l
        BY <1>1, <2>1, ZenonT(30) DEF LoopStates
    <2> HIDE DEF z
    <2>13. /\ new \in [Endpoints -> LoopStates] /\ new[e] = z
           /\ \A f \in Endpoints : f # e => new[f] = loop[f]
        BY <1>1, <2>12, OneChanged, Zenon
    <2> HIDE DEF new
    <2>14. loop'[e].pc = "crypto" /\ loop'[e].level <= keys[e].read
        BY <2>1, <2>3, <2>12, <2>13, ZenonT(60)
    <2>15. MayGo(tls[e].state, keys[e].read, loop[e].pc, loop'[e].pc, loop'[e].level)
        BY <2>14, ZenonT(30) DEF MayGo
    <2>16. Moves(e)
        BY <2>2, <2>3, <2>8, <2>11, <2>13, <2>15, ZenonT(60) DEF Moves
    <2>17. QED
        BY <2>11, <2>16, PlaceStays, ZenonT(60)
<1>4. QED
    BY <1>2, <1>3, Zenon

LEMMA AbortedStays ==
    ASSUME LocalTypes, NEW e \in Endpoints, Local(e), HandshakeAborted(e)
    PROVE  Kept(e)
<1> DEFINE x == [msgs[e] EXCEPT !.closed = TRUE]
           new == [msgs EXCEPT ![e] = x]
<1>1. msgs \in [Endpoints -> MsgsStates] /\ msgs[e] \in MsgsStates
    BY LocalFacts, Zenon DEF LocalTypes
<1>2. msgs' = new /\ UNCHANGED <<tls, loop, errs, keys, in>>
    BY <1>1, ZenonT(30) DEF HandshakeAborted
<1>3. x \in MsgsStates /\ x.chan = msgs[e].chan
    BY <1>1, Zenon DEF MsgsStates
<1> HIDE DEF x
<1>4. /\ new \in [Endpoints -> MsgsStates] /\ new[e] = x
      /\ \A f \in Endpoints : f # e => new[f] = msgs[f]
    BY <1>1, <1>3, OneChanged, Zenon
<1> HIDE DEF new
<1>5. Local(e)'
    BY <1>2, <1>3, <1>4, Zenon DEF Local
<1>6. LocalTypes'
    BY <1>2, <1>4, Zenon DEF LocalTypes
<1>7. \A f \in Endpoints : f # e => Same(f)
    BY <1>2, <1>4, ZenonT(60) DEF Same
<1>8. QED
    BY <1>5, <1>6, <1>7, Zenon DEF Kept

LEMMA FailedStays ==
    ASSUME LocalTypes, NEW e \in Endpoints, Local(e), HandshakeFailed(e)
    PROVE  Kept(e)
<1> DEFINE x == errs[e] \/ runner[e] = "select"
           new == [errs EXCEPT ![e] = x]
<1>1. errs \in [Endpoints -> BOOLEAN]
    BY Zenon DEF LocalTypes
<1>2. errs' = new /\ UNCHANGED <<tls, loop, msgs, keys, in>> /\ tls[e].state = "err"
    BY <1>1, Zenon DEF HandshakeFailed
<1>3. x \in BOOLEAN
    BY Zenon
<1> HIDE DEF x
<1>4. new \in [Endpoints -> BOOLEAN] /\ \A f \in Endpoints : f # e => new[f] = errs[f]
    BY <1>1, <1>3, OneChanged, Zenon
<1> HIDE DEF new
<1>5. Local(e)'
    BY <1>2, Zenon DEF Local, At
<1>6. LocalTypes'
    BY <1>2, <1>4, Zenon DEF LocalTypes
<1>7. \A f \in Endpoints : f # e => Same(f)
    BY <1>2, <1>4, Zenon DEF Same
<1>8. QED
    BY <1>5, <1>6, <1>7, Zenon DEF Kept


-----------------------------------------------------------------------------
(* The ClientHello, and the packets that wait for their keys *)

Lasts == Arrived => Arrived'

LEMMA LastsFrom ==
    ASSUME NEW e \in Endpoints, Kept(e), in[e][1].handled = 1 => in'[e][1].handled = 1
    PROVE  Lasts
<1>1. CASE e = "server"
    BY <1>1, Zenon DEF Lasts, Arrived
<1>2. CASE e # "server"
    <2>1. "server" \in Endpoints
        BY Zenon DEF Endpoints
    <2>2. in'["server"] = in["server"]
        BY <1>2, <2>1, ZenonT(60) DEF Kept, Same
    <2>3. QED
        BY <2>2, Zenon DEF Lasts, Arrived
<1>3. QED
    BY <1>1, <1>2, Zenon

\* What an action need not change.
LEMMA WritesStays == ASSUME Writes, Lasts, out' = out PROVE Writes'
BY Zenon DEF Writes, Lasts

LEMMA SendsStays == ASSUME Sends, Lasts, sess' = sess PROVE Sends'
BY Zenon DEF Sends, Lasts

LEMMA TravelsStays == ASSUME Travels, Lasts, net' = net PROVE Travels'
BY Zenon DEF Travels, Lasts

LEMMA HelloStays == ASSUME HelloArrived, Lasts, sess' = sess PROVE HelloArrived'
BY Zenon DEF HelloArrived, Lasts, Arrived

\* What is said of the rest of the state.
Global == OtherTypes /\ Undecryptable /\ HelloFirst

\* The packets that wait for their keys stay, or are given up with the new key.
LEMMA QueueStays ==
    ASSUME OtherTypes, Undecryptable, NEW e \in Endpoints,
           \A f \in Endpoints : f # e => keys'[f] = keys[f],
           undec' = [undec EXCEPT ![e] = {}] \/ (undec' = undec /\ keys'[e].read = keys[e].read)
    PROVE  Undecryptable' /\ undec' \in [Endpoints -> SUBSET Pkt]
<1>1. undec \in [Endpoints -> SUBSET Pkt]
    BY Zenon DEF OtherTypes
<1>2. CASE undec' = undec /\ keys'[e].read = keys[e].read
    <2>1. \A f \in Endpoints : keys'[f].read = keys[f].read
        BY <1>2, Zenon
    <2>2. QED
        BY <1>1, <1>2, <2>1, Zenon DEF Undecryptable
<1>3. CASE undec' = [undec EXCEPT ![e] = {}]
    <2>1. {} \in SUBSET Pkt
        BY ZenonT(30)
    <2> DEFINE new == [undec EXCEPT ![e] = {}]
    <2>2. /\ new \in [Endpoints -> SUBSET Pkt] /\ new[e] = {}
          /\ \A f \in Endpoints : f # e => new[f] = undec[f]
        BY <1>1, <2>1, OneChanged, Zenon
    <2> HIDE DEF new
    <2>3. undec' = new
        BY <1>3, Zenon DEF new
    <2>4. QED
        BY <2>2, <2>3, Zenon DEF Undecryptable
<1>4. QED
    BY <1>2, <1>3, Zenon

LEMMA GlobalStays ==
    ASSUME Global, Lasts, UNCHANGED <<out, undec, sess, net>>,
           \A f \in Endpoints : keys'[f].read = keys[f].read
    PROVE  Global'
<1>1. out' = out /\ undec' = undec /\ sess' = sess /\ net' = net
    BY Zenon
<1>2. OtherTypes' /\ Undecryptable'
    BY <1>1, Zenon DEF Global, OtherTypes, Undecryptable
<1>3. Writes' /\ Sends' /\ Travels' /\ HelloArrived'
    BY <1>1, WritesStays, SendsStays, TravelsStays, HelloStays, ZenonT(60) DEF Global, HelloFirst
<1>4. QED
    BY <1>2, <1>3, Zenon DEF Global, HelloFirst

\* HandOver and GiveUpWaiting.
LEMMA QueueStep ==
    ASSUME Global, Lasts, UNCHANGED <<out, sess, net>>, NEW e \in Endpoints,
           \A f \in Endpoints : f # e => keys'[f] = keys[f],
           undec' = [undec EXCEPT ![e] = {}] \/ (undec' = undec /\ keys'[e].read = keys[e].read)
    PROVE  Global'
<1>1. out' = out /\ sess' = sess /\ net' = net
    BY Zenon
<1>2. Undecryptable' /\ undec' \in [Endpoints -> SUBSET Pkt]
    BY QueueStays, Zenon DEF Global
<1>3. OtherTypes'
    BY <1>1, <1>2, ZenonT(60) DEF Global, OtherTypes
<1>4. Writes' /\ Sends' /\ Travels' /\ HelloArrived'
    BY <1>1, WritesStays, SendsStays, TravelsStays, HelloStays, ZenonT(60) DEF Global, HelloFirst
<1>5. QED
    BY <1>2, <1>3, <1>4, Zenon DEF Global, HelloFirst

\* The flags of a session change: what was sent, what was received and the reason
\* to close.  So may out and net.
LEMMA SessionStep ==
    ASSUME Global, Lasts, NEW e \in Endpoints, NEW x \in SessStates,
           sess' = [sess EXCEPT ![e] = x], undec' = undec,
           out' \in [Endpoints -> [1..2 -> OutStates]], Writes',
           \A f \in Endpoints : keys'[f].read = keys[f].read,
           net' \in SUBSET Pkt, Travels',
           e = "server" /\ x.sent => Arrived',
           e = "client" /\ x.first /\ x.close = "no" => Arrived'
    PROVE  Global'
<1> DEFINE new == [sess EXCEPT ![e] = x]
<1>1. undec' = undec /\ sess' = new
    BY Zenon
<1>2. sess \in [Endpoints -> SessStates] /\ "client" \in Endpoints /\ "server" \in Endpoints
    BY Zenon DEF Global, OtherTypes, Endpoints
<1>3. /\ new \in [Endpoints -> SessStates] /\ new[e] = x
      /\ \A f \in Endpoints : f # e => new[f] = sess[f]
    BY <1>2, OneChanged, ZenonT(60)
<1> HIDE DEF new
<1>4. OtherTypes' /\ Undecryptable'
    BY <1>1, <1>3, ZenonT(60) DEF Global, OtherTypes, Undecryptable
<1>5. Sends'
    BY <1>1, <1>2, <1>3, ZenonT(60) DEF Global, HelloFirst, Sends, Lasts
<1>6. HelloArrived'
    <2>1. CASE e = "client"
        <3>1. sess'["client"] = x
            BY <1>1, <1>3, <2>1, ZenonT(60)
        <3>2. QED
            BY <2>1, <3>1, Zenon DEF HelloArrived, Arrived
    <2>2. CASE e # "client"
        <3>1. sess'["client"] = sess["client"] /\ HelloArrived
            BY <1>1, <1>2, <1>3, <2>2, ZenonT(60) DEF Global, HelloFirst
        <3>2. QED
            BY <3>1, Zenon DEF HelloArrived, Lasts, Arrived
    <2>3. QED
        BY <2>1, <2>2, ZenonT(60)
<1>7. QED
    BY <1>4, <1>5, <1>6, ZenonT(60) DEF Global, HelloFirst


\* The same for actions that change nothing but the flags of e's session.
LEMMA FlagStep ==
    ASSUME Global, Lasts, NEW e \in Endpoints, NEW x \in SessStates,
           sess' = [sess EXCEPT ![e] = x], UNCHANGED <<out, undec, net>>,
           \A f \in Endpoints : keys'[f].read = keys[f].read,
           x.sent => sess[e].sent, x.first => sess[e].first,
           x.close = "no" => sess[e].close = "no"
    PROVE  Global'
<1>1. out' = out /\ undec' = undec /\ net' = net
    BY Zenon
<1>2. Writes' /\ Travels'
    BY <1>1, WritesStays, TravelsStays, ZenonT(60) DEF Global, HelloFirst
<1>3. out' \in [Endpoints -> [1..2 -> OutStates]] /\ net' \in SUBSET Pkt
    BY <1>1, Zenon DEF Global, OtherTypes
<1>4. e = "server" /\ x.sent => Arrived'
    BY Zenon DEF Global, HelloFirst, Sends, Lasts
<1>5. e = "client" /\ x.first /\ x.close = "no" => Arrived'
    BY Zenon DEF Global, HelloFirst, HelloArrived, Lasts, Arrived
<1>6. QED
    BY <1>1, <1>2, <1>3, <1>4, <1>5, SessionStep, ZenonT(60)

LEMMA ReturnedStep ==
    ASSUME Global, Lasts, NEW e \in Endpoints, HandshakeReturned(e)
    PROVE  Global'
<1> DEFINE x == [sess[e] EXCEPT !.done = TRUE]
<1>1. sess \in [Endpoints -> SessStates] /\ sess[e] \in SessStates
    BY Zenon DEF Global, OtherTypes
<1>2. sess' = [sess EXCEPT ![e] = x] /\ UNCHANGED <<out, undec, net>> /\ keys' = keys
    BY <1>1, Zenon DEF HandshakeReturned
<1>3. /\ x \in SessStates /\ x.sent = sess[e].sent /\ x.first = sess[e].first
      /\ x.close = sess[e].close
    BY <1>1, Zenon DEF SessStates
<1> HIDE DEF x
<1>4. QED
    BY <1>2, <1>3, FlagStep, ZenonT(60)

LEMMA FailedStep ==
    ASSUME Global, Lasts, NEW e \in Endpoints, HandshakeFailed(e)
    PROVE  Global'
<1> DEFINE c == CloseOnce(sess[e].close, "local")
           x == [sess[e] EXCEPT !.close = c]
<1>1. sess \in [Endpoints -> SessStates] /\ sess[e] \in SessStates
    BY Zenon DEF Global, OtherTypes
<1>2. sess' = [sess EXCEPT ![e] = x] /\ UNCHANGED <<out, undec, net>> /\ keys' = keys
    BY <1>1, Zenon DEF HandshakeFailed
<1>3. c \in {"no", "local", "remote"} /\ c # "no"
    BY <1>1, ZenonT(30) DEF CloseOnce, SessStates
<1> HIDE DEF c
<1>4. /\ x \in SessStates /\ x.sent = sess[e].sent /\ x.first = sess[e].first /\ x.close = c
    BY <1>1, <1>3, ZenonT(30) DEF SessStates
<1> HIDE DEF x
<1>5. QED
    BY <1>2, <1>3, <1>4, FlagStep, ZenonT(60)

LEMMA CompleteStep ==
    ASSUME Global, Lasts, NEW e \in Endpoints, HandleHandshakeComplete(e)
    PROVE  Global'
<1> DEFINE b == (e = "server")
           x == [sess[e] EXCEPT !.complete = TRUE, !.ping = b]
<1>1. sess \in [Endpoints -> SessStates] /\ sess[e] \in SessStates
    BY Zenon DEF Global, OtherTypes
<1>2. sess' = [sess EXCEPT ![e] = x] /\ UNCHANGED <<out, undec, net>> /\ keys' = keys
    BY <1>1, Zenon DEF HandleHandshakeComplete
<1>3. b \in BOOLEAN
    BY Zenon
<1> HIDE DEF b
<1>4. /\ x \in SessStates /\ x.sent = sess[e].sent /\ x.first = sess[e].first
      /\ x.close = sess[e].close
    BY <1>1, <1>3, ZenonT(30) DEF SessStates
<1> HIDE DEF x
<1>5. QED
    BY <1>2, <1>4, FlagStep, Zenon

LEMMA CloseStep ==
    ASSUME Global, Lasts, NEW e \in Endpoints, CloseLocal(e)
    PROVE  Global'
<1> DEFINE x == [sess[e] EXCEPT !.close = "local"]
<1>1. sess \in [Endpoints -> SessStates] /\ sess[e] \in SessStates
    BY Zenon DEF Global, OtherTypes
<1>2. sess' = [sess EXCEPT ![e] = x] /\ UNCHANGED <<out, undec, net>> /\ keys' = keys
    BY <1>1, Zenon DEF CloseLocal
<1>3. /\ x \in SessStates /\ x.sent = sess[e].sent /\ x.first = sess[e].first
      /\ x.close # "no"
    BY <1>1, Zenon DEF SessStates
<1> HIDE DEF x
<1>4. QED
    BY <1>2, <1>3, FlagStep, ZenonT(60)


\* What a change of one endpoint's crypto stream of one level does to out.
OutWith(e, l, y) == [out EXCEPT ![e] = [out[e] EXCEPT ![l] = y]]

LEMMA OutIs ==
    ASSUME OtherTypes, NEW e \in Endpoints, NEW l \in 1..2, NEW y \in OutStates
    PROVE  /\ OutWith(e, l, y) \in [Endpoints -> [1..2 -> OutStates]]
           /\ OutWith(e, l, y)[e][l] = y
           /\ \A k \in 1..2 : k # l => OutWith(e, l, y)[e][k] = out[e][k]
           /\ \A f \in Endpoints : f # e => OutWith(e, l, y)[f] = out[f]
<1> DEFINE x == [out[e] EXCEPT ![l] = y]
           o == [out EXCEPT ![e] = x]
<1>1. out \in [Endpoints -> [1..2 -> OutStates]] /\ out[e] \in [1..2 -> OutStates]
    BY Zenon DEF OtherTypes
<1>2. x \in [1..2 -> OutStates] /\ x[l] = y /\ \A k \in 1..2 : k # l => x[k] = out[e][k]
    BY <1>1, OneChanged, ZenonT(60)
<1>3. OutWith(e, l, y) = o
    BY Zenon DEF OutWith
<1> HIDE DEF x
<1>4. /\ o \in [Endpoints -> [1..2 -> OutStates]] /\ o[e] = x
      /\ \A f \in Endpoints : f # e => o[f] = out[f]
    BY <1>1, <1>2, OneChanged, ZenonT(60)
<1> HIDE DEF o
<1>5. QED
    BY <1>2, <1>3, <1>4, ZenonT(60)

LEMMA RecordStep ==
    ASSUME Global, Lasts, NEW e \in Endpoints, WriteRecord(e), keys[e].write \in 1..2,
           e = "server" => in[e][1].handled = 1
    PROVE  Global'
<1> DEFINE l == keys[e].write
           n == out[e][l].written + Size(Step(e).arg)
           y == [out[e][l] EXCEPT !.written = n]
           new == OutWith(e, l, y)
<1>1. out \in [Endpoints -> [1..2 -> OutStates]] /\ out[e] \in [1..2 -> OutStates] /\ OtherTypes
    BY Zenon DEF Global, OtherTypes
<1>2. out' = new /\ UNCHANGED <<undec, sess, net>> /\ keys' = keys /\ in' = in
    BY <1>1, ZenonT(60) DEF WriteRecord, OutWith
<1>3. out[e][l] \in OutStates
    BY <1>1, ZenonT(60)
<1>4. n \in Nat
    <2>1. Size(Step(e).arg) \in Nat
        BY Zenon DEF Size
    <2>2. out[e][l].written \in Nat
        BY <1>3, Zenon DEF OutStates
    <2>3. QED
        BY <2>1, <2>2, SMTT(30), Z3T(30)
<1>5. l \in 1..2
    BY Zenon
<1> HIDE DEF n
<1>6. y \in OutStates
    BY <1>3, <1>4, ZenonT(60) DEF OutStates
<1> HIDE DEF y, l
<1>7. /\ new \in [Endpoints -> [1..2 -> OutStates]]
      /\ \A f \in Endpoints : f # e => new[f] = out[f]
    BY <1>1, <1>5, <1>6, OutIs, SMTT(30), Z3T(30)
<1> HIDE DEF new
<1>8. Writes'
    <2>1. CASE e = "server"
        BY <1>2, <2>1, ZenonT(60) DEF Writes, Lasts, Arrived
    <2>2. CASE e # "server"
        <3>1. out'["server"] = out["server"]
            BY <1>2, <1>7, <2>2, ZenonT(60) DEF Endpoints
        <3>2. QED
            BY <3>1, Zenon DEF Writes, Lasts, Global, HelloFirst
    <2>3. QED
        BY <2>1, <2>2, ZenonT(60)
<1>9. undec' = undec /\ sess' = sess /\ net' = net
    BY <1>2, Zenon
<1>10. OtherTypes' /\ Undecryptable'
    BY <1>2, <1>7, <1>9, ZenonT(60) DEF Global, OtherTypes, Undecryptable
<1>11. Sends' /\ Travels' /\ HelloArrived'
    BY <1>9, SendsStays, TravelsStays, HelloStays, ZenonT(60) DEF Global, HelloFirst
<1>12. QED
    BY <1>8, <1>10, <1>11, ZenonT(60) DEF Global, HelloFirst

\* A packet is added to those on their way.
LEMMA NetIs ==
    ASSUME Global, Lasts, NEW p \in Pkt, net' = net \cup {p},
           p.from = "server" /\ p.kind # "close" => Arrived'
    PROVE  net' \in SUBSET Pkt /\ Travels'
<1>1. net \in SUBSET Pkt /\ Travels
    BY Zenon DEF Global, OtherTypes, HelloFirst
<1>2. net' \in SUBSET Pkt
    BY <1>1, Zenon
<1>3. Travels'
    BY <1>1, Zenon DEF Travels, Lasts
<1>4. QED
    BY <1>2, <1>3, ZenonT(60)

LEMMA StopStep ==
    ASSUME Global, Lasts, LocalTypes, NEW e \in Endpoints, StopLoop(e)
    PROVE  Global'
<1> DEFINE p == Packet(e, SealerLevel(e), "close", {})
<1>1. UNCHANGED <<out, undec, sess>> /\ keys' = keys /\ (net' = net \cup {p} \/ net' = net)
    BY Zenon DEF StopLoop
<1>2. p \in Pkt /\ p.kind = "close"
    <2>1. keys[e].write \in 1..3
        BY LocalFacts, ZenonT(60)
    <2>2. QED
        BY <2>1, ZenonT(60) DEF Packet, SealerLevel, Pkt
<1> HIDE DEF p
<1>3. net' \in SUBSET Pkt /\ Travels'
    <2>1. CASE net' = net
        BY <2>1, TravelsStays, ZenonT(60) DEF Global, OtherTypes, HelloFirst
    <2>2. CASE net' = net \cup {p}
        BY <1>2, <2>2, NetIs, ZenonT(60)
    <2>3. QED
        BY <1>1, <2>1, <2>2, ZenonT(60)
<1>4. out' = out /\ undec' = undec /\ sess' = sess
    BY <1>1, ZenonT(60)
<1>5. OtherTypes' /\ Undecryptable'
    BY <1>1, <1>3, <1>4, ZenonT(60) DEF Global, OtherTypes, Undecryptable
<1>6. Writes' /\ Sends' /\ HelloArrived'
    BY <1>4, WritesStays, SendsStays, HelloStays, ZenonT(60) DEF Global, HelloFirst
<1>7. QED
    BY <1>3, <1>5, <1>6, ZenonT(60) DEF Global, HelloFirst

LEMMA OtherStep ==
    ASSUME Global, Lasts, LocalTypes, NEW e \in Endpoints, PackOther(e)
    PROVE  Global'
<1> DEFINE kind == IF sess[e].ping THEN "ping" ELSE "ack"
           p == Packet(e, SealerLevel(e), kind, {})
           x == [sess[e] EXCEPT !.sent = TRUE, !.ack = FALSE, !.ping = FALSE]
<1>1. sess \in [Endpoints -> SessStates] /\ sess[e] \in SessStates
    BY Zenon DEF Global, OtherTypes
<1>2. /\ UNCHANGED <<out, undec>> /\ keys' = keys /\ net' = net \cup {p} /\ sess[e].sent
    BY Zenon DEF PackOther, HasSentPacket
<1>3. sess' = [sess EXCEPT ![e] = x]
    BY <1>1, ZenonT(60) DEF PackOther
<1>4. p \in Pkt /\ p.from = e
    <2>1. keys[e].write \in 1..3
        BY LocalFacts, Zenon
    <2>2. QED
        BY <2>1, ZenonT(60) DEF Packet, SealerLevel, Pkt
<1>5. x \in SessStates /\ x.first = sess[e].first /\ x.close = sess[e].close
    BY <1>1, ZenonT(60) DEF SessStates
<1> HIDE DEF p, x
<1>6. e = "server" => Arrived'
    BY <1>2, Zenon DEF Global, HelloFirst, Sends, Lasts
<1>7. net' \in SUBSET Pkt /\ Travels'
    BY <1>2, <1>4, <1>6, NetIs, ZenonT(60)
<1>8. out' = out /\ undec' = undec
    BY <1>2, Zenon
<1>9. Writes' /\ out' \in [Endpoints -> [1..2 -> OutStates]]
    BY <1>8, WritesStays, ZenonT(60) DEF Global, OtherTypes, HelloFirst
<1>10. e = "client" /\ x.first /\ x.close = "no" => Arrived'
    BY <1>5, ZenonT(60) DEF Global, HelloFirst, HelloArrived, Lasts, Arrived
<1>11. QED
    BY <1>2, <1>3, <1>5, <1>6, <1>7, <1>8, <1>9, <1>10, SessionStep, ZenonT(60)


LEMMA MinOfTwo == ASSUME NEW a \in Nat, NEW b \in Nat PROVE Min({a, b}) \in {a, b}
<1>1. \E x \in {a, b} : \A y \in {a, b} : x <= y
    <2>1. CASE a <= b
        BY <2>1, SMTT(30), Z3T(30)
    <2>2. CASE b <= a
        BY <2>2, SMTT(30), Z3T(30)
    <2>3. QED
        BY <2>1, <2>2, SMTT(30), Z3T(30)
<1>2. QED
    BY <1>1, ZenonT(60) DEF Min

LEMMA CryptoStep ==
    ASSUME Global, Lasts, NEW e \in Endpoints, PackCrypto(e)
    PROVE  Global'
<1> DEFINE l == CryptoLevel(e)
           n == Min({out[e][l].written, out[e][l].packed + MaxFrame})
           p == Packet(e, l, "crypto", out[e][l].packed + 1 .. n)
           x == [sess[e] EXCEPT !.sent = TRUE, !.ack = FALSE]
           y == [out[e][l] EXCEPT !.packed = n]
           new == OutWith(e, l, y)
<1>1. /\ sess \in [Endpoints -> SessStates] /\ sess[e] \in SessStates /\ OtherTypes
      /\ out \in [Endpoints -> [1..2 -> OutStates]] /\ out[e] \in [1..2 -> OutStates]
    BY Zenon DEF Global, OtherTypes
<1>2. undec' = undec /\ keys' = keys /\ in' = in /\ net' = net \cup {p} /\ l > 0
    BY ZenonT(60) DEF PackCrypto
<1>3. l \in 1..2 /\ out[e][l].written > out[e][l].packed
    <2> DEFINE b1 == out[e][1].written > out[e][1].packed
               b2 == /\ out[e][1].written = out[e][1].packed
                     /\ out[e][2].written > out[e][2].packed
    <2>1. l = CASE b1 -> 1 [] b2 -> 2 [] OTHER -> 0
        BY ZenonT(60) DEF CryptoLevel
    <2>2. ~ (b1 /\ b2)
        <3>1. out[e][1] \in OutStates
            BY <1>1, SMTT(30), Z3T(30)
        <3>2. out[e][1].written \in Nat /\ out[e][1].packed \in Nat
            BY <3>1, Zenon DEF OutStates
        <3>3. QED
            BY <3>2, SMTT(30), Z3T(30)
    <2>3. /\ b1 => out[e][1].written > out[e][1].packed
          /\ b2 => out[e][2].written > out[e][2].packed
        BY ZenonT(60)
    <2> HIDE DEF b1, b2, l
    <2>4. (b1 /\ l = 1) \/ (b2 /\ l = 2)
        BY <1>2, <2>1, <2>2, SMTT(30), Z3T(30)
    <2>5. QED
        BY <2>3, <2>4, SMTT(30), Z3T(30)
<1>4. out[e][l] \in OutStates
    BY <1>1, <1>3, ZenonT(60)
<1>5. out[e][l].written \in Nat /\ out[e][l].packed \in Nat /\ out[e][l].written > 0
    BY <1>3, <1>4, SMTT(30), Z3T(30) DEF OutStates
<1>6. n \in Nat
    <2>1. out[e][l].packed + MaxFrame \in Nat
        BY <1>5, HandshakeAssumption, SMTT(30), Z3T(30)
    <2>2. n \in {out[e][l].written, out[e][l].packed + MaxFrame}
        BY <1>5, <2>1, MinOfTwo, ZenonT(60)
    <2>3. QED
        BY <1>5, <2>1, <2>2, ZenonT(30)
<1>7. out' = new
    BY <1>1, ZenonT(60) DEF PackCrypto, OutWith
<1>8. sess' = [sess EXCEPT ![e] = x]
    BY <1>1, ZenonT(30) DEF PackCrypto
<1> HIDE DEF n
<1>9. y \in OutStates /\ y.written = out[e][l].written
    BY <1>4, <1>6, ZenonT(30) DEF OutStates
<1>10. p \in Pkt /\ p.from = e
    <2> DEFINE u == out[e][l].packed + 1 .. n
    <2>1. u \subseteq Int
        BY <1>5, <1>6, SMTT(30), Z3T(30)
    <2> HIDE DEF u, l
    <2>2. Packet(e, l, "crypto", u) \in Pkt /\ Packet(e, l, "crypto", u).from = e
        BY <1>3, <2>1, SMTT(30), Z3T(30) DEF Packet, Pkt
    <2>3. QED
        BY <2>2, ZenonT(60) DEF u
<1>11. x \in SessStates /\ x.first = sess[e].first /\ x.close = sess[e].close
    BY <1>1, ZenonT(30) DEF SessStates
<1>12. e = "server" => Arrived /\ Arrived'
    <2>1. e = "server" => Arrived
        <3>1. Writes
            BY Zenon DEF Global, HelloFirst
        <3>2. QED
            BY <1>3, <1>5, <3>1, ZenonT(60) DEF Writes
    <2>2. QED
        BY <2>1, ZenonT(60) DEF Lasts
<1> HIDE DEF p, x, y, l
<1>13. net' \in SUBSET Pkt /\ Travels'
    BY <1>2, <1>10, <1>12, NetIs, ZenonT(60)
<1>14. /\ new \in [Endpoints -> [1..2 -> OutStates]]
       /\ \A f \in Endpoints : f # e => new[f] = out[f]
    BY <1>1, <1>3, <1>9, OutIs, SMTT(30), Z3T(30)
<1> HIDE DEF new
<1>15. Writes'
    <2>1. CASE e = "server"
        BY <1>12, <2>1, ZenonT(60) DEF Writes
    <2>2. CASE e # "server"
        <3>1. out'["server"] = out["server"]
            BY <1>7, <1>14, <2>2, ZenonT(60) DEF Endpoints
        <3>2. QED
            BY <3>1, ZenonT(60) DEF Writes, Lasts, Global, HelloFirst
    <2>3. QED
        BY <2>1, <2>2, ZenonT(60)
<1>16. e = "client" /\ x.first /\ x.close = "no" => Arrived'
    BY <1>11, ZenonT(60) DEF Global, HelloFirst, HelloArrived, Lasts, Arrived
<1>17. QED
    BY <1>2, <1>7, <1>8, <1>11, <1>12, <1>13, <1>14, <1>15, <1>16, SessionStep, ZenonT(60)

\* A packet that can be decrypted: the first one of the server that is no
\* CONNECTION_CLOSE tells that the server has the ClientHello.
LEMMA UnpackedStep ==
    ASSUME Global, Lasts, NEW e \in Endpoints, NEW p \in net, p.from = Peer(e),
           Unpacked(e, p), UNCHANGED <<keys, out, net>>
    PROVE  Global'
<1> DEFINE c == IF p.kind = "close" THEN CloseOnce(sess[e].close, "remote") ELSE sess[e].close
           a == sess[e].ack \/ p.kind \in {"crypto", "ping"}
           s == sess[e].secure \/ (e = "client" /\ p.level = 3)
           x == [sess[e] EXCEPT !.first = TRUE, !.close = c, !.ack = a, !.secure = s]
<1>1. sess \in [Endpoints -> SessStates] /\ sess[e] \in SessStates /\ Travels
    BY Zenon DEF Global, OtherTypes, HelloFirst
<1>2. sess' = [sess EXCEPT ![e] = x] /\ undec' = undec
    BY Zenon DEF Unpacked, SessAfter
<1>3. c \in {"no", "local", "remote"} /\ (p.kind = "close" => c # "no")
    BY <1>1, ZenonT(30) DEF SessStates, CloseOnce
<1>4. a \in BOOLEAN /\ s \in BOOLEAN
    BY Zenon
<1> HIDE DEF c, a, s
<1>5. x \in SessStates /\ x.sent = sess[e].sent /\ x.close = c
    BY <1>1, <1>3, <1>4, ZenonT(30) DEF SessStates
<1> HIDE DEF x
<1>6. out' = out /\ net' = net /\ keys' = keys
    BY Zenon
<1>7. /\ Writes' /\ Travels' /\ out' \in [Endpoints -> [1..2 -> OutStates]]
      /\ net' \in SUBSET Pkt
    BY <1>6, WritesStays, TravelsStays, ZenonT(60) DEF Global, OtherTypes, HelloFirst
<1>8. e = "server" /\ x.sent => Arrived'
    BY <1>5, Zenon DEF Global, HelloFirst, Sends, Lasts
<1>9. e = "client" /\ x.first /\ x.close = "no" => Arrived'
    <2>1. SUFFICES ASSUME e = "client", x.close = "no" PROVE Arrived'
        BY Zenon
    <2>2. p.from = "server" /\ p.kind # "close"
        BY <1>3, <1>5, <2>1, ZenonT(30) DEF Peer
    <2>3. QED
        BY <1>1, <2>2, ZenonT(60) DEF Travels, Lasts
<1>10. QED
    BY <1>2, <1>5, <1>6, <1>7, <1>8, <1>9, SessionStep, ZenonT(60)

\* A packet that cannot be decrypted yet.
LEMMA QueueingStep ==
    ASSUME Global, Lasts, LocalTypes, NEW e \in Endpoints, NEW p \in net, ~CanOpen(e, p),
           TryQueueing(e, p), UNCHANGED <<keys, out, net>>
    PROVE  Global'
<1>1. out' = out /\ net' = net /\ keys' = keys /\ sess' = sess
    BY Zenon DEF TryQueueing
<1>2. undec \in [Endpoints -> SUBSET Pkt] /\ p \in Pkt
    BY Zenon DEF Global, OtherTypes
<1>3. p.level > keys[e].read
    <2>1. keys[e].read \in 1..3
        BY LocalFacts, Zenon
    <2>2. p.level \in 1..3
        BY <1>2, Zenon DEF Pkt
    <2>3. QED
        BY <2>1, <2>2, SMTT(30), Z3T(30) DEF CanOpen
<1>4. undec' \in [Endpoints -> SUBSET Pkt] /\ Undecryptable'
    <2>1. CASE undec' = undec
        BY <1>1, <1>2, <2>1, ZenonT(60) DEF Global, Undecryptable
    <2>2. CASE undec' # undec
        <3> DEFINE x == undec[e] \cup {p}
                   new == [undec EXCEPT ![e] = x]
        <3>1. undec' = new
            BY <2>2, ZenonT(60) DEF TryQueueing
        <3>2. x \in SUBSET Pkt /\ \A q \in x : q \in undec[e] \/ q = p
            BY <1>2, Zenon
        <3> HIDE DEF x
        <3>3. /\ new \in [Endpoints -> SUBSET Pkt] /\ new[e] = x
              /\ \A f \in Endpoints : f # e => new[f] = undec[f]
            BY <1>2, <3>2, OneChanged, ZenonT(60)
        <3> HIDE DEF new
        <3>4. Undecryptable
            BY Zenon DEF Global
        <3>5. ASSUME NEW f \in Endpoints, NEW q \in new[f] PROVE q.level > keys[f].read
            <4>1. CASE f = e
                BY <1>3, <3>2, <3>3, <3>4, <4>1, ZenonT(60) DEF Undecryptable
            <4>2. CASE f # e
                BY <3>3, <3>4, <4>2, ZenonT(60) DEF Undecryptable
            <4>3. QED
                BY <4>1, <4>2, Zenon
        <3>6. QED
            BY <1>1, <3>1, <3>3, <3>5, ZenonT(60) DEF Undecryptable
    <2>3. QED
        BY <2>1, <2>2, ZenonT(60)
<1>5. OtherTypes'
    BY <1>1, <1>4, ZenonT(60) DEF Global, OtherTypes
<1>6. Writes' /\ Sends' /\ Travels' /\ HelloArrived'
    BY <1>1, WritesStays, SendsStays, TravelsStays, HelloStays, ZenonT(60) DEF Global, HelloFirst
<1>7. QED
    BY <1>4, <1>5, <1>6, ZenonT(60) DEF Global, HelloFirst


-----------------------------------------------------------------------------
(* The invariant *)

LEMMA Initially == Init => IInv
<1> SUFFICES ASSUME Init PROVE IInv
    BY Zenon
<1>1. <<>> \in Seq(Messages) /\ <<>> \in Seq(Channels) /\ "none" \in Messages
    BY DEF Messages
<1>2. tls \in [Endpoints -> TLSStates] /\ loop \in [Endpoints -> LoopStates]
    <2>1. tls = [e \in Endpoints |-> [pc |-> 0, state |-> "running"]]
        BY Zenon DEF Init
    <2>2. loop = [e \in Endpoints |-> [pc |-> IF e = "client" THEN "hello" ELSE "select",
                                       level |-> 1, msg |-> "none", waits |-> <<>>]]
        BY Zenon DEF Init
    <2>3. tls \in [Endpoints -> TLSStates]
        BY <2>1, SMTT(30), Z3T(30) DEF TLSStates
    <2>4. loop \in [Endpoints -> LoopStates]
        BY <1>1, <2>2, SMTT(30), Z3T(30) DEF LoopStates
    <2>5. QED
        BY <2>3, <2>4, Zenon
<1>3. msgs \in [Endpoints -> MsgsStates] /\ keys \in [Endpoints -> KeysStates]
    <2>1. /\ msgs = [e \in Endpoints |-> [chan |-> <<>>, closed |-> FALSE]]
          /\ keys = [e \in Endpoints |-> [read |-> 1, write |-> 1]]
        BY Zenon DEF Init
    <2>2. msgs \in [Endpoints -> MsgsStates]
        BY <1>1, <2>1, ZenonT(60) DEF MsgsStates
    <2>3. keys \in [Endpoints -> KeysStates]
        <3>1. [read |-> 1, write |-> 1] \in KeysStates
            BY SMTT(30), Z3T(30) DEF KeysStates
        <3>2. QED
            BY <2>1, <3>1, Zenon
    <2>4. QED
        BY <2>2, <2>3, Zenon
<1>4. errs \in [Endpoints -> BOOLEAN] /\ in \in [Endpoints -> [1..2 -> InStates]]
    <2> DEFINE none == [got |-> {}, handled |-> 0, finished |-> FALSE]
    <2>1. none \in InStates
        BY SMTT(30), Z3T(30) DEF InStates
    <2>2. /\ errs = [e \in Endpoints |-> FALSE]
          /\ in = [e \in Endpoints |-> [l \in 1..2 |-> none]]
        BY Zenon DEF Init
    <2> HIDE DEF none
    <2>3. QED
        BY <2>1, <2>2, ZenonT(60)
<1>5. LocalTypes
    BY <1>2, <1>3, <1>4, ZenonT(60) DEF LocalTypes
<1>6. out \in [Endpoints -> [1..2 -> OutStates]] /\ undec \in [Endpoints -> SUBSET Pkt]
    BY Zenon DEF Init, OutStates
<1>7. sess \in [Endpoints -> SessStates] /\ net \in SUBSET Pkt
    BY Zenon DEF Init, SessStates
<1>8. OtherTypes
    BY <1>6, <1>7, Zenon DEF OtherTypes
<1>9. ASSUME NEW e \in Endpoints PROVE Local(e)
    <2> DEFINE lp == IF e = "client" THEN "hello" ELSE "select"
    <2>1. Progress(e, 0, "running", 1, 1, 0, 0, lp, 1)
        BY Ends, SMTT(30), Z3T(30)
        DEF Progress, ReadKey, WriteKey, ReadBy, HandedBy, WaitedFor, LastMsg
    <2>2. Together(e, 0, "running", 0, FALSE, <<>>, lp, "none", <<>>)
        BY Ends, SMTT(30), Z3T(30) DEF Together, ReadBy, HandedBy, WaitedFor
    <2>3. At(e, 0, "running", 1, 1, 0, 0, lp, 1, FALSE, <<>>, "none", <<>>)
        <3>1. 0 + 0 = 0
            BY SMTT(30), Z3T(30)
        <3>2. QED
            BY <2>1, <2>2, <3>1, ZenonT(60) DEF At
    <2>4. /\ tls[e].pc = 0 /\ tls[e].state = "running" /\ keys[e].read = 1 /\ keys[e].write = 1
          /\ in[e][1].handled = 0 /\ in[e][2].handled = 0 /\ loop[e].pc = lp
          /\ loop[e].level = 1 /\ errs[e] = FALSE /\ msgs[e].chan = <<>>
          /\ loop[e].msg = "none" /\ loop[e].waits = <<>>
        BY SMTT(30), Z3T(30) DEF Init
    <2> HIDE DEF lp
    <2>5. QED
        BY <2>3, <2>4, ZenonT(60) DEF Local
<1>10. Undecryptable
    BY ZenonT(60) DEF Init, Undecryptable
<1>11. HelloFirst
    BY SMTT(30), Z3T(30) DEF Init, HelloFirst, Writes, Sends, Travels, HelloArrived, Endpoints
<1>12. QED
    BY <1>5, <1>8, <1>9, <1>10, <1>11, ZenonT(60) DEF IInv, StepInv

\* A step of e keeps what is said of e and of the rest.
Preserved(e) == Kept(e) /\ Global'

LEMMA FromKept ==
    ASSUME Global, NEW e \in Endpoints, Kept(e), UNCHANGED <<in, keys, out, undec, sess, net>>
    PROVE  Preserved(e)
<1>1. in' = in /\ keys' = keys
    BY Zenon
<1>2. Lasts
    BY <1>1, ZenonT(60) DEF Lasts, Arrived
<1>3. Global'
    BY <1>1, <1>2, GlobalStays, ZenonT(60)
<1>4. QED
    BY <1>3, Zenon DEF Preserved

LEMMA TLSKeeps ==
    ASSUME Global, LocalTypes, NEW e \in Endpoints, Local(e), TLSStep(e)
    PROVE  Preserved(e)
<1>1. CASE TLSRead(e)
    <2>1. UNCHANGED <<in, keys, out, undec, sess, net>>
        BY <1>1, ZenonT(30) DEF TLSRead
    <2>2. QED
        BY <1>1, <2>1, ReadStays, FromKept, ZenonT(60)
<1>2. CASE TLSReadClosed(e)
    <2>1. UNCHANGED <<in, keys, out, undec, sess, net>>
        BY <1>2, Zenon DEF TLSReadClosed
    <2>2. QED
        BY <1>2, <2>1, ReadClosedStays, FromKept, Zenon
<1>3. CASE WriteRecord(e)
    <2>1. Kept(e) /\ keys[e].write \in 1..2 /\ (e = "server" => in[e][1].handled = 1)
        BY <1>3, WriteStays, ZenonT(60)
    <2>2. Lasts
        BY <1>3, ZenonT(60) DEF WriteRecord, Lasts, Arrived
    <2>3. Global'
        BY <1>3, <2>1, <2>2, RecordStep, ZenonT(60)
    <2>4. QED
        BY <2>1, <2>3, ZenonT(60) DEF Preserved
<1>4. CASE HandOver(e)
    <2>1. /\ Kept(e) /\ in'[e][1].handled = in[e][1].handled
          /\ undec' = [undec EXCEPT ![e] = {}] \/ (undec' = undec /\ keys'[e].read = keys[e].read)
        BY <1>4, HandOverStays, ZenonT(60)
    <2>2. Lasts
        BY <2>1, LastsFrom, ZenonT(60)
    <2>3. UNCHANGED <<out, sess, net>> /\ \A f \in Endpoints : f # e => keys'[f] = keys[f]
        BY <1>4, <2>1, ZenonT(60) DEF HandOver, Kept, Same
    <2>4. Global'
        BY <2>1, <2>2, <2>3, QueueStep, ZenonT(60)
    <2>5. QED
        BY <2>1, <2>4, ZenonT(60) DEF Preserved
<1>5. QED
    BY <1>1, <1>2, <1>3, <1>4, ZenonT(60) DEF TLSStep

LEMMA RunnerKeeps ==
    ASSUME Global, LocalTypes, NEW e \in Endpoints, Local(e), RunnerStep(e)
    PROVE  Preserved(e)
<1>1. CASE HandshakeAborted(e)
    <2>1. UNCHANGED <<in, keys, out, undec, sess, net>>
        BY <1>1, Zenon DEF HandshakeAborted
    <2>2. QED
        BY <1>1, <2>1, AbortedStays, FromKept, Zenon
<1>2. CASE HandshakeReturned(e)
    <2>1. UNCHANGED <<tls, loop, msgs, errs, keys, in>> /\ in' = in
        BY <1>2, ZenonT(60) DEF HandshakeReturned
    <2>2. Kept(e) /\ Lasts
        BY <2>1, NothingStays, ZenonT(60) DEF Lasts, Arrived
    <2>3. QED
        BY <1>2, <2>2, ReturnedStep, ZenonT(60) DEF Preserved
<1>3. CASE HandshakeFailed(e)
    <2>1. in' = in
        BY <1>3, Zenon DEF HandshakeFailed
    <2>2. Kept(e) /\ Lasts
        BY <1>3, <2>1, FailedStays, ZenonT(60) DEF Lasts, Arrived
    <2>3. QED
        BY <1>3, <2>2, FailedStep, Zenon DEF Preserved
<1>4. QED
    BY <1>1, <1>2, <1>3, ZenonT(60) DEF RunnerStep

LEMMA HandlerKeeps ==
    ASSUME Global, LocalTypes, NEW e \in Endpoints, Local(e), HandlerStep(e)
    PROVE  Preserved(e)
<1>1. CASE HandleMessage(e)
    <2>1. Kept(e) /\ (in[e][1].handled = 1 => in'[e][1].handled = 1)
        BY <1>1, MessageStays, ZenonT(60)
    <2>2. Lasts
        BY <2>1, LastsFrom, ZenonT(60)
    <2>3. UNCHANGED <<out, undec, sess, net>> /\ keys' = keys
        BY <1>1, Zenon DEF HandleMessage
    <2>4. Global'
        BY <2>2, <2>3, GlobalStays, ZenonT(60)
    <2>5. QED
        BY <2>1, <2>4, ZenonT(60) DEF Preserved
<1>2. CASE NoMoreMessages(e)
    <2>1. UNCHANGED <<in, keys, out, undec, sess, net>>
        BY <1>2, Zenon DEF NoMoreMessages
    <2>2. QED
        BY <1>2, <2>1, NoMoreStays, FromKept, Zenon
<1>3. CASE GiveUpWaiting(e)
    <2>1. Kept(e) /\ in'[e][1].handled = in[e][1].handled /\ keys' = keys
        BY <1>3, GiveUpStays, ZenonT(60)
    <2>2. Lasts
        BY <2>1, LastsFrom, ZenonT(60)
    <2>3. UNCHANGED <<out, sess, net>> /\ (undec' = [undec EXCEPT ![e] = {}] \/ undec' = undec)
        BY <1>3, ZenonT(60) DEF GiveUpWaiting, MessageHandled, TryDecryptingQueuedPackets
    <2>4. Global'
        BY <2>1, <2>2, <2>3, QueueStep, ZenonT(60)
    <2>5. QED
        BY <2>1, <2>4, ZenonT(60) DEF Preserved
<1>4. CASE CloseReturns(e)
    <2>1. UNCHANGED <<in, keys, out, undec, sess, net>>
        BY <1>4, ZenonT(60) DEF CloseReturns
    <2>2. QED
        BY <1>4, <2>1, CloseReturnsStays, FromKept, Zenon
<1>5. QED
    BY <1>1, <1>2, <1>3, <1>4, Zenon DEF HandlerStep


LEMMA LoopKeeps ==
    ASSUME Global, LocalTypes, NEW e \in Endpoints, Local(e),
           LoopStep(e) \/ PackOther(e) \/ CloseLocal(e)
    PROVE  Preserved(e)
<1>1. CASE StopLoop(e)
    <2>1. Kept(e) /\ Lasts
        BY <1>1, StopStays, ZenonT(60) DEF StopLoop, Lasts, Arrived
    <2>2. QED
        BY <1>1, <2>1, StopStep, ZenonT(60) DEF Preserved
<1>2. CASE ~StopLoop(e)
    <2>1. UNCHANGED <<tls, loop, msgs, errs, keys, in>> /\ in' = in
        BY <1>2, Zenon DEF LoopStep, PackCrypto, HandleHandshakeComplete, PackOther, CloseLocal
    <2>2. Kept(e) /\ Lasts
        BY <2>1, NothingStays, ZenonT(60) DEF Lasts, Arrived
    <2>3. Global'
        BY <1>2, <2>2, CryptoStep, CompleteStep, OtherStep, CloseStep, ZenonT(60) DEF LoopStep
    <2>4. QED
        BY <2>2, <2>3, ZenonT(60) DEF Preserved
<1>3. QED
    BY <1>1, <1>2, ZenonT(60)

LEMMA ReceiveKeeps ==
    ASSUME Global, LocalTypes, NEW e \in Endpoints, Local(e), NEW p \in net, ReceivePacket(e, p)
    PROVE  Preserved(e)
<1>1. /\ loop[e].pc = "select" /\ p.from = Peer(e) /\ UNCHANGED <<tls, msgs, errs, keys>>
      /\ UNCHANGED <<keys, out, net>>
    BY Zenon DEF ReceivePacket
<1>2. CASE CanOpen(e, p)
    <2>1. Unpacked(e, p) /\ p \in Pkt
        BY <1>2, ZenonT(60) DEF ReceivePacket, Global, OtherTypes
    <2>2. Kept(e) /\ in'[e][1].handled = in[e][1].handled
        BY <1>1, <1>2, <2>1, UnpackedStays, ZenonT(60)
    <2>3. Lasts
        BY <2>2, LastsFrom, ZenonT(60)
    <2>4. Global'
        BY <1>1, <2>1, <2>3, UnpackedStep, ZenonT(60)
    <2>5. QED
        BY <2>2, <2>4, ZenonT(60) DEF Preserved
<1>3. CASE ~CanOpen(e, p)
    <2>1. TryQueueing(e, p)
        BY <1>3, ZenonT(60) DEF ReceivePacket
    <2>2. UNCHANGED <<tls, loop, msgs, errs, keys, in>> /\ in' = in
        BY <1>1, <2>1, ZenonT(60) DEF TryQueueing
    <2>3. Kept(e) /\ Lasts
        BY <2>2, NothingStays, ZenonT(60) DEF Lasts, Arrived
    <2>4. Global'
        BY <1>1, <1>3, <2>1, <2>3, QueueingStep, ZenonT(60)
    <2>5. QED
        BY <2>3, <2>4, ZenonT(60) DEF Preserved
<1>4. QED
    BY <1>2, <1>3, ZenonT(60)

LEMMA Inductive == IInv /\ [Next]_vars => IInv'
<1> SUFFICES ASSUME IInv, [Next]_vars PROVE IInv'
    BY Zenon
<1>1. Global /\ LocalTypes /\ \A e \in Endpoints : Local(e)
    BY Zenon DEF IInv, Global, StepInv
<1>2. CASE Next
    <2>1. PICK e \in Endpoints :
              \/ TLSStep(e) \/ RunnerStep(e) \/ HandlerStep(e) \/ LoopStep(e)
              \/ PackOther(e) \/ CloseLocal(e)
              \/ \E p \in net : ReceivePacket(e, p)
        BY <1>2, ZenonT(60) DEF Next
    <2>2. Preserved(e)
        BY <1>1, <2>1, TLSKeeps, RunnerKeeps, HandlerKeeps, LoopKeeps, ReceiveKeeps, ZenonT(60)
    <2>3. ASSUME NEW f \in Endpoints PROVE Local(f)'
        <3>1. CASE f = e
            BY <2>2, <3>1, ZenonT(60) DEF Preserved, Kept
        <3>2. CASE f # e
            <4>1. Same(f) /\ Local(f)
                BY <1>1, <2>2, <3>2, ZenonT(60) DEF Preserved, Kept
            <4>2. QED
                BY <4>1, OtherEnd, ZenonT(60)
        <3>3. QED
            BY <3>1, <3>2, ZenonT(60)
    <2>4. QED
        BY <2>2, <2>3, ZenonT(60) DEF Preserved, Kept, Global, IInv, StepInv
<1>3. CASE UNCHANGED vars
    <2>1. /\ UNCHANGED <<tls, loop, msgs, errs, keys, in>>
          /\ UNCHANGED <<in, keys, out, undec, sess, net>>
        BY <1>3, Zenon DEF vars
    <2>2. PICK e \in Endpoints : TRUE
        BY Zenon DEF Endpoints
    <2>3. Preserved(e)
        BY <1>1, <2>1, NothingStays, FromKept, ZenonT(60)
    <2>4. ASSUME NEW f \in Endpoints PROVE Local(f)'
        <3>1. Same(f)
            BY <2>1, Zenon DEF Same
        <3>2. QED
            BY <1>1, <3>1, OtherEnd, ZenonT(60)
    <2>5. QED
        BY <2>3, <2>4, Zenon DEF Preserved, Kept, Global, IInv, StepInv
<1>4. QED
    BY <1>2, <1>3, ZenonT(60)

LEMMA Always == Spec => []IInv
BY Initially, Inductive, PTL DEF Spec

-----------------------------------------------------------------------------
(* What follows *)

LEMMA InStepFollows == IInv => InStep
<1> SUFFICES ASSUME IInv, NEW e \in Endpoints, Running(e)
             PROVE  /\ Step(e).op = "hand" =>
                          loop[e].pc = "wait" /\ Head(loop[e].waits) = Step(e).arg
                    /\ Step(e).op = "read" /\ msgs[e].chan # <<>> =>
                          Head(msgs[e].chan) = Step(e).arg
                    /\ Step(e).op = "write" => loop[e].pc \in {"hello", "wait", "close"}
    BY Zenon DEF InStep
<1> DEFINE pc == tls[e].pc
<1>1. LocalTypes /\ Local(e)
    BY Zenon DEF IInv, StepInv
<1>2. /\ in[e][1].handled \in 0..3 /\ in[e][2].handled \in 0..3 /\ loop[e].level \in 1..2
      /\ msgs[e].chan \in Seq(Messages) /\ pc \in 0..11
    BY <1>1, LocalFacts, ZenonT(60)
<1>3. tls[e].state = "running" /\ pc \in 0..10 /\ Step(e) = Script(e)[pc + 1]
    <2>1. tls[e].state = "running" /\ pc < Len(Script(e)) /\ Len(Script(e)) = 11
        BY ScriptLength, ZenonT(60) DEF Running
    <2>2. pc \in 0..11
        BY <1>2, ZenonT(60)
    <2>3. pc \in 0..10
        <3> HIDE DEF pc
        <3>1. QED
            BY <2>1, <2>2, SMTT(30), Z3T(30)
    <2>4. QED
        BY <2>1, <2>3, ZenonT(60) DEF Step
<1>4. At(e, pc, "running", keys[e].read, keys[e].write,
         in[e][1].handled, in[e][2].handled, loop[e].pc, loop[e].level,
         errs[e], msgs[e].chan, loop[e].msg, loop[e].waits)
    BY <1>1, <1>3, ZenonT(60) DEF Local
<1>5. pc \in 0..10
    BY <1>3, ZenonT(60)
<1> HIDE DEF pc
<1>6. ASSUME Step(e).op = "hand"
      PROVE  loop[e].pc = "wait" /\ Head(loop[e].waits) = Step(e).arg
    <2>1. Script(e)[pc + 1].op = "hand"
        BY <1>3, <1>6, ZenonT(60)
    <2>2. WaitsFor(Script(e)[pc + 1].arg, loop[e].pc, loop[e].waits, loop[e].msg)
        BY <1>2, <1>4, <1>5, <2>1, WaitsAt, ZenonT(60)
    <2>3. QED
        BY <1>3, <2>2, ZenonT(60) DEF WaitsFor
<1>7. ASSUME Step(e).op = "read", msgs[e].chan # <<>>
      PROVE  Head(msgs[e].chan) = Step(e).arg
    <2>1. Script(e)[pc + 1].op = "read"
        BY <1>3, <1>7, ZenonT(60)
    <2>2. Comes(Script(e)[pc + 1].arg, msgs[e].chan)
        BY <1>2, <1>4, <1>5, <1>7, <2>1, ComesAt, ZenonT(60)
    <2>3. QED
        BY <1>3, <2>2, ZenonT(60) DEF Comes
<1>8. ASSUME Step(e).op = "write" PROVE loop[e].pc \in {"hello", "wait", "close"}
    <2>1. Script(e)[pc + 1].op = "write"
        BY <1>3, <1>8, ZenonT(60)
    <2>2. QED
        BY <1>2, <1>4, <1>5, <2>1, WriteAt, ZenonT(30)
<1>9. QED
    BY <1>6, <1>7, <1>8, ZenonT(60)

\* At each endpoint the run loop waits for what TLS hands over, in the order in
\* which TLS does so; TLS reads from messageChan the message it expects; and it
\* writes to the crypto streams only while the run loop does not read them.
THEOREM StaysInStep == Spec => []InStep
BY Always, InStepFollows, PTL

\* When the run loop is at its select statement, no packet is left in
\* undecryptablePackets that the keys would decrypt.
THEOREM NothingIsLeftBehind == Spec => []NothingLeftBehind
<1>1. IInv => NothingLeftBehind
    BY ZenonT(60) DEF IInv, Undecryptable, NothingLeftBehind
<1>2. QED
    BY <1>1, Always, PTL

\* A client that has decrypted a packet of the server, and is not closing, may
\* stop sending its ClientHello: the server has handled it.
THEOREM HelloHasArrived == Spec => []HelloArrived
<1>1. IInv => HelloArrived
    BY Zenon DEF IInv, HelloFirst
<1>2. QED
    BY <1>1, Always, PTL


=============================================================================
