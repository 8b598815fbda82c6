------------------------- MODULE SentPacketHandler -------------------------
(***************************************************************************)
(* The sender half of loss recovery: internal/ackhandler's                 *)
(* sentPacketHandler, its sentPacketHistory and its packetNumberGenerator, *)
(* driven packet by packet the way session.sendPackets drives it.          *)
(*                                                                         *)
(* Data is abstracted to what recovery tells apart.  A packet carries a    *)
(* non-empty set of frames (the retransmittable ones, after                *)
(* stripNonRetransmittableFrames); a retransmission carries some of the    *)
(* frames of the packet it replaces.  Time is abstracted: send times grow  *)
(* with the packet number, so the packets that are older than the loss     *)
(* delay are always the first ones of the history, and which alarm is due  *)
(* when is left open.  The congestion window is any value the congestion   *)
(* controller may report.  Back-off counters (handshakeCount, rtoCount)    *)
(* only scale timeouts and are left out with them.                         *)
(***************************************************************************)
EXTENDS Integers, Sequences, FiniteSets, FiniteSetsExt, Functions

CONSTANTS
    Lengths,          \* the lengths a packet may have
    Cwnds,            \* the congestion windows the congestion controller may report
    SkipOffsets,      \* the random part of generateNewSkip
    MaxOutstanding,   \* protocol.MaxOutstandingSentPackets
    MaxTracked,       \* protocol.MaxTrackedSentPackets
    MaxTrackedSkipped,\* protocol.MaxTrackedSkippedPackets
    MaxTLPs,          \* maxTLPs
    IsClient,         \* session.perspective
    MaxPn,            \* bound: no packet number above it is used
    MaxRTOs           \* bound: no RTO alarm fires with more unsent RTO probes

ASSUME ConstantsAssumption ==
    /\ Lengths \subseteq Nat \ {0} /\ Lengths # {}
    /\ Cwnds \subseteq Nat /\ Cwnds # {}
    /\ SkipOffsets \subseteq Nat /\ SkipOffsets # {}
    /\ MaxOutstanding \in Nat \ {0}
    /\ MaxTracked \in Nat /\ MaxTracked > MaxOutstanding
    /\ MaxTrackedSkipped \in Nat \ {0}
    /\ MaxTLPs \in Nat
    /\ IsClient \in BOOLEAN
    /\ MaxPn \in Nat
    /\ MaxRTOs \in Nat

VARIABLES
    gen,           \* packetNumberGenerator: next, nextToSkip, skipped (its history)
    lastSent,      \* lastSentPacketNumber
    largestAcked,  \* largestAcked
    hist,          \* packetHistory: packets, first(Outstanding), num(Outstanding...)
    queue,         \* retransmissionQueue
    bytesInFlight, \* bytesInFlight
    cwnd,          \* congestion.GetCongestionWindow()
    tlpCount,      \* tlpCount
    allowTLP,      \* allowTLP
    numRTOs,       \* numRTOs
    lossTime,      \* whether lossTime is set
    alarm,         \* whether alarm is set
    hsComplete,    \* handshakeComplete
    gotPacket,     \* session.receivedFirstPacket
    err,           \* the error that made the session close itself
    pending        \* (history) frames sent and not yet acknowledged or, with the
                   \* handshake, given up

vars == <<gen, lastSent, largestAcked, hist, queue, bytesInFlight, cwnd,
          tlpCount, allowTLP, numRTOs, lossTime, alarm, hsComplete, gotPacket,
          err, pending>>

Levels == {"Initial", "Handshake", "1RTT"}
None == 0
Errors == {"none", "unsent", "skipped", "bug", "noprobe"}

-----------------------------------------------------------------------------
(* packetNumberGenerator *)

\* Mutant of Pop: the number to skip is recorded, and used all the same.
PopUsesSkipped(g, skip) ==
    LET n == g.next + 1
    IN  IF n = g.nextToSkip
        THEN [next |-> n, nextToSkip |-> n + 3 + skip, skipped |-> <<n>>]
        ELSE [g EXCEPT !.next = n]

\* Pop returns g.next; this is the generator it leaves behind.
Pop(g, skip) ==
    LET n == g.next + 1
        kept == IF Len(g.skipped) + 1 > MaxTrackedSkipped
                THEN Tail(g.skipped) ELSE g.skipped
    IN  IF n = g.nextToSkip
        THEN [next |-> n + 1, nextToSkip |-> n + 3 + skip,
              skipped |-> Append(kept, n)]
        ELSE [g EXCEPT !.next = n]

-----------------------------------------------------------------------------
(* sentPacketHistory.  A packet is in the history from the moment it is    *)
(* sent until it is acknowledged or declared lost; it is outstanding while *)
(* it can be retransmitted.                                                *)

Outstanding(pkts) == {p \in DOMAIN pkts : pkts[p].can}
Handshake(pkts, ps) == {p \in ps : pkts[p].enc # "1RTT"}

\* sentPacketImpl, for the packets of the function new.
AddPackets(h, new) ==
    [packets |-> [p \in DOMAIN h.packets \cup DOMAIN new |->
                    IF p \in DOMAIN new THEN new[p] ELSE h.packets[p]],
     first |-> IF h.first = None THEN Min(DOMAIN new) ELSE h.first,
     num |-> h.num + Cardinality(DOMAIN new),
     numHS |-> h.numHS + Cardinality(Handshake(new, DOMAIN new))]

\* Mutant of Readjust: the pointer stays behind when its packet goes away.
ReadjustNever(first, pkts) == first

\* readjustFirstOutstanding, as often as the packets that went away need it:
\* the pointer only ever moves towards the end of the list.
Readjust(first, pkts) ==
    LET rest == {p \in Outstanding(pkts) : p >= first}
    IN  IF first = None \/ rest = {} THEN None ELSE Min(rest)

\* MarkCannotBeRetransmitted and Remove: the packets become pkts, and the
\* counters lose those that stop being outstanding.
ReplacePackets(h, pkts) ==
    LET gone == Outstanding(h.packets) \ Outstanding(pkts)
    IN  [packets |-> pkts,
         first |-> Readjust(h.first, pkts),
         num |-> h.num - Cardinality(gone),
         numHS |-> h.numHS - Cardinality(Handshake(h.packets, gone))]

\* Mutant of MarkCannotBeRetransmitted: the flag is not written back.
MarkNothing(h, ps) == h

MarkCannotBeRetransmitted(h, ps) ==
    ReplacePackets(h, [p \in DOMAIN h.packets |->
                         [h.packets[p] EXCEPT !.can = @ /\ p \notin ps]])
RemovePackets(h, ps) ==
    ReplacePackets(h, [p \in DOMAIN h.packets \ ps |-> h.packets[p]])

Bytes(pkts, ps) == SumFunctionOnSet([p \in DOMAIN pkts |-> pkts[p].len], ps)

\* The retransmissionQueue keeps pointers to packets; this is what is read
\* through them later.
QueueEntry(pkts, p) == [pn |-> p, enc |-> pkts[p].enc, data |-> pkts[p].data]

\* The numbers of S in ascending order: the only element of a set, because the
\* proofs use what defines the sequence and not how it is found.
Ascending(S) ==
    {s \in [1..Cardinality(S) -> S] : \A i, j \in DOMAIN s : i < j => s[i] < s[j]}

\* queuePacketForRetransmission for each packet of ps, oldest first: what is
\* appended to the queue.
Queued(pkts, ps) == {[i \in DOMAIN s |-> QueueEntry(pkts, s[i])] : s \in Ascending(ps)}

-----------------------------------------------------------------------------
(* What the session may send now. *)

\* Mutant of SendMode: the congestion window is looked at before the probes are.
SendModeWindowFirst ==
    LET tracked == Len(queue) + Cardinality(DOMAIN hist.packets)
    IN  CASE tracked >= MaxTracked -> "SendNone"
          [] tracked < MaxTracked /\ bytesInFlight > cwnd -> "SendAck"
          [] OTHER -> IF allowTLP THEN "SendTLP"
                      ELSE IF numRTOs > 0 THEN "SendRTO"
                      ELSE IF queue # <<>> THEN "SendRetransmission"
                      ELSE IF tracked >= MaxOutstanding THEN "SendAck"
                      ELSE "SendAny"

SendMode ==
    LET tracked == Len(queue) + Cardinality(DOMAIN hist.packets)
    IN  CASE tracked >= MaxTracked -> "SendNone"
          [] tracked < MaxTracked /\ allowTLP -> "SendTLP"
          [] tracked < MaxTracked /\ ~allowTLP /\ numRTOs > 0 -> "SendRTO"
          [] OTHER -> IF bytesInFlight > cwnd THEN "SendAck"
                      ELSE IF queue # <<>> THEN "SendRetransmission"
                      ELSE IF tracked >= MaxOutstanding THEN "SendAck"
                      ELSE "SendAny"

\* Mutant of UpdateLossDetectionAlarm: an off-by-one in its first test.
AlarmForSeveral(num) == num > 1

\* updateLossDetectionAlarm: whether the alarm is set for num outstanding packets.
UpdateLossDetectionAlarm(num) == num > 0

\* Mutant of AddInFlight: packets are not counted.
AddNothing(new) == bytesInFlight

AddInFlight(new) == bytesInFlight + Bytes(new, DOMAIN new)

\* sentPacketImpl for retransmittable packets, after which the history is h.
SentPacketImpl(h, new, g) ==
    /\ Max(DOMAIN new) <= MaxPn
    /\ gen' = g
    /\ lastSent' = Max(DOMAIN new)
    /\ hist' = AddPackets(h, new)
    /\ bytesInFlight' = AddInFlight(new)
    /\ numRTOs' = Max({0, numRTOs - Cardinality(DOMAIN new)})
    /\ allowTLP' = FALSE
    /\ alarm' = UpdateLossDetectionAlarm(hist'.num)

\* A packet with retransmittable frames: SentPacket.
SentPacket(enc, len, skip) ==
    LET pn == gen.next
    IN  /\ err = "none" /\ SendMode = "SendAny"
        /\ hsComplete => enc = "1RTT"
        /\ SentPacketImpl(hist,
               [p \in {pn} |-> [enc |-> enc, len |-> len, data |-> {pn} \X {1, 2},
                                can |-> TRUE, rAs |-> {}, rOf |-> None]],
               Pop(gen, skip))
        /\ pending' = pending \cup {pn} \X {1, 2}
        /\ UNCHANGED <<largestAcked, queue, cwnd, tlpCount, lossTime, hsComplete,
                       gotPacket, err>>

\* A packet without retransmittable frames (an ACK, an OWD frame) takes a
\* packet number and leaves no other trace.
SentNonRetransmittable(skip) ==
    /\ err = "none" /\ SendMode \in {"SendAny", "SendAck"}
    /\ gen.next <= MaxPn
    /\ gen' = Pop(gen, skip)
    /\ lastSent' = gen.next
    /\ UNCHANGED <<largestAcked, hist, queue, bytesInFlight, cwnd, tlpCount,
                   allowTLP, numRTOs, lossTime, alarm, hsComplete, gotPacket,
                   err, pending>>

\* Mutant of Packings: what does not fit into the first packet is dropped.
PackingsCut(q) == {<<d>> : d \in (SUBSET q.data) \ {{}}}

\* packer.PackRetransmission: a 1-RTT packet may have to be split in two.
Packings(q) ==
    {<<q.data>>} \cup
    (IF q.enc = "1RTT"
     THEN {<<d, q.data \ d>> : d \in (SUBSET q.data) \ {{}, q.data}} ELSE {})

\* SentPacketsAsRetransmission for the dequeued packet q.  Two numbers in a
\* row are never skipped, so one random offset serves both Pops.
SendRetransmission(h, q, skip) ==
    \E parts \in Packings(q) :
        LET first == gen.next
            g1 == Pop(gen, skip)
            second == g1.next
            g == IF Len(parts) = 2 THEN Pop(g1, skip) ELSE g1
            pns == IF Len(parts) = 2 THEN {first, second} ELSE {first}
            known == q.pn \in DOMAIN h.packets
            linked == IF known THEN [h EXCEPT !.packets[q.pn].rAs = pns] ELSE h
        IN  \E len \in [pns -> Lengths] :
                SentPacketImpl(linked,
                    [p \in pns |->
                       [enc |-> q.enc, len |-> len[p],
                        data |-> IF p = first THEN parts[1] ELSE parts[2],
                        can |-> TRUE, rAs |-> {},
                        rOf |-> IF known THEN q.pn ELSE None]],
                    g)

\* session.maybeSendRetransmission: an Initial is not retransmitted once the
\* server has answered.
SkipInitial ==
    IsClient /\ gotPacket /\ Head(queue).enc = "Initial"

MaybeSendRetransmission(skip) ==
    /\ err = "none" /\ SendMode = "SendRetransmission"
    /\ queue' = Tail(queue)
    /\ IF SkipInitial
       THEN /\ pending' = pending \ Head(queue).data
            /\ UNCHANGED <<gen, lastSent, hist, bytesInFlight, numRTOs, allowTLP,
                           alarm>>
       ELSE SendRetransmission(hist, Head(queue), skip) /\ UNCHANGED pending
    /\ UNCHANGED <<largestAcked, cwnd, tlpCount, lossTime, hsComplete, gotPacket,
                   err>>

\* session.sendProbePacket and DequeueProbePacket.
SendProbePacket(skip) ==
    /\ err = "none" /\ SendMode \in {"SendTLP", "SendRTO"}
    /\ \/ /\ queue # <<>>
          /\ SendRetransmission(hist, Head(queue), skip)
          /\ queue' = Tail(queue)
          /\ UNCHANGED err
       \/ /\ queue = <<>> /\ hist.first # None
          /\ SendRetransmission(MarkCannotBeRetransmitted(hist, {hist.first}),
                                QueueEntry(hist.packets, hist.first), skip)
          /\ UNCHANGED <<queue, err>>
       \/ /\ queue = <<>> /\ hist.first = None
          /\ err' = "noprobe"
          /\ UNCHANGED <<gen, lastSent, hist, queue, bytesInFlight, numRTOs,
                         allowTLP, alarm>>
    /\ UNCHANGED <<largestAcked, cwnd, tlpCount, lossTime, hsComplete, gotPacket,
                   pending>>

-----------------------------------------------------------------------------
(* Acknowledgements, losses and alarms. *)

\* Everything stopRetransmissionsFor reaches from the packets of ps: the least
\* set that contains them and is closed under retransmittedAs.
StopRetransmissionsFor(pkts, ps) ==
    {p \in DOMAIN pkts :
        \A closed \in SUBSET DOMAIN pkts :
            (/\ ps \subseteq closed
             /\ \A q \in closed : pkts[q].rAs \cap DOMAIN pkts \subseteq closed)
            => p \in closed}

\* Mutant of Lost: the comparison of the send time is the wrong way round.
LostYoungest(candidates, cut) == {p \in candidates : cut > 0 /\ p >= cut}

\* The candidates that were sent no later than cut.
Lost(candidates, cut) == {p \in candidates : p <= cut}

\* detectLostPackets: lost are the packets up to the largest acknowledged one
\* that are old enough; the older a packet, the smaller its number.
DetectLostPackets(h, largest, inFlight) ==
    \E cut \in {0} \cup DOMAIN h.packets :
        LET candidates == {p \in DOMAIN h.packets : p <= largest}
            lost == Lost(candidates, cut)
            again == lost \cap Outstanding(h.packets)
        IN  /\ cut <= largest
            /\ lossTime' = (candidates # lost)
            /\ hist' = RemovePackets(h, lost)
            /\ \E s \in Queued(h.packets, again) : queue' = queue \o s
            /\ bytesInFlight' = inFlight - Bytes(h.packets, lost)

\* onPacketAcked for the packets of newly, in ascending order: parents first, so
\* no acknowledged packet changes what a later one reaches.
OnPacketsAcked(h, newly) ==
    LET pkts == h.packets
        stopped == MarkCannotBeRetransmitted(h, StopRetransmissionsFor(pkts, newly))
        unlinked == [stopped EXCEPT !.packets =
                       [p \in DOMAIN pkts |->
                          [stopped.packets[p] EXCEPT
                             !.rAs = @ \ {r \in newly : pkts[r].rOf = p}]]]
    IN  RemovePackets(unlinked, newly)

\* An ACK for the packets of ack: ReceivedAck.  (An ACK that arrives in an
\* older packet than the last one is ignored, and is no step.)  With "bug" the
\* session closes: how much of the ACK was handled by then makes no difference.
\* Only the first level of stopRetransmissionsFor can fail: the error of the
\* recursive call is dropped.
ReceivedAck(ack) ==
    LET pkts == hist.packets
        newly == ack \cap DOMAIN pkts
        largest == Max({largestAcked, Max(ack)})
    IN  /\ err = "none"
        /\ gotPacket' = TRUE
        /\ UNCHANGED <<gen, lastSent, hsComplete, allowTLP, numRTOs>>
        /\ \/ /\ Max(ack) > lastSent
              /\ err' = "unsent"
              /\ UNCHANGED <<largestAcked, hist, queue, bytesInFlight, cwnd,
                             tlpCount, lossTime, alarm, pending>>
           \/ /\ Max(ack) <= lastSent
              /\ ack \cap Range(gen.skipped) # {}
              /\ err' = "skipped" /\ largestAcked' = largest
              /\ UNCHANGED <<hist, queue, bytesInFlight, cwnd, tlpCount, lossTime,
                             alarm, pending>>
           \/ /\ Max(ack) <= lastSent
              /\ ack \cap Range(gen.skipped) = {}
              /\ err' = IF \A p \in newly : pkts[p].rAs \subseteq DOMAIN pkts
                        THEN "none" ELSE "bug"
              /\ largestAcked' = largest
              /\ tlpCount' = IF newly = {} THEN tlpCount ELSE 0
              /\ pending' = pending \ UNION {pkts[p].data : p \in newly}
              /\ DetectLostPackets(OnPacketsAcked(hist, newly), largest,
                                   bytesInFlight - Bytes(pkts, newly))
              /\ alarm' = UpdateLossDetectionAlarm(hist'.num)
              /\ cwnd' \in Cwnds

\* The session found the alarm in the past: OnAlarm.
OnAlarm ==
    LET again == Handshake(hist.packets, Outstanding(hist.packets))
    IN  /\ err = "none" /\ alarm
        /\ \/ /\ hist.num = 0
              /\ UNCHANGED <<hist, queue, bytesInFlight, cwnd, lossTime, tlpCount,
                             allowTLP, numRTOs>>
           \/ /\ hist.num > 0 /\ hist.numHS > 0
              /\ hist' = MarkCannotBeRetransmitted(hist, again)
              /\ \E s \in Queued(hist.packets, again) : queue' = queue \o s
              /\ UNCHANGED <<bytesInFlight, cwnd, lossTime, tlpCount, allowTLP,
                             numRTOs>>
           \/ /\ hist.num > 0 /\ hist.numHS = 0 /\ lossTime
              /\ DetectLostPackets(hist, largestAcked, bytesInFlight)
              /\ cwnd' \in Cwnds
              /\ UNCHANGED <<tlpCount, allowTLP, numRTOs>>
           \/ /\ hist.num > 0 /\ hist.numHS = 0 /\ ~lossTime
              /\ tlpCount < MaxTLPs
              /\ allowTLP' = TRUE /\ tlpCount' = tlpCount + 1
              /\ UNCHANGED <<hist, queue, bytesInFlight, cwnd, lossTime, numRTOs>>
           \/ /\ hist.num > 0 /\ hist.numHS = 0 /\ ~lossTime
              /\ tlpCount >= MaxTLPs
              /\ numRTOs <= MaxRTOs
              /\ numRTOs' = numRTOs + 2
              /\ UNCHANGED <<hist, queue, bytesInFlight, cwnd, lossTime, tlpCount,
                             allowTLP>>
        /\ alarm' = UpdateLossDetectionAlarm(hist'.num)
        /\ UNCHANGED <<gen, lastSent, largestAcked, hsComplete, gotPacket, err,
                       pending>>

\* The session decrypted a packet without an ACK frame.
ReceivedPacket ==
    /\ err = "none" /\ ~gotPacket
    /\ gotPacket' = TRUE
    /\ UNCHANGED <<gen, lastSent, largestAcked, hist, queue, bytesInFlight, cwnd,
                   tlpCount, allowTLP, numRTOs, lossTime, alarm, hsComplete, err,
                   pending>>

\* The peer is known to have completed the handshake: SetHandshakeComplete.
\* Neither bytesInFlight nor the alarm is touched.
SetHandshakeComplete ==
    LET pkts == hist.packets
        gone == Handshake(pkts, DOMAIN pkts)
        kept == {i \in DOMAIN queue : queue[i].enc = "1RTT"}
    IN  /\ err = "none" /\ ~hsComplete
        /\ hsComplete' = TRUE
        /\ gotPacket' = TRUE
        /\ hist' = RemovePackets(hist, gone)
        /\ \E s \in Ascending(kept) : queue' = [i \in DOMAIN s |-> queue[s[i]]]
        /\ pending' = pending \ UNION ({pkts[p].data : p \in gone} \cup
                                       {queue[i].data : i \in DOMAIN queue \ kept})
        /\ UNCHANGED <<gen, lastSent, largestAcked, bytesInFlight, cwnd, tlpCount,
                       allowTLP, numRTOs, lossTime, alarm, err>>

-----------------------------------------------------------------------------
Init ==
    /\ \E skip \in SkipOffsets :
          gen = [next |-> 1, nextToSkip |-> 3 + skip, skipped |-> <<>>]
    /\ lastSent = 0 /\ largestAcked = 0
    /\ hist = [packets |-> [p \in {} |-> None], first |-> None, num |-> 0, numHS |-> 0]
    /\ queue = <<>> /\ bytesInFlight = 0
    /\ cwnd \in Cwnds
    /\ tlpCount = 0 /\ allowTLP = FALSE /\ numRTOs = 0
    /\ lossTime = FALSE /\ alarm = FALSE
    /\ hsComplete = FALSE /\ gotPacket = FALSE
    /\ err = "none" /\ pending = {}

Next ==
    \/ \E enc \in Levels, len \in Lengths, skip \in SkipOffsets :
          SentPacket(enc, len, skip)
    \/ \E skip \in SkipOffsets : SentNonRetransmittable(skip)
    \/ \E skip \in SkipOffsets : MaybeSendRetransmission(skip)
    \/ \E skip \in SkipOffsets : SendProbePacket(skip)
    \/ \E ack \in (SUBSET (1..lastSent + 1)) \ {{}} : ReceivedAck(ack)
    \/ OnAlarm
    \/ ReceivedPacket
    \/ SetHandshakeComplete

Spec == Init /\ [][Next]_vars

-----------------------------------------------------------------------------
Frames == (1..MaxPn) \X {1, 2}
Packet == [enc : Levels, len : Lengths, data : (SUBSET Frames) \ {{}},
           can : BOOLEAN, rAs : SUBSET (1..MaxPn), rOf : 0..MaxPn]

\* Type invariant (the type of bytesInFlight is part of InFlightCovered).
TypeOK ==
    /\ gen \in [next : Nat \ {0}, nextToSkip : Nat, skipped : Seq(Nat)]
    /\ lastSent \in 0..MaxPn /\ largestAcked \in 0..MaxPn
    /\ DOMAIN hist.packets \subseteq 1..MaxPn
    /\ hist \in [packets : [DOMAIN hist.packets -> Packet],
                 first : 0..MaxPn, num : Nat, numHS : Nat]
    /\ queue \in Seq([pn : 1..MaxPn, enc : Levels, data : (SUBSET Frames) \ {{}}])
    /\ cwnd \in Cwnds
    /\ tlpCount \in Nat /\ numRTOs \in Nat
    /\ allowTLP \in BOOLEAN /\ lossTime \in BOOLEAN /\ alarm \in BOOLEAN
    /\ hsComplete \in BOOLEAN /\ gotPacket \in BOOLEAN
    /\ err \in Errors
    /\ pending \subseteq Frames

\* The counters and the pointer that sentPacketHistory maintains by increments
\* agree with the list: numOutstandingPackets and
\* numOutstandingHandshakePackets never drift (their panics are unreachable)
\* and firstOutstanding is the oldest packet that can be retransmitted.
Consistent(h) ==
    LET out == Outstanding(h.packets)
    IN  /\ h.num = Cardinality(out)
        /\ h.numHS = Cardinality(Handshake(h.packets, out))
        /\ h.first = IF out = {} THEN None ELSE Min(out)
HistoryConsistent == Consistent(hist)

\* stopRetransmissionsFor never meets its "sent packet handler BUG" error: a
\* retransmission is never declared lost before the packet it replaces.
NoBug == err # "bug"

\* Reliability: frames that were sent and neither acknowledged nor given up
\* with the handshake are in an outstanding packet or waiting for
\* retransmission.  Splitting, probing, losing and acknowledging packets and
\* their retransmissions in any order never forgets a frame.
NothingForgotten ==
    \A f \in pending :
        \/ \E p \in Outstanding(hist.packets) : f \in hist.packets[p].data
        \/ \E i \in DOMAIN queue : f \in queue[i].data

\* bytesInFlight (unsigned in the code) never drops below the bytes of the
\* packets that are still in flight, so no subtraction wraps around.
InFlightCovered ==
    bytesInFlight \in Nat /\ bytesInFlight >= Bytes(hist.packets, DOMAIN hist.packets)

\* While a packet is outstanding the loss detection alarm is set: the session
\* always wakes up to recover it.
AlarmArmed == hist.num > 0 => alarm

\* "A packet can only be queued once": the queue has no packet twice, and no
\* queued packet is still outstanding (DequeueProbePacket would queue it again).
QueuedOnce ==
    /\ \A i, j \in DOMAIN queue : queue[i].pn = queue[j].pn => i = j
    /\ \A i \in DOMAIN queue : queue[i].pn \notin Outstanding(hist.packets)

\* The generator never skips two packet numbers in a row, and an ACK for a
\* skipped number is recognisable: no packet ever carries one.
SkippedUnused ==
    /\ \A i \in 1..Len(gen.skipped) - 1 : gen.skipped[i + 1] > gen.skipped[i] + 1
    /\ Range(gen.skipped) \cap DOMAIN hist.packets = {}

\* The bytes of a packet that leaves the history leave bytesInFlight with it:
\* "the bytes in flight need to be reduced no matter if this packet will be
\* retransmitted".  (SetHandshakeComplete does not do that.)
BytesInFlightExact == bytesInFlight = Bytes(hist.packets, DOMAIN hist.packets)

====
