--------------------------- MODULE ReceivedPackets ---------------------------
(***************************************************************************)
(* receivedPacketHandler and receivedPacketHistory: which packets were     *)
(* received, and when an ACK frame is sent for them.  The peer numbers its *)
(* packets, and confirms in them that it received our ACK frames; packets  *)
(* are lost, reordered and duplicated on the way.                          *)
(*                                                                         *)
(* Times are left out: the ack alarm is set or not, and may expire at any  *)
(* moment while it is set.  ACK frames are sets of packet numbers.         *)
(***************************************************************************)
EXTENDS Integers, Sequences, FiniteSets, FiniteSetsExt

CONSTANTS
    MaxRanges,          \* MaxTrackedReceivedAckRanges
    InitialBeforeAck,   \* initialRetransmittablePacketsBeforeAck
    BeforeAck,          \* retransmittablePacketsBeforeAck
    MinDecimation,      \* minReceivedBeforeAckDecimation
    MaxPn               \* bound: the packets the peer sends

ASSUME ReceivedAssumption ==
    /\ MaxRanges \in Nat \ {0} /\ MinDecimation \in Nat
    /\ InitialBeforeAck \in Nat \ {0} /\ BeforeAck \in Nat \ {0}
    /\ MaxPn \in Nat \ {0}

VARIABLES
    ranges,        \* receivedPacketHistory.ranges, in ascending order
    ignoreBelow,   \* and lowestInReceivedPacketNumbers
    lastAck,       \* the packet numbers of the last ACK frame, or {} for nil
    ackQueued,
    ackAlarm,
    count,         \* retransmittablePacketsReceivedSinceLastAck
    tooManyRanges, \* whether errTooManyOutstandingReceivedAckRanges was returned
    sent,          \* the peer's packets
    largests,      \* largestAcked of all ACK frames
    confirmed,     \* the largest of them that the peer received, plus one, or 0
    acked,         \* history: all packet numbers in ACK frames
    got            \* history: the peer's packets that were received

receivedVars == <<ranges, ignoreBelow, lastAck, ackQueued, ackAlarm, count,
                  tooManyRanges, sent, largests, confirmed, acked, got>>

Numbers(packets) == {p.pn : p \in packets}
PacketsIn(rs) == UNION {rs[i].start..rs[i].end : i \in DOMAIN rs}

-----------------------------------------------------------------------------
\* The operations of utils.PacketIntervalList, on the element at index i.
Remove(list, i) == SubSeq(list, 1, i - 1) \o SubSeq(list, i + 1, Len(list))
InsertAfter(list, v, i) ==
    SubSeq(list, 1, i) \o <<v>> \o SubSeq(list, i + 1, Len(list))

\* receivedPacketHistory.ReceivedPacket.  The loop from the back stops at the
\* last range that includes p, can be extended by it, or lies below it.
AddToRanges(p) ==
    LET below == {i \in DOMAIN ranges : ranges[i].start <= p + 1}
        i     == Max(below)
        el    == [start |-> IF ranges[i].start = p + 1 THEN p ELSE ranges[i].start,
                  end   |-> IF ranges[i].end = p - 1 THEN p ELSE ranges[i].end]
        extended == el # ranges[i]
    IN  IF below = {} THEN <<[start |-> p, end |-> p]>> \o ranges
        ELSE IF p \in ranges[i].start..ranges[i].end THEN ranges
        ELSE IF extended /\ i > 1 /\ ranges[i - 1].end + 1 = el.start
        THEN Remove([ranges EXCEPT ![i - 1].end = el.end], i)
        ELSE IF extended THEN [ranges EXCEPT ![i] = el]
        ELSE InsertAfter(ranges, [start |-> p, end |-> p], i)

\* What is left of the ranges from index first on.
Shortened(rs, first, p) ==
    [i \in 1..(Len(rs) - first + 1) |->
        [rs[first + i - 1] EXCEPT !.start = IF p > @ THEN p ELSE @]]

\* Mutant of DeleteBelow: off by one.
DeleteBelowToo(rs, p) ==
    Shortened(rs, Min({i \in DOMAIN rs : rs[i].end > p} \cup {Len(rs) + 1}), p)

\* receivedPacketHistory.DeleteBelow.  The loop from the front removes ranges up to
\* the first one that does not end below p.
DeleteBelow(rs, p) ==
    Shortened(rs, Min({i \in DOMAIN rs : rs[i].end >= p} \cup {Len(rs) + 1}), p)

\* isMissing
IsMissing(p) == lastAck # {} /\ p < Max(lastAck) /\ p \notin lastAck

Threshold(packet) ==
    IF packet.pn > MinDecimation THEN BeforeAck ELSE InitialBeforeAck

\* maybeQueueAck.  hasNewMissingPackets only moves an alarm that is set.
MaybeQueueAck(packet, wasMissing) ==
    LET counted == lastAck # {} /\ ~ackQueued /\ ~wasMissing /\ packet.elicits
    IN  /\ count' = IF counted THEN count + 1 ELSE count
        /\ ackQueued' = (ackQueued \/ lastAck = {} \/ wasMissing
                           \/ (counted /\ count' >= Threshold(packet)))
        /\ ackAlarm' = IF lastAck = {} THEN ackAlarm
                       ELSE ~ackQueued' /\ (ackAlarm \/ counted)

\* receivedPacketHandler.ReceivedPacket, then IgnoreBelow, which
\* session.handleAckFrame calls with what the frame confirms.
ReceivedPacket(packet) ==
    /\ ~tooManyRanges
    /\ got' = got \cup {packet}
    /\ LET ignored == packet.pn < ignoreBelow
           full    == Len(ranges) >= MaxRanges
           added   == IF ignored THEN ranges ELSE AddToRanges(packet.pn)
       IN  IF full /\ ~ignored
           THEN /\ tooManyRanges' = TRUE
                /\ UNCHANGED <<ranges, ignoreBelow, ackQueued, ackAlarm, count>>
           ELSE /\ IF ignored THEN UNCHANGED <<ackQueued, ackAlarm, count>>
                   ELSE MaybeQueueAck(packet, IsMissing(packet.pn))
                /\ ignoreBelow' = Max({ignoreBelow, packet.confirms})
                /\ ranges' = IF ignoreBelow' > ignoreBelow
                             THEN DeleteBelow(added, ignoreBelow') ELSE added
                /\ UNCHANGED tooManyRanges
    /\ UNCHANGED <<lastAck, sent, largests, confirmed, acked>>

\* Mutant of GetAckRanges: only the highest range.
HighestRange == ranges[Len(ranges)].start..ranges[Len(ranges)].end

GetAckRanges == PacketsIn(ranges)

\* GetAckFrame, when it does not return nil.
GetAckFrame ==
    /\ ~tooManyRanges
    /\ ackQueued \/ ackAlarm
    /\ lastAck' = GetAckRanges
    /\ acked' = acked \cup lastAck'
    /\ largests' = largests \cup {Max(lastAck')}
    /\ ackAlarm' = FALSE /\ ackQueued' = FALSE /\ count' = 0
    /\ UNCHANGED <<ranges, ignoreBelow, tooManyRanges, sent, confirmed, got>>

\* Mutant of LowestNotConfirmedAcked: off by one.
LowestNotConfirmedAckedLater(largest) == largest + 2

\* lowestPacketNotConfirmedAcked, once the peer confirms an ACK frame.
LowestNotConfirmedAcked(largest) == largest + 1

\* The peer receives an ACK frame.
PeerReceivesAck ==
    /\ ~tooManyRanges
    /\ \E largest \in largests :
          confirmed <= largest /\ confirmed' = LowestNotConfirmedAcked(largest)
    /\ UNCHANGED <<ranges, ignoreBelow, lastAck, ackQueued, ackAlarm, count,
                   tooManyRanges, sent, largests, acked, got>>

\* The peer sends a packet, with or without an ACK frame for the packets of ours
\* that it received.
PeerSends(elicits) ==
    /\ ~tooManyRanges
    /\ Cardinality(sent) < MaxPn
    /\ \E c \in {0, confirmed} :
          sent' = sent \cup {[pn |-> Cardinality(sent) + 1,
                              elicits |-> elicits, confirms |-> c]}
    /\ UNCHANGED <<ranges, ignoreBelow, lastAck, ackQueued, ackAlarm, count,
                   tooManyRanges, largests, confirmed, acked, got>>

-----------------------------------------------------------------------------
ReceivedInit ==
    /\ ranges = <<>> /\ ignoreBelow = 0
    /\ lastAck = {} /\ ackQueued = FALSE /\ ackAlarm = FALSE /\ count = 0
    /\ tooManyRanges = FALSE
    /\ sent = {} /\ largests = {} /\ confirmed = 0 /\ acked = {} /\ got = {}

ReceivedNext ==
    \/ \E packet \in sent : ReceivedPacket(packet)
    \/ GetAckFrame
    \/ PeerReceivesAck
    \/ \E elicits \in BOOLEAN : PeerSends(elicits)

ReceivedSpec == ReceivedInit /\ [][ReceivedNext]_receivedVars

-----------------------------------------------------------------------------
\* Type invariant.
ReceivedTypeOK ==
    /\ ranges \in Seq([start : 1..MaxPn, end : 1..MaxPn])
    /\ ignoreBelow \in 0..(MaxPn + 1)
    /\ lastAck \subseteq 1..MaxPn
    /\ ackQueued \in BOOLEAN /\ ackAlarm \in BOOLEAN /\ tooManyRanges \in BOOLEAN
    /\ count \in 0..Max({InitialBeforeAck, BeforeAck})
    /\ got \subseteq sent

\* The list of ranges is sorted, its ranges are not adjacent, and they hold
\* exactly the received packets that are not below the limit, whatever was
\* merged and deleted.
RangesExact ==
    /\ \A i \in DOMAIN ranges : ranges[i].start <= ranges[i].end
    /\ \A i \in 1..(Len(ranges) - 1) : ranges[i].end + 1 < ranges[i + 1].start
    /\ tooManyRanges \/ PacketsIn(ranges) = {pn \in Numbers(got) : pn >= ignoreBelow}

\* No ACK frame is without ranges, for which LargestAcked would panic: IgnoreBelow
\* never takes away the packet an ACK is due for without leaving another.
AckNotEmpty == ackQueued \/ ackAlarm => ranges # <<>>

\* An ack-eliciting packet that no ACK frame has acknowledged has one queued or
\* the ack alarm set, unless the packet is below the limit by now.
AckDue ==
    \A p \in got :
        p.elicits /\ p.pn >= ignoreBelow /\ ~tooManyRanges =>
            ackQueued \/ ackAlarm \/ p.pn \in acked

====
