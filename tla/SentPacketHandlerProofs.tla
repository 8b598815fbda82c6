---------------------- MODULE SentPacketHandlerProofs -----------------------
(***************************************************************************)
(* The safety of loss recovery for every value of the constants.           *)
(*                                                                         *)
(* What is proved is every invariant of SentPacketHandler.  All but one    *)
(* are proved together, as parts of one inductive invariant: that no frame *)
(* is forgotten needs the links between a packet and its retransmissions,  *)
(* the links need the order of packet numbers, and all of them need the    *)
(* pointer and the counters of the history to be right.  That              *)
(* bytesInFlight covers the packets in flight follows from that invariant  *)
(* and what is known of sums.                                              *)
(***************************************************************************)
EXTENDS SentHistoryProofs

-----------------------------------------------------------------------------
(* The actions that send *)

\* SentPacket: the new packet is outstanding and carries the new frames.
LEMMA SentPacketStep ==
    ASSUME IInv, NEW enc \in Levels, NEW len \in Lengths, NEW skip \in SkipOffsets,
           SentPacket(enc, len, skip)
    PROVE  IInv'
<1> DEFINE pn == gen.next
           D == DOMAIN hist.packets
           new == [p \in {pn} |-> [enc |-> enc, len |-> len, data |-> {pn} \X {1, 2},
                                   can |-> TRUE, rAs |-> {}, rOf |-> None]]
<1>1. /\ SentPacketImpl(hist, new, Pop(gen, skip))
      /\ pending' = pending \cup {pn} \X {1, 2}
      /\ UNCHANGED <<largestAcked, queue, cwnd, tlpCount, lossTime, hsComplete,
                     gotPacket, err>>
    BY Zenon DEF SentPacket
<1>2. /\ GenInv(gen) /\ HistInv(hist, gen.next) /\ QueueInv(queue, hist.packets, gen.next)
      /\ Unskipped(hist.packets, gen) /\ Unforgotten(pending, hist.packets, queue)
      /\ NoBug /\ Rest
    BY Zenon DEF IInv
<1>3. pn \in Nat \ {0} /\ \A p \in D : p < pn /\ p \in Nat
    BY <1>2, SMTT(30), Z3T(30) DEF GenInv, HistInv, HistType
<1>4. Sendable(hist, new, pn, pn)
    <2>1. ASSUME pn <= MaxPn
          PROVE  new \in [{pn, pn} -> Packet]
        <3>1. {pn} \X {1, 2} \in (SUBSET Frames) \ {{}}
            <4>1. pn \in 1..MaxPn
                BY <1>3, <2>1, ConstantsAssumption, SMTT(30), Z3T(30)
            <4>2. <<pn, 1>> \in {pn} \X {1, 2}
                BY ZenonT(30)
            <4>3. QED
                BY <4>1, <4>2, ZenonT(30) DEF Frames
        <3>2. 0 \in 0..MaxPn
            BY ConstantsAssumption, SMTT(60), Z3T(60)
        <3>3. QED
            BY <3>1, <3>2, ZenonT(30) DEF Packet, None
    <2>2. HistType(hist) /\ Consistent(hist)
        BY <1>2, Zenon DEF HistInv
    <2>3. DOMAIN new = {pn, pn} /\ \A p \in {pn, pn} : new[p].can
        BY ZenonT(30)
    <2> HIDE DEF new, pn
    <2>4. QED
        BY <1>3, <2>1, <2>2, <2>3, ZenonT(60) DEF Sendable
<1>5. /\ HistType(hist') /\ Consistent(hist') /\ hist' = AddPackets(hist, new)
      /\ lastSent' \in {pn, pn} /\ pn <= MaxPn
      /\ gen' = Pop(gen, skip) /\ numRTOs' \in Nat /\ allowTLP' = FALSE
      /\ alarm' \in BOOLEAN /\ AlarmArmed'
    <2>1. numRTOs \in Nat
        BY <1>2, ZenonT(30) DEF Rest
    <2> HIDE DEF new, pn
    <2>2. QED
        BY <1>1, <1>4, <2>1, SentPacketImplOK, ZenonT(60)
<1>6. /\ GenInv(gen') /\ gen'.next > pn
      /\ \A i \in DOMAIN gen'.skipped :
            \/ gen'.skipped[i] > pn
            \/ \E j \in DOMAIN gen.skipped : gen'.skipped[i] = gen.skipped[j]
    BY <1>2, <1>5, PopKeepsGen, SMTT(60), Z3T(60)
<1>7. /\ DOMAIN hist'.packets = D \cup {pn} /\ hist'.packets[pn] = new[pn]
      /\ \A p \in D : hist'.packets[p] = hist.packets[p]
    <2>1. hist'.packets = [p \in D \cup DOMAIN new |->
                             IF p \in DOMAIN new THEN new[p] ELSE hist.packets[p]]
        BY <1>5, ZenonT(60) DEF AddPackets
    <2>2. QED
        BY <1>3, <2>1, SMTT(30), Z3T(30)
<1>8. /\ hist'.packets[pn].rAs = {} /\ hist'.packets[pn].can
      /\ hist'.packets[pn].data = {pn} \X {1, 2}
    BY <1>7, SMTT(30), Z3T(30)
<1> HIDE DEF new
<1>9. HistInv(hist', gen'.next)
    <2>1. LinksOK(hist'.packets)
        BY <1>2, <1>7, <1>8, SMTT(60), Z3T(60) DEF HistInv, LinksOK
    <2>2. \A p \in DOMAIN hist'.packets : p < gen'.next
        BY <1>3, <1>6, <1>7, SMTT(60), Z3T(60) DEF GenInv
    <2>3. QED
        BY <1>5, <2>1, <2>2, ZenonT(60) DEF HistInv
<1>10. QueueInv(queue', hist'.packets, gen'.next)
    <2>1. pn \in Nat /\ gen'.next \in Nat /\ pn <= gen'.next /\ queue' = queue
        BY <1>1, <1>3, <1>6, SMTT(60), Z3T(60) DEF GenInv
    <2>2. \A p \in DOMAIN hist'.packets :
            \/ p \in Nat /\ p >= pn
            \/ /\ p \in D /\ hist'.packets[p].data = hist.packets[p].data
                          /\ hist'.packets[p].enc = hist.packets[p].enc
               /\ hist'.packets[p].can => hist.packets[p].can
        BY <1>3, <1>7, SMTT(30), Z3T(30)
    <2>3. QED
        BY <1>2, <2>1, <2>2, QueueOver, SMTT(60), Z3T(60)
<1>11. Unskipped(hist'.packets, gen')
    <2>1. \A p \in DOMAIN hist'.packets : p = pn \/ (p \in D /\ p \in Nat /\ p < pn)
        <3> HIDE DEF D, pn
        <3> QED
            BY <1>3, <1>7, ZenonT(30)
    <2>2. QED
        BY <1>2, <1>6, <2>1, StillUnskipped, ZenonT(60)
<1>12. Unforgotten(pending', hist'.packets, queue')
    <2>1. Outstanding(hist.packets) \subseteq Outstanding(hist'.packets)
          /\ pn \in Outstanding(hist'.packets)
        BY <1>7, <1>8, ZenonT(60) DEF Outstanding
    <2>2. \A p \in Outstanding(hist.packets) : hist'.packets[p] = hist.packets[p]
        BY <1>7, ZenonT(30) DEF Outstanding
    <2>3. QED
        BY <1>1, <1>2, <1>8, <2>1, <2>2, ZenonT(60) DEF Unforgotten
<1>13. AlarmArmed' /\ NoBug'
    BY <1>1, <1>2, <1>5, ZenonT(30) DEF NoBug
<1>14. Rest' /\ lastSent' < gen'.next
    <2>1. {pn} \X {1, 2} \subseteq Frames
        BY <1>3, <1>5, ConstantsAssumption, SMTT(60), Z3T(60) DEF Frames
    <2>2. lastSent' \in 0..MaxPn /\ lastSent' < gen'.next
        BY <1>3, <1>5, <1>6, ConstantsAssumption, SMTT(30), Z3T(30) DEF GenInv
    <2>3. QED
        <3>1. pending' \subseteq Frames
            BY <1>1, <1>2, <2>1, ZenonT(30) DEF Rest
        <3>2. alarm' \in BOOLEAN /\ allowTLP' \in BOOLEAN
            BY <1>5, ZenonT(60)
        <3>3. QED
            BY <1>1, <1>2, <1>5, <2>2, <3>1, <3>2, ZenonT(30) DEF Rest
<1>15. QED
    BY <1>6, <1>9, <1>10, <1>11, <1>12, <1>13, <1>14, ZenonT(60) DEF IInv

\* A packet without retransmittable frames only moves the generator.
LEMMA SentNonRetransmittableStep ==
    ASSUME IInv, NEW skip \in SkipOffsets, SentNonRetransmittable(skip)
    PROVE  IInv'
<1>1. /\ gen.next <= MaxPn /\ gen' = Pop(gen, skip) /\ lastSent' = gen.next
      /\ UNCHANGED <<largestAcked, hist, queue, cwnd, tlpCount,
                     allowTLP, numRTOs, lossTime, alarm, hsComplete, gotPacket,
                     err, pending>>
    BY ZenonT(30) DEF SentNonRetransmittable
<1>2. /\ GenInv(gen) /\ HistInv(hist, gen.next) /\ QueueInv(queue, hist.packets, gen.next)
      /\ Unskipped(hist.packets, gen) /\ Unforgotten(pending, hist.packets, queue)
      /\ AlarmArmed /\ NoBug /\ Rest
    BY ZenonT(30) DEF IInv
<1>3. /\ GenInv(gen') /\ gen'.next > gen.next
      /\ \A i \in DOMAIN gen'.skipped :
            \/ gen'.skipped[i] > gen.next
            \/ \E j \in DOMAIN gen.skipped : gen'.skipped[i] = gen.skipped[j]
    BY <1>1, <1>2, PopKeepsGen, SMTT(30), Z3T(30)
<1>4. /\ gen.next \in Nat /\ gen'.next \in Nat
      /\ \A p \in DOMAIN hist.packets : p < gen.next /\ p \in Nat
    BY <1>2, <1>3, SMTT(60), Z3T(60) DEF GenInv, HistInv, HistType
<1>5. HistInv(hist', gen'.next)
    BY <1>1, <1>2, <1>3, <1>4, SMTT(30), Z3T(30) DEF HistInv
<1>6. QueueInv(queue', hist'.packets, gen'.next)
    <2>1. gen.next <= gen'.next /\ queue' = queue /\ hist' = hist
        BY <1>1, <1>3, <1>4, SMTT(60), Z3T(60)
    <2>2. QED
        BY <1>2, <1>4, <2>1, QueueOver, ZenonT(60)
<1>7. Unskipped(hist'.packets, gen')
    <2>1. \A p \in DOMAIN hist'.packets :
            p = gen.next \/ (p \in DOMAIN hist.packets /\ p \in Nat /\ p < gen.next)
        BY <1>1, <1>4, ZenonT(30)
    <2>2. QED
        BY <1>2, <1>3, <2>1, StillUnskipped, ZenonT(30)
<1>8. Unforgotten(pending', hist'.packets, queue') /\ AlarmArmed' /\ NoBug'
    BY <1>1, <1>2, ZenonT(30) DEF Unforgotten, AlarmArmed, NoBug
<1>9. Rest' /\ lastSent' < gen'.next
    BY <1>1, <1>2, <1>3, <1>4, ConstantsAssumption, SMTT(30), Z3T(30) DEF Rest
<1>10. QED
    BY <1>3, <1>5, <1>6, <1>7, <1>8, <1>9, ZenonT(60) DEF IInv

\* What the two actions that retransmit a packet have in common: q is sent
\* again, after it was taken out of the queue or was marked in the history.
LEMMA AfterRetransmission ==
    ASSUME IInv, NEW skip \in SkipOffsets,
           NEW h, HistInv(h, gen.next), DOMAIN h.packets = DOMAIN hist.packets,
           NEW q \in QEntry, q.pn < gen.next,
           q.pn \in DOMAIN h.packets =>
             /\ q.data = h.packets[q.pn].data
             /\ q.enc = h.packets[q.pn].enc,
           SendRetransmission(h, q, skip),
           QueueInv(queue', h.packets, gen.next),
           Unforgotten(pending \ q.data, h.packets, queue'),
           UNCHANGED <<largestAcked, cwnd, tlpCount, lossTime, hsComplete, gotPacket,
                       err, pending>>
    PROVE  IInv'
<1>1. GenInv(gen) /\ Unskipped(hist.packets, gen) /\ NoBug /\ Rest
    BY ZenonT(60) DEF IInv
<1>2. Unskipped(h.packets, gen) /\ numRTOs \in Nat
    BY <1>1, ZenonT(30) DEF Unskipped, Rest
<1>3. /\ GenInv(gen') /\ gen'.next > gen.next /\ lastSent' < gen'.next
      /\ HistInv(hist', gen'.next) /\ Unskipped(hist'.packets, gen')
      /\ \A p \in DOMAIN hist'.packets \ DOMAIN h.packets : p >= gen.next
      /\ DOMAIN h.packets \subseteq DOMAIN hist'.packets
      /\ \A p \in DOMAIN h.packets :
            /\ hist'.packets[p].can = h.packets[p].can
            /\ hist'.packets[p].data = h.packets[p].data
            /\ hist'.packets[p].enc = h.packets[p].enc
      /\ \A f \in q.data : \E p \in Outstanding(hist'.packets) :
                               f \in hist'.packets[p].data
      /\ lastSent' \in 0..MaxPn /\ numRTOs' \in Nat /\ allowTLP' = FALSE
      /\ alarm' \in BOOLEAN /\ AlarmArmed'
    BY <1>1, <1>2, RetransmissionOK, ZenonT(60)
<1>4. QueueInv(queue', hist'.packets, gen'.next)
    <2>1. gen.next \in Nat /\ gen'.next \in Nat /\ gen.next <= gen'.next
        BY <1>1, <1>3, SMTT(60), Z3T(60) DEF GenInv
    <2>2. \A p \in DOMAIN hist'.packets : p \in Nat
        BY <1>3 DEF HistInv, HistType
    <2>3. \A p \in DOMAIN hist'.packets :
            \/ p \in Nat /\ p >= gen.next
            \/ /\ p \in DOMAIN h.packets
               /\ hist'.packets[p].data = h.packets[p].data
               /\ hist'.packets[p].enc = h.packets[p].enc
               /\ hist'.packets[p].can => h.packets[p].can
        BY <1>3, <2>2, ZenonT(60)
    <2>4. QED
        BY <2>1, <2>3, QueueOver, SMTT(60), Z3T(60)
<1>5. Unforgotten(pending', hist'.packets, queue')
    <2> SUFFICES ASSUME NEW f \in pending
                 PROVE  \/ \E p \in Outstanding(hist'.packets) : f \in hist'.packets[p].data
                        \/ \E i \in DOMAIN queue' : f \in queue'[i].data
        BY Zenon DEF Unforgotten
    <2>1. CASE f \in q.data
        BY <1>3, <2>1, ZenonT(60)
    <2>2. CASE f \notin q.data
        <3>1. \/ \E p \in Outstanding(h.packets) : f \in h.packets[p].data
              \/ \E i \in DOMAIN queue' : f \in queue'[i].data
            BY <2>2, ZenonT(60) DEF Unforgotten
        <3>2. \A p \in Outstanding(h.packets) :
                p \in Outstanding(hist'.packets) /\ hist'.packets[p].data = h.packets[p].data
            BY <1>3, ZenonT(60) DEF Outstanding
        <3>3. QED
            BY <3>1, <3>2, ZenonT(60)
    <2>3. QED
        BY <2>1, <2>2, ZenonT(60)
<1>6. NoBug' /\ Rest'
    <2>1. allowTLP' \in BOOLEAN
        BY <1>3, Zenon
    <2>2. QED
        BY <1>1, <1>3, <2>1, ZenonT(60) DEF NoBug, Rest
<1>7. QED
    BY <1>3, <1>4, <1>5, <1>6, ZenonT(60) DEF IInv

\* maybeSendRetransmission: the head of the queue is sent again or, an Initial
\* the server has answered, dropped.
LEMMA MaybeSendRetransmissionStep ==
    ASSUME IInv, NEW skip \in SkipOffsets, MaybeSendRetransmission(skip)
    PROVE  IInv'
<1>1. queue # <<>>
    BY ZenonT(30) DEF MaybeSendRetransmission, SendMode
<1>2. /\ queue' = Tail(queue)
      /\ UNCHANGED <<largestAcked, cwnd, tlpCount, lossTime, hsComplete, gotPacket, err>>
    BY ZenonT(30) DEF MaybeSendRetransmission
<1>3. /\ GenInv(gen) /\ HistInv(hist, gen.next) /\ QueueInv(queue, hist.packets, gen.next)
      /\ Unforgotten(pending, hist.packets, queue)
    BY ZenonT(30) DEF IInv
<1>4. /\ QueueInv(queue', hist.packets, gen.next)
      /\ Head(queue) \in QEntry /\ Head(queue).pn < gen.next
      /\ Head(queue).pn \in DOMAIN hist.packets =>
            /\ Head(queue).data = hist.packets[Head(queue).pn].data
            /\ Head(queue).enc = hist.packets[Head(queue).pn].enc
      /\ \A i \in DOMAIN queue : \/ queue[i] = Head(queue)
                                 \/ \E j \in DOMAIN queue' : queue'[j] = queue[i]
    BY <1>1, <1>2, <1>3, QueueTail, ZenonT(60)
<1>5. Unforgotten(pending \ Head(queue).data, hist.packets, queue')
    BY <1>3, <1>4, ZenonT(60) DEF Unforgotten
<1>6. CASE SkipInitial
    <2>1. /\ pending' = pending \ Head(queue).data
          /\ UNCHANGED <<gen, lastSent, hist, numRTOs, allowTLP, alarm>>
        BY <1>6, ZenonT(60) DEF MaybeSendRetransmission
    <2>2. Rest' /\ AlarmArmed' /\ NoBug' /\ lastSent' < gen'.next
        BY <1>2, <2>1, ZenonT(30) DEF IInv, Rest, AlarmArmed, NoBug
    <2>3. QED
        BY <1>2, <1>3, <1>4, <1>5, <2>1, <2>2, ZenonT(60) DEF IInv
<1>7. CASE ~SkipInitial
    <2>1. SendRetransmission(hist, Head(queue), skip) /\ UNCHANGED pending
        BY <1>7, ZenonT(30) DEF MaybeSendRetransmission
    <2>2. QED
        BY <1>2, <1>3, <1>4, <1>5, <2>1, AfterRetransmission, ZenonT(60)
<1>8. QED
    BY <1>6, <1>7, ZenonT(30)

\* sendProbePacket: what is probed with was queued, or is the oldest outstanding
\* packet, which the probe replaces.
LEMMA SendProbePacketStep ==
    ASSUME IInv, NEW skip \in SkipOffsets, SendProbePacket(skip)
    PROVE  IInv'
<1>1. UNCHANGED <<largestAcked, cwnd, tlpCount, lossTime, hsComplete, gotPacket,
                  pending>>
    BY ZenonT(30) DEF SendProbePacket
<1>2. /\ GenInv(gen) /\ HistInv(hist, gen.next) /\ QueueInv(queue, hist.packets, gen.next)
      /\ Unforgotten(pending, hist.packets, queue)
    BY Zenon DEF IInv
<1>3. CASE /\ queue # <<>>
           /\ SendRetransmission(hist, Head(queue), skip)
           /\ queue' = Tail(queue)
           /\ UNCHANGED err
    <2>1. /\ QueueInv(queue', hist.packets, gen.next)
          /\ Head(queue) \in QEntry /\ Head(queue).pn < gen.next
          /\ Head(queue).pn \in DOMAIN hist.packets =>
                /\ Head(queue).data = hist.packets[Head(queue).pn].data
                /\ Head(queue).enc = hist.packets[Head(queue).pn].enc
          /\ \A i \in DOMAIN queue : \/ queue[i] = Head(queue)
                                     \/ \E j \in DOMAIN queue' : queue'[j] = queue[i]
        BY <1>2, <1>3, QueueTail, ZenonT(60)
    <2>2. Unforgotten(pending \ Head(queue).data, hist.packets, queue')
        BY <1>2, <2>1, Zenon DEF Unforgotten
    <2>3. QED
        BY <1>1, <1>2, <1>3, <2>1, <2>2, AfterRetransmission, ZenonT(60)
<1>4. CASE /\ queue = <<>> /\ hist.first # None
           /\ SendRetransmission(MarkCannotBeRetransmitted(hist, {hist.first}),
                                 QueueEntry(hist.packets, hist.first), skip)
           /\ UNCHANGED <<queue, err>>
    <2> DEFINE h == MarkCannotBeRetransmitted(hist, {hist.first})
               q == QueueEntry(hist.packets, hist.first)
               pkts == hist.packets
    <2>1. HistType(hist) /\ Consistent(hist) /\ LinksOK(pkts)
        BY <1>2, ZenonT(30) DEF HistInv
    <2>2. /\ hist.first \in Outstanding(pkts) /\ hist.first \in DOMAIN pkts
          /\ hist.first < gen.next /\ hist.first \in 1..MaxPn
        <3>1. Outstanding(pkts) # {} /\ hist.first = Min(Outstanding(pkts))
            BY <1>4, <2>1, ZenonT(30) DEF Consistent
        <3>2. Outstanding(pkts) \in SUBSET Nat
            BY <2>1, SMTT(30), Z3T(30) DEF Outstanding, HistType
        <3>3. hist.first \in Outstanding(pkts)
            BY <3>1, <3>2, MinIsSmallest, ZenonT(30)
        <3>4. QED
            BY <1>2, <3>3, ZenonT(30) DEF Outstanding, HistInv, HistType
    <2>3. q \in QEntry /\ q.pn = hist.first /\ q.data = pkts[hist.first].data
                                            /\ q.enc = pkts[hist.first].enc
        <3>1. pkts[hist.first] \in Packet
            BY <2>1, <2>2, ZenonT(30) DEF HistType
        <3>2. QED
            BY <2>2, <3>1, ZenonT(30) DEF QueueEntry, QEntry, Packet
    <2>4. /\ HistType(h) /\ Consistent(h)
          /\ h.packets = [p \in DOMAIN pkts |->
                            [pkts[p] EXCEPT !.can = @ /\ p \notin {hist.first}]]
        BY <2>1, MarkKeepsHistory, SMTT(30), Z3T(30)
    <2> HIDE DEF h, q
    <2>5. /\ DOMAIN h.packets = DOMAIN pkts
          /\ \A p \in DOMAIN pkts : /\ h.packets[p].data = pkts[p].data
                                    /\ h.packets[p].enc = pkts[p].enc
                                    /\ h.packets[p].rAs = pkts[p].rAs
                                    /\ h.packets[p].rOf = pkts[p].rOf
                                    /\ h.packets[p].can = (pkts[p].can /\ p # hist.first)
        <3> SUFFICES ASSUME NEW p \in DOMAIN pkts
                     PROVE  /\ h.packets[p].data = pkts[p].data
                            /\ h.packets[p].enc = pkts[p].enc
                            /\ h.packets[p].rAs = pkts[p].rAs
                            /\ h.packets[p].rOf = pkts[p].rOf
                            /\ h.packets[p].can = (pkts[p].can /\ p # hist.first)
            BY <2>4, ZenonT(30)
        <3>1. pkts[p] \in Packet
            BY <2>1, ZenonT(30) DEF HistType
        <3>2. h.packets[p] = [pkts[p] EXCEPT !.can = @ /\ p \notin {hist.first}]
            BY <2>4, ZenonT(30)
        <3>3. QED
            BY <3>1, <3>2, ZenonT(30) DEF Packet
    <2>6. HistInv(h, gen.next)
        <3>1. LinksOK(pkts) /\ \A p \in DOMAIN pkts : p < gen.next
            BY <1>2, Zenon DEF HistInv
        <3>2. LinksOK(h.packets)
            <4> SUFFICES ASSUME NEW p \in DOMAIN h.packets, NEW r \in h.packets[p].rAs
                         PROVE  /\ r \in DOMAIN h.packets /\ r > p
                                /\ h.packets[r].rOf = p /\ h.packets[r].enc = h.packets[p].enc
                                /\ h.packets[r].data \subseteq h.packets[p].data
                BY Zenon DEF LinksOK
            <4>1. p \in DOMAIN pkts /\ r \in pkts[p].rAs
                BY <2>5, ZenonT(60)
            <4>2. /\ r \in DOMAIN pkts /\ r > p /\ pkts[r].rOf = p
                  /\ pkts[r].enc = pkts[p].enc /\ pkts[r].data \subseteq pkts[p].data
                BY <3>1, <4>1, ZenonT(60) DEF LinksOK
            <4>3. QED
                BY <2>5, <4>1, <4>2, ZenonT(30)
        <3>3. QED
            BY <2>4, <2>5, <3>1, <3>2, ZenonT(60) DEF HistInv
    <2>7. QueueInv(queue', h.packets, gen.next)
        <3>1. gen.next \in Nat /\ queue' = queue
            BY <1>2, <1>4, ZenonT(30) DEF GenInv
        <3>2. \A p \in DOMAIN h.packets : /\ p \in DOMAIN pkts
                                          /\ h.packets[p].data = pkts[p].data
                                          /\ h.packets[p].enc = pkts[p].enc
                                          /\ h.packets[p].can => pkts[p].can
            BY <2>5, Zenon
        <3> HIDE DEF pkts
        <3>3. QueueInv(queue, pkts, gen.next) /\ gen.next <= gen.next
            BY <1>2, <3>1, SMTT(30), Z3T(30) DEF pkts
        <3>4. QueueInv(queue, h.packets, gen.next)
            BY <3>1, <3>2, <3>3, QueueOver, ZenonT(60)
        <3>5. QED
            BY <3>1, <3>4, ZenonT(30)
    <2>8. Unforgotten(pending \ q.data, h.packets, queue')
        <3> SUFFICES ASSUME NEW f \in pending, f \notin q.data
                     PROVE  \E p \in Outstanding(h.packets) : f \in h.packets[p].data
            BY ZenonT(30) DEF Unforgotten
        <3>1. PICK p \in Outstanding(pkts) : f \in pkts[p].data
            BY <1>2, <1>4, SMTT(30), Z3T(30) DEF Unforgotten
        <3>2. p # hist.first
            BY <2>3, <3>1, ZenonT(30)
        <3>3. p \in Outstanding(h.packets) /\ f \in h.packets[p].data
            BY <2>5, <3>1, <3>2, ZenonT(60) DEF Outstanding
        <3>4. QED
            BY <3>3, ZenonT(30)
    <2>9. SendRetransmission(h, q, skip)
        BY <1>4, ZenonT(30) DEF h, q
    <2>10. QED
        BY <1>1, <1>4, <2>2, <2>3, <2>5, <2>6, <2>7, <2>8, <2>9, AfterRetransmission, ZenonT(60)
<1>5. CASE /\ err' = "noprobe"
           /\ UNCHANGED <<gen, lastSent, hist, queue, bytesInFlight, numRTOs,
                          allowTLP, alarm>>
    <2>1. /\ GenInv(gen') /\ lastSent' < gen'.next
          /\ HistInv(hist', gen'.next) /\ QueueInv(queue', hist'.packets, gen'.next)
          /\ Unskipped(hist'.packets, gen')
          /\ Unforgotten(pending', hist'.packets, queue')
        BY <1>1, <1>5, ZenonT(30) DEF IInv
    <2>2. AlarmArmed' /\ NoBug'
        BY <1>5, ZenonT(30) DEF IInv, AlarmArmed, NoBug
    <2>3. Rest'
        BY <1>1, <1>5, ZenonT(30) DEF IInv, Rest, Errors
    <2>4. QED
        BY <2>1, <2>2, <2>3, ZenonT(30) DEF IInv
<1>6. QED
    BY <1>3, <1>4, <1>5, ZenonT(30) DEF SendProbePacket

-----------------------------------------------------------------------------
(* The actions that are about packets sent earlier: acknowledgements, the *)
(* alarm, and the end of the handshake                                    *)

\* A history is still one when packets go that no packet which stays links to.
LEMMA RemoveKeepsLinks ==
    ASSUME NEW n, NEW h, HistInv(h, n), NEW ps,
           \A p \in DOMAIN h.packets \ ps : h.packets[p].rAs \cap ps = {}
    PROVE  LET new == RemovePackets(h, ps)
           IN  /\ HistInv(new, n)
               /\ DOMAIN new.packets = DOMAIN h.packets \ ps
               /\ \A p \in DOMAIN new.packets : new.packets[p] = h.packets[p]
<1> DEFINE new == RemovePackets(h, ps)
<1>1. /\ HistType(new) /\ Consistent(new)
      /\ new.packets = [p \in DOMAIN h.packets \ ps |-> h.packets[p]]
    BY RemoveKeepsHistory, ZenonT(30) DEF HistInv
<1> HIDE DEF new
<1>2. /\ DOMAIN new.packets = DOMAIN h.packets \ ps
      /\ \A p \in DOMAIN new.packets : new.packets[p] = h.packets[p]
    BY <1>1, ZenonT(30)
<1>3. LinksOK(new.packets)
    BY <1>2, SMTT(60), Z3T(60) DEF LinksOK, HistInv
<1>4. HistInv(new, n)
    BY <1>1, <1>2, <1>3, ZenonT(60) DEF HistInv
<1>5. QED
    BY <1>2, <1>4, ZenonT(30) DEF new

\* detectLostPackets keeps the history, the queue and every frame of fs: lost
\* are the oldest packets, and what they carried is queued unless it is
\* outstanding elsewhere.
LEMMA DetectKeeps ==
    ASSUME NEW n \in Nat, NEW h, HistInv(h, n), NEW largest \in Nat, NEW inFlight,
           QueueInv(queue, h.packets, n),
           NEW fs, Unforgotten(fs, h.packets, queue),
           DetectLostPackets(h, largest, inFlight)
    PROVE  /\ HistInv(hist', n) /\ QueueInv(queue', hist'.packets, n)
           /\ Unforgotten(fs, hist'.packets, queue')
           /\ lossTime' \in BOOLEAN
           /\ DOMAIN hist'.packets \subseteq DOMAIN h.packets
<1> DEFINE pkts == h.packets
           candidates == {p \in DOMAIN pkts : p <= largest}
<1>1. PICK cut \in {0} \cup DOMAIN pkts :
        LET lost == Lost(candidates, cut)
            again == lost \cap Outstanding(pkts)
        IN  /\ cut <= largest
            /\ lossTime' = (candidates # lost)
            /\ hist' = RemovePackets(h, lost)
            /\ \E s \in Queued(pkts, again) : queue' = queue \o s
    BY ZenonT(60) DEF DetectLostPackets
<1> DEFINE lost == Lost(candidates, cut)
           again == lost \cap Outstanding(pkts)
<1>2. PICK s \in Queued(pkts, again) : queue' = queue \o s
    BY <1>1, Zenon
<1>3. /\ HistType(h) /\ LinksOK(pkts) /\ \A p \in DOMAIN pkts : p < n
      /\ DOMAIN pkts \subseteq 1..MaxPn /\ pkts \in [DOMAIN pkts -> Packet]
    BY ZenonT(30) DEF HistInv, HistType
<1>4. \A p \in DOMAIN pkts : p \in lost <=> p <= cut
    BY <1>1, <1>3, SMTT(60), Z3T(60) DEF Lost
<1>5. \A p \in DOMAIN pkts \ lost : pkts[p].rAs \cap lost = {}
    BY <1>1, <1>3, <1>4, SMTT(60), Z3T(60) DEF LinksOK
<1>6. lossTime' \in BOOLEAN /\ hist' = RemovePackets(h, lost)
    BY <1>1, ZenonT(60)
<1> HIDE DEF candidates, lost, again, pkts
<1>7. /\ HistInv(hist', n)
      /\ DOMAIN hist'.packets = DOMAIN pkts \ lost
      /\ \A p \in DOMAIN hist'.packets : hist'.packets[p] = pkts[p]
    BY <1>5, <1>6, RemoveKeepsLinks, SMTT(60), Z3T(60) DEF pkts
<1>8. /\ QueueInv(queue', hist'.packets, n)
      /\ \A i \in DOMAIN queue : \E j \in DOMAIN queue' : queue'[j] = queue[i]
      /\ \A p \in again : \E j \in DOMAIN queue' : queue'[j].data = pkts[p].data
    <2>1. again \in SUBSET Outstanding(pkts)
        BY ZenonT(30) DEF again
    <2>2. /\ DOMAIN hist'.packets \subseteq DOMAIN pkts
          /\ \A p \in DOMAIN hist'.packets :
                /\ hist'.packets[p].data = pkts[p].data
                /\ hist'.packets[p].enc = pkts[p].enc
                /\ hist'.packets[p].can => pkts[p].can /\ p \notin again
        BY <1>7, ZenonT(30) DEF again
    <2>3. QueueInv(queue, pkts, n)
        BY ZenonT(30) DEF pkts
    <2> DEFINE after == hist'.packets
    <2> HIDE DEF after
    <2>4. /\ DOMAIN after \subseteq DOMAIN pkts
          /\ \A p \in DOMAIN after : /\ after[p].data = pkts[p].data
                                     /\ after[p].enc = pkts[p].enc
                                     /\ after[p].can => pkts[p].can /\ p \notin again
        BY <2>2, ZenonT(30) DEF after
    <2>5. /\ QueueInv(queue \o s, after, n)
          /\ \A i \in DOMAIN queue :
                \E j \in DOMAIN (queue \o s) : (queue \o s)[j] = queue[i]
          /\ \A p \in again :
                \E j \in DOMAIN (queue \o s) : (queue \o s)[j].data = pkts[p].data
        BY <1>3, <2>1, <2>3, <2>4, QueueMore, SMTT(30), Z3T(30)
    <2>6. QED
        BY <1>2, <2>5, ZenonT(30) DEF after
<1>9. Unforgotten(fs, hist'.packets, queue')
    <2> SUFFICES ASSUME NEW f \in fs
                 PROVE  \/ \E p \in Outstanding(hist'.packets) : f \in hist'.packets[p].data
                        \/ \E i \in DOMAIN queue' : f \in queue'[i].data
        BY ZenonT(60) DEF Unforgotten
    <2>1. CASE \E i \in DOMAIN queue : f \in queue[i].data
        BY <1>8, <2>1, ZenonT(60)
    <2>2. CASE \E p \in Outstanding(pkts) : f \in pkts[p].data
        <3>1. PICK p \in Outstanding(pkts) : f \in pkts[p].data
            BY <2>2, ZenonT(30)
        <3>2. CASE p \in lost
            BY <1>8, <3>1, <3>2, ZenonT(30) DEF again
        <3>3. CASE p \notin lost
            BY <1>7, <3>1, <3>3, ZenonT(30) DEF Outstanding
        <3>4. QED
            BY <3>2, <3>3, ZenonT(30)
    <2>3. QED
        BY <2>1, <2>2, ZenonT(60) DEF Unforgotten, pkts
<1>10. QED
    BY <1>6, <1>7, <1>8, <1>9, ZenonT(60) DEF pkts

\* OnAlarm, whatever the alarm was set for.
LEMMA OnAlarmStep ==
    ASSUME IInv, OnAlarm
    PROVE  IInv'
<1> DEFINE pkts == hist.packets
           again == Handshake(pkts, Outstanding(pkts))
<1>1. /\ UNCHANGED <<gen, lastSent, largestAcked, hsComplete, gotPacket, err, pending>>
      /\ alarm' = UpdateLossDetectionAlarm(hist'.num)
    BY ZenonT(30) DEF OnAlarm
<1>2. /\ GenInv(gen) /\ gen.next \in Nat /\ lastSent < gen.next
      /\ HistInv(hist, gen.next) /\ QueueInv(queue, pkts, gen.next)
      /\ Unskipped(pkts, gen) /\ Unforgotten(pending, pkts, queue) /\ NoBug /\ Rest
    BY ZenonT(60) DEF IInv, GenInv
<1>3. /\ HistInv(hist', gen.next) /\ QueueInv(queue', hist'.packets, gen.next)
      /\ Unforgotten(pending, hist'.packets, queue')
      /\ lossTime' \in BOOLEAN
      /\ DOMAIN hist'.packets \subseteq DOMAIN pkts
    <2>1. CASE UNCHANGED <<hist, queue, lossTime>>
        BY <1>2, <2>1, ZenonT(30) DEF Rest
    <2>2. CASE /\ hist' = MarkCannotBeRetransmitted(hist, again)
               /\ \E s \in Queued(pkts, again) : queue' = queue \o s
               /\ UNCHANGED lossTime
        <3>1. HistType(hist) /\ Consistent(hist) /\ LinksOK(pkts)
            BY <1>2, ZenonT(60) DEF HistInv
        <3>2. /\ HistType(hist') /\ Consistent(hist')
              /\ hist'.packets = [p \in DOMAIN pkts |->
                                    [pkts[p] EXCEPT !.can = @ /\ p \notin again]]
            BY <2>2, <3>1, MarkKeepsHistory, SMTT(30), Z3T(30)
        <3>3. /\ DOMAIN pkts \subseteq 1..MaxPn /\ pkts \in [DOMAIN pkts -> Packet]
              /\ \A p \in DOMAIN pkts : p < gen.next
            BY <1>2, <3>1, ZenonT(30) DEF HistInv, HistType
        <3>4. again \in SUBSET Outstanding(pkts)
            BY ZenonT(30) DEF Handshake
        <3> HIDE DEF again, pkts
        <3>5. /\ DOMAIN hist'.packets = DOMAIN pkts
              /\ \A p \in DOMAIN pkts :
                    /\ hist'.packets[p].data = pkts[p].data
                    /\ hist'.packets[p].enc = pkts[p].enc
                    /\ hist'.packets[p].rAs = pkts[p].rAs
                    /\ hist'.packets[p].rOf = pkts[p].rOf
                    /\ hist'.packets[p].can = (pkts[p].can /\ p \notin again)
            <4> SUFFICES ASSUME NEW p \in DOMAIN pkts
                         PROVE  /\ hist'.packets[p].data = pkts[p].data
                                /\ hist'.packets[p].enc = pkts[p].enc
                                /\ hist'.packets[p].rAs = pkts[p].rAs
                                /\ hist'.packets[p].rOf = pkts[p].rOf
                                /\ hist'.packets[p].can = (pkts[p].can /\ p \notin again)
                BY <3>2, ZenonT(30)
            <4>1. pkts[p] \in Packet
                BY <3>3, ZenonT(30)
            <4>2. hist'.packets[p] = [pkts[p] EXCEPT !.can = @ /\ p \notin again]
                BY <3>2, ZenonT(30)
            <4>3. QED
                BY <4>1, <4>2, ZenonT(30) DEF Packet
        <3>6. HistInv(hist', gen.next)
            <4>1. LinksOK(hist'.packets)
                <5>1. SUFFICES ASSUME NEW p \in DOMAIN pkts, NEW r \in pkts[p].rAs
                               PROVE  /\ r \in DOMAIN pkts /\ r > p
                                      /\ hist'.packets[r].rOf = p
                                      /\ hist'.packets[r].enc = hist'.packets[p].enc
                                      /\ hist'.packets[r].data \subseteq hist'.packets[p].data
                    BY <3>5, ZenonT(60) DEF LinksOK
                <5>2. /\ r \in DOMAIN pkts /\ r > p /\ pkts[r].rOf = p
                      /\ pkts[r].enc = pkts[p].enc /\ pkts[r].data \subseteq pkts[p].data
                    BY <3>1, Zenon DEF LinksOK
                <5>3. QED
                    BY <3>5, <5>2, Zenon
            <4>2. \A p \in DOMAIN hist'.packets : p < gen.next
                BY <3>3, <3>5, Zenon
            <4>3. QED
                BY <3>2, <4>1, <4>2, ZenonT(60) DEF HistInv
        <3>7. PICK s \in Queued(pkts, again) : queue' = queue \o s
            BY <2>2, ZenonT(30)
        <3>8. \A p \in DOMAIN hist'.packets :
                /\ hist'.packets[p].data = pkts[p].data
                /\ hist'.packets[p].enc = pkts[p].enc
                /\ hist'.packets[p].can => pkts[p].can /\ p \notin again
            BY <3>5, Zenon
        <3>9. /\ QueueInv(queue', hist'.packets, gen.next)
              /\ \A i \in DOMAIN queue : \E j \in DOMAIN queue' : queue'[j] = queue[i]
              /\ \A p \in again : \E j \in DOMAIN queue' : queue'[j].data = pkts[p].data
            <4> DEFINE after == hist'.packets
            <4>1. DOMAIN after \subseteq DOMAIN pkts
                BY <3>5, ZenonT(30)
            <4>2. QueueInv(queue, pkts, gen.next)
                BY <1>2, ZenonT(30) DEF pkts
            <4> HIDE DEF after
            <4>3. \A p \in DOMAIN after : /\ after[p].data = pkts[p].data
                                          /\ after[p].enc = pkts[p].enc
                                          /\ after[p].can => pkts[p].can /\ p \notin again
                BY <3>8, ZenonT(30) DEF after
            <4>4. /\ QueueInv(queue \o s, after, gen.next)
                  /\ \A i \in DOMAIN queue :
                        \E j \in DOMAIN (queue \o s) : (queue \o s)[j] = queue[i]
                  /\ \A p \in again :
                        \E j \in DOMAIN (queue \o s) : (queue \o s)[j].data = pkts[p].data
                BY <1>2, <3>3, <3>4, <4>1, <4>2, <4>3, QueueMore, SMTT(30), Z3T(30)
            <4>5. QED
                BY <3>7, <4>4, ZenonT(30) DEF after
        <3>10. Unforgotten(pending, hist'.packets, queue')
            <4> SUFFICES ASSUME NEW f \in pending
                         PROVE  \/ \E p \in Outstanding(hist'.packets) :
                                      f \in hist'.packets[p].data
                                \/ \E i \in DOMAIN queue' : f \in queue'[i].data
                BY ZenonT(30) DEF Unforgotten
            <4>1. CASE \E i \in DOMAIN queue : f \in queue[i].data
                BY <3>9, <4>1, ZenonT(30)
            <4>2. CASE \E p \in Outstanding(pkts) : f \in pkts[p].data
                BY <3>5, <3>9, <4>2, ZenonT(60) DEF Outstanding
            <4>3. QED
                BY <1>2, <4>1, <4>2, ZenonT(60) DEF Unforgotten
        <3>11. QED
            BY <1>2, <2>2, <3>5, <3>6, <3>9, <3>10, ZenonT(60) DEF Rest
    <2>3. CASE DetectLostPackets(hist, largestAcked, bytesInFlight)
        <3>1. largestAcked \in Nat
            BY <1>2, ConstantsAssumption, SMTT(30), Z3T(30) DEF Rest
        <3>2. QED
            BY <1>2, <2>3, <3>1, DetectKeeps, ZenonT(30)
    <2>4. QED
        BY <2>1, <2>2, <2>3, ZenonT(30) DEF OnAlarm
<1>4. /\ cwnd' \in Cwnds /\ tlpCount' \in Nat /\ numRTOs' \in Nat /\ allowTLP' \in BOOLEAN
    <2>1. /\ cwnd \in Cwnds /\ tlpCount \in Nat /\ numRTOs \in Nat
          /\ allowTLP \in BOOLEAN
        BY <1>2, ZenonT(30) DEF Rest
    <2>2. /\ cwnd' = cwnd \/ cwnd' \in Cwnds
          /\ tlpCount' = tlpCount \/ tlpCount' = tlpCount + 1
          /\ numRTOs' = numRTOs \/ numRTOs' = numRTOs + 2
          /\ allowTLP' = allowTLP \/ allowTLP' = TRUE
        BY ZenonT(30) DEF OnAlarm
    <2>3. allowTLP' \in BOOLEAN
        BY <2>1, <2>2, ZenonT(60)
    <2>4. tlpCount' \in Nat /\ numRTOs' \in Nat
        BY <2>1, <2>2, SMTT(30), Z3T(30)
    <2>5. QED
        BY <2>1, <2>2, <2>3, <2>4, ZenonT(30)
<1>5. alarm' \in BOOLEAN /\ AlarmArmed'
    BY <1>1, <1>3, AlarmSet, ZenonT(60) DEF HistInv
<1>6. Unskipped(hist'.packets, gen)
    BY <1>2, <1>3, ZenonT(30) DEF Unskipped
<1>7. NoBug' /\ Rest'
    BY <1>1, <1>2, <1>3, <1>4, <1>5, ZenonT(30) DEF NoBug, Rest
<1>8. QED
    BY <1>1, <1>2, <1>3, <1>5, <1>6, <1>7, ZenonT(30) DEF IInv

\* The first packet of the server changes nothing here but gotPacket.
LEMMA ReceivedPacketStep ==
    ASSUME IInv, ReceivedPacket
    PROVE  IInv'
<1>1. /\ GenInv(gen') /\ lastSent' < gen'.next
      /\ HistInv(hist', gen'.next) /\ QueueInv(queue', hist'.packets, gen'.next)
      /\ Unskipped(hist'.packets, gen')
      /\ Unforgotten(pending', hist'.packets, queue')
    BY ZenonT(30) DEF IInv, ReceivedPacket
<1>2. AlarmArmed' /\ NoBug' /\ Rest'
    BY ZenonT(30) DEF IInv, ReceivedPacket, AlarmArmed, NoBug, Rest
<1>3. QED
    BY <1>1, <1>2, ZenonT(30) DEF IInv

\* What stopRetransmissionsFor reaches carries only frames of the packets it
\* started from: a retransmission never carries more than its original.
LEMMA StopReaches ==
    ASSUME NEW pkts, LinksOK(pkts), NEW ps \in SUBSET DOMAIN pkts
    PROVE  LET stop == StopRetransmissionsFor(pkts, ps)
           IN  \A p \in stop : pkts[p].data \subseteq UNION {pkts[q].data : q \in ps}
<1> DEFINE acked == UNION {pkts[q].data : q \in ps}
           closed == {p \in DOMAIN pkts : pkts[p].data \subseteq acked}
<1>1. closed \in SUBSET DOMAIN pkts /\ ps \subseteq closed
    BY ZenonT(30)
<1>2. \A q \in closed : pkts[q].rAs \cap DOMAIN pkts \subseteq closed
    BY ZenonT(30) DEF LinksOK
<1>3. \A p \in StopRetransmissionsFor(pkts, ps) : p \in closed
    <2> HIDE DEF closed
    <2> QED
        BY <1>1, <1>2, ZenonT(30) DEF StopRetransmissionsFor
<1>4. QED
    BY <1>3, ZenonT(30)

\* The history after an acknowledgement of the packets of newly.
LEMMA AckKeepsHistory ==
    ASSUME NEW n, NEW h, HistInv(h, n), NEW newly \in SUBSET DOMAIN h.packets
    PROVE  LET new == OnPacketsAcked(h, newly)
               pkts == h.packets
               stop == StopRetransmissionsFor(pkts, newly)
           IN  /\ HistInv(new, n)
               /\ DOMAIN new.packets = DOMAIN pkts \ newly
               /\ \A p \in DOMAIN new.packets :
                     /\ new.packets[p].data = pkts[p].data
                     /\ new.packets[p].enc = pkts[p].enc
                     /\ new.packets[p].can = (pkts[p].can /\ p \notin stop)
<1> DEFINE pkts == h.packets
           stop == StopRetransmissionsFor(pkts, newly)
           stopped == MarkCannotBeRetransmitted(h, stop)
           links == [p \in DOMAIN pkts |->
                       [stopped.packets[p] EXCEPT
                          !.rAs = @ \ {r \in newly : pkts[r].rOf = p}]]
           unlinked == [stopped EXCEPT !.packets = links]
           new == RemovePackets(unlinked, newly)
<1>1. /\ HistType(h) /\ Consistent(h) /\ LinksOK(pkts)
      /\ \A p \in DOMAIN pkts : p < n
      /\ \A p \in DOMAIN pkts : pkts[p] \in Packet
    BY ZenonT(30) DEF HistInv, HistType
<1>2. /\ HistType(stopped) /\ Consistent(stopped)
      /\ stopped.packets = [p \in DOMAIN pkts |->
                              [pkts[p] EXCEPT !.can = @ /\ p \notin stop]]
    BY <1>1, MarkKeepsHistory, SMTT(60), Z3T(60)
<1> HIDE DEF stopped, stop, pkts
<1>3. /\ DOMAIN stopped.packets = DOMAIN pkts
      /\ \A p \in DOMAIN pkts :
            /\ stopped.packets[p] \in Packet
            /\ stopped.packets[p].data = pkts[p].data
            /\ stopped.packets[p].enc = pkts[p].enc
            /\ stopped.packets[p].rAs = pkts[p].rAs
            /\ stopped.packets[p].rOf = pkts[p].rOf
            /\ stopped.packets[p].can = (pkts[p].can /\ p \notin stop)
    <2>1. \A p \in DOMAIN pkts :
            /\ stopped.packets[p] = [pkts[p] EXCEPT !.can = @ /\ p \notin stop]
            /\ pkts[p] \in Packet
        BY <1>1, <1>2, ZenonT(30) DEF pkts
    <2>2. DOMAIN stopped.packets = DOMAIN pkts
        BY <1>2, ZenonT(30)
    <2>3. \A p \in DOMAIN pkts : stopped.packets[p] \in Packet
        BY <1>2, <2>2, ZenonT(30) DEF HistType
    <2>4. ASSUME NEW p \in DOMAIN pkts
          PROVE  /\ stopped.packets[p].data = pkts[p].data
                 /\ stopped.packets[p].enc = pkts[p].enc
                 /\ stopped.packets[p].rAs = pkts[p].rAs
                 /\ stopped.packets[p].rOf = pkts[p].rOf
                 /\ stopped.packets[p].can = (pkts[p].can /\ p \notin stop)
        <3>1. /\ stopped.packets[p] = [pkts[p] EXCEPT !.can = @ /\ p \notin stop]
              /\ pkts[p] \in Packet
            BY <2>1, ZenonT(30)
        <3>2. QED
            BY <3>1, ZenonT(30) DEF Packet
    <2>5. QED
        BY <2>2, <2>3, <2>4, ZenonT(30)
<1>4. \A p \in DOMAIN pkts :
        /\ links[p] \in Packet
        /\ links[p].enc = stopped.packets[p].enc
        /\ links[p].data = pkts[p].data /\ links[p].enc = pkts[p].enc
        /\ links[p].rOf = pkts[p].rOf
        /\ links[p].can = stopped.packets[p].can
        /\ links[p].rAs = pkts[p].rAs \ {r \in newly : pkts[r].rOf = p}
    <2> SUFFICES ASSUME NEW p \in DOMAIN pkts
                 PROVE  /\ links[p] \in Packet
                        /\ links[p].enc = stopped.packets[p].enc
                        /\ links[p].data = pkts[p].data /\ links[p].enc = pkts[p].enc
                        /\ links[p].rOf = pkts[p].rOf
                        /\ links[p].can = stopped.packets[p].can
                        /\ links[p].rAs = pkts[p].rAs \ {r \in newly : pkts[r].rOf = p}
        BY ZenonT(30)
    <2> DEFINE gone == {r \in newly : pkts[r].rOf = p}
    <2>1. links[p] = [stopped.packets[p] EXCEPT !.rAs = @ \ gone]
        BY ZenonT(30)
    <2> HIDE DEF links, gone
    <2>2. /\ links[p] \in Packet
          /\ links[p].enc = stopped.packets[p].enc
          /\ links[p].data = stopped.packets[p].data
          /\ links[p].enc = stopped.packets[p].enc
          /\ links[p].rOf = stopped.packets[p].rOf
          /\ links[p].can = stopped.packets[p].can
          /\ links[p].rAs = stopped.packets[p].rAs \ gone
        BY <1>3, <2>1, SMTT(30), Z3T(30) DEF Packet
    <2>3. QED
        BY <1>3, <2>2, ZenonT(30) DEF gone
<1>5. links \in [DOMAIN stopped.packets -> Packet] /\ DOMAIN links = DOMAIN pkts
    BY <1>3, <1>4, ZenonT(30)
<1> HIDE DEF links
<1>6. HistType(unlinked) /\ Consistent(unlinked) /\ unlinked.packets = links
    <2>1. \A p \in DOMAIN stopped.packets : /\ links[p].enc = stopped.packets[p].enc
                                            /\ links[p].can = stopped.packets[p].can
        BY <1>3, <1>4, Zenon
    <2>2. QED
        BY <1>2, <1>5, <2>1, RelinkKeepsHistory, ZenonT(60)
<1> HIDE DEF unlinked
<1>7. HistInv(unlinked, n)
    <2>1. LinksOK(links)
        BY <1>1, <1>4, <1>5, SMTT(60), Z3T(60) DEF LinksOK, pkts
    <2>2. \A p \in DOMAIN links : p < n
        BY <1>1, <1>5, ZenonT(30) DEF pkts
    <2>3. QED
        BY <1>6, <2>1, <2>2, ZenonT(30) DEF HistInv
<1>8. \A p \in DOMAIN unlinked.packets \ newly : unlinked.packets[p].rAs \cap newly = {}
    BY <1>1, <1>4, <1>5, <1>6, SMTT(30), Z3T(30) DEF LinksOK, pkts
<1>9. /\ HistInv(new, n)
      /\ DOMAIN new.packets = DOMAIN unlinked.packets \ newly
      /\ \A p \in DOMAIN new.packets : new.packets[p] = unlinked.packets[p]
    BY <1>7, <1>8, RemoveKeepsLinks, SMTT(30), Z3T(30)
<1>10. new = OnPacketsAcked(h, newly)
    BY ZenonT(30) DEF OnPacketsAcked, stopped, links, unlinked, stop, pkts
<1> HIDE DEF new
<1>11. /\ DOMAIN new.packets = DOMAIN pkts \ newly
       /\ \A p \in DOMAIN new.packets :
             /\ new.packets[p].data = pkts[p].data /\ new.packets[p].enc = pkts[p].enc
             /\ new.packets[p].can = (pkts[p].can /\ p \notin stop)
    BY <1>3, <1>4, <1>5, <1>6, <1>9, SMTT(60), Z3T(60)
<1>12. QED
    BY <1>9, <1>10, <1>11, ZenonT(30) DEF pkts, stop

\* ReceivedAck: what stops being outstanding carries only acknowledged frames.
LEMMA ReceivedAckStep ==
    ASSUME IInv, NEW ack \in (SUBSET (1..lastSent + 1)) \ {{}}, ReceivedAck(ack)
    PROVE  IInv'
<1> DEFINE pkts == hist.packets
           newly == ack \cap DOMAIN pkts
           largest == Max({largestAcked, Max(ack)})
           fs == pending \ UNION {pkts[p].data : p \in newly}
<1>1. /\ GenInv(gen) /\ gen.next \in Nat /\ lastSent < gen.next
      /\ HistInv(hist, gen.next) /\ QueueInv(queue, pkts, gen.next)
      /\ Unskipped(pkts, gen) /\ Unforgotten(pending, pkts, queue)
      /\ AlarmArmed /\ NoBug /\ Rest
    BY ZenonT(60) DEF IInv, GenInv
<1>2. gotPacket' = TRUE /\ UNCHANGED <<gen, lastSent, hsComplete, allowTLP, numRTOs>>
    BY ZenonT(30) DEF ReceivedAck
<1>3. gotPacket' \in BOOLEAN
    BY <1>2, ZenonT(30)
<1>4. Max(ack) \in Nat
    <2>1. lastSent + 1 \in Nat
        BY <1>1, ConstantsAssumption, SMTT(30), Z3T(30) DEF Rest
    <2>2. ack \in SUBSET (0..lastSent + 1) /\ ack # {}
        BY <2>1, SMTT(30), Z3T(30)
    <2>3. Max(ack) \in ack
        BY <2>1, <2>2, MaxIsLargest, ZenonT(60)
    <2>4. ack \subseteq Nat
        BY <2>1, SMTT(30), Z3T(30)
    <2>5. QED
        BY <2>3, <2>4, ZenonT(60)
<1>5. Max(ack) <= lastSent => largest \in 0..MaxPn
    <2>1. /\ lastSent \in Nat /\ lastSent <= MaxPn /\ MaxPn \in Nat
          /\ largestAcked \in 0..MaxPn /\ largestAcked \in Int /\ Max(ack) \in Int
        BY <1>1, <1>4, ConstantsAssumption, SMTT(30), Z3T(30) DEF Rest
    <2>2. largest \in {largestAcked, Max(ack)}
        BY <2>1, MaxOfTwo, ZenonT(60)
    <2> HIDE DEF largest
    <2>3. QED
        BY <1>4, <2>1, <2>2, SMTT(60), Z3T(60)
<1>6. CASE /\ err' \in {"unsent", "skipped"} /\ largestAcked' \in 0..MaxPn
           /\ UNCHANGED <<hist, queue, cwnd, tlpCount, lossTime, alarm, pending>>
    <2>1. /\ Unskipped(hist'.packets, gen') /\ HistInv(hist', gen'.next)
          /\ QueueInv(queue', hist'.packets, gen'.next)
          /\ Unforgotten(pending', hist'.packets, queue')
          /\ GenInv(gen') /\ lastSent' < gen'.next
        BY <1>1, <1>2, <1>6, ZenonT(30)
    <2>2. AlarmArmed' /\ NoBug'
        BY <1>1, <1>6, ZenonT(30) DEF AlarmArmed, NoBug
    <2>3. Rest'
        BY <1>1, <1>2, <1>3, <1>6, ZenonT(30) DEF Rest, Errors
    <2>4. QED
        BY <2>1, <2>2, <2>3, ZenonT(30) DEF IInv
<1>7. CASE /\ Max(ack) <= lastSent
           /\ err' = IF \A p \in newly : pkts[p].rAs \subseteq DOMAIN pkts
                     THEN "none" ELSE "bug"
           /\ largestAcked' = largest
           /\ tlpCount' = IF newly = {} THEN tlpCount ELSE 0
           /\ pending' = fs
           /\ DetectLostPackets(OnPacketsAcked(hist, newly), largest,
                                bytesInFlight - Bytes(pkts, newly))
           /\ alarm' = UpdateLossDetectionAlarm(hist'.num)
           /\ cwnd' \in Cwnds
    <2> DEFINE h == OnPacketsAcked(hist, newly)
               stop == StopRetransmissionsFor(pkts, newly)
    <2>1. /\ HistInv(h, gen.next)
          /\ DOMAIN h.packets = DOMAIN pkts \ newly
          /\ \A p \in DOMAIN h.packets :
                /\ h.packets[p].data = pkts[p].data /\ h.packets[p].enc = pkts[p].enc
                /\ h.packets[p].can = (pkts[p].can /\ p \notin stop)
        <3>1. newly \in SUBSET DOMAIN pkts
            BY ZenonT(30)
        <3> HIDE DEF newly
        <3>2. QED
            BY <1>1, <3>1, AckKeepsHistory, SMTT(30), Z3T(30)
    <2>2. LinksOK(pkts)
        BY <1>1, ZenonT(60) DEF HistInv
    <2>3. \A p \in stop : pkts[p].data \cap fs = {}
        BY <2>2, StopReaches, ZenonT(30)
    <2>4. newly \subseteq stop
        BY ZenonT(30) DEF StopRetransmissionsFor
    <2>5. largest \in Nat /\ largestAcked' \in 0..MaxPn
        BY <1>5, <1>7, ConstantsAssumption, SMTT(30), Z3T(30)
    <2>6. DetectLostPackets(h, largest, bytesInFlight - Bytes(pkts, newly))
        BY <1>7, ZenonT(30)
    <2>7. fs \subseteq pending
        BY ZenonT(30)
    <2>8. err' = "none"
        BY <1>7, <2>2, ZenonT(30) DEF LinksOK
    <2> HIDE DEF h, stop, fs, newly, largest
    <2>9. QueueInv(queue, h.packets, gen.next)
        <3> DEFINE after == h.packets
        <3>1. \A p \in DOMAIN after : /\ p \in DOMAIN pkts
                                      /\ after[p].data = pkts[p].data
                                      /\ after[p].enc = pkts[p].enc
                                      /\ after[p].can => pkts[p].can
            BY <2>1, ZenonT(60)
        <3> HIDE DEF after, pkts
        <3>2. QueueInv(queue, pkts, gen.next) /\ gen.next <= gen.next
            BY <1>1, SMTT(30), Z3T(30) DEF pkts
        <3>3. QueueInv(queue, after, gen.next)
            BY <1>1, <3>1, <3>2, QueueOver, ZenonT(30)
        <3>4. QED
            BY <3>3, ZenonT(30) DEF after
    <2>10. Unforgotten(fs, h.packets, queue)
        <3> SUFFICES ASSUME NEW f \in fs, NEW p \in Outstanding(pkts), f \in pkts[p].data
                     PROVE  p \in Outstanding(h.packets) /\ f \in h.packets[p].data
            BY <1>1, <2>7, Zenon DEF Unforgotten
        <3>1. p \notin stop /\ p \notin newly
            BY <2>3, <2>4, ZenonT(30)
        <3>2. QED
            BY <2>1, <3>1, ZenonT(60) DEF Outstanding
    <2>11. /\ HistInv(hist', gen.next) /\ QueueInv(queue', hist'.packets, gen.next)
           /\ Unforgotten(fs, hist'.packets, queue')
           /\ lossTime' \in BOOLEAN
           /\ DOMAIN hist'.packets \subseteq DOMAIN h.packets
        BY <1>1, <2>1, <2>5, <2>6, <2>9, <2>10, DetectKeeps, ZenonT(30)
    <2>12. Unskipped(hist'.packets, gen)
        BY <1>1, <2>1, <2>11, ZenonT(60) DEF Unskipped
    <2>13. alarm' \in BOOLEAN /\ AlarmArmed'
        BY <1>7, <2>11, AlarmSet, ZenonT(60) DEF HistInv
    <2>14. NoBug' /\ err' \in Errors
        BY <2>8, ZenonT(30) DEF NoBug, Errors
    <2>15. tlpCount' \in Nat /\ pending' \subseteq Frames
        BY <1>1, <1>7, <2>7, ZenonT(60) DEF Rest
    <2>16. Rest'
        BY <1>1, <1>2, <1>3, <1>7, <2>5, <2>11, <2>13, <2>14, <2>15, ZenonT(60) DEF Rest
    <2>17. QED
        BY <1>1, <1>2, <1>7, <2>11, <2>12, <2>13, <2>14, <2>16, ZenonT(60) DEF IInv
<1>8. QED
    <2>1. \/ /\ err' = "unsent"
             /\ UNCHANGED <<largestAcked, hist, queue, cwnd, tlpCount, lossTime, alarm,
                            pending>>
          \/ /\ Max(ack) <= lastSent
             /\ err' = "skipped" /\ largestAcked' = largest
             /\ UNCHANGED <<hist, queue, cwnd, tlpCount, lossTime, alarm, pending>>
          \/ /\ Max(ack) <= lastSent
             /\ err' = IF \A p \in newly : pkts[p].rAs \subseteq DOMAIN pkts
                       THEN "none" ELSE "bug"
             /\ largestAcked' = largest
             /\ tlpCount' = IF newly = {} THEN tlpCount ELSE 0
             /\ pending' = fs
             /\ DetectLostPackets(OnPacketsAcked(hist, newly), largest,
                                  bytesInFlight - Bytes(pkts, newly))
             /\ alarm' = UpdateLossDetectionAlarm(hist'.num)
             /\ cwnd' \in Cwnds
        BY Zenon DEF ReceivedAck
    <2>2. largestAcked \in 0..MaxPn
        BY <1>1, ZenonT(30) DEF Rest
    <2> HIDE DEF newly, largest, fs, pkts
    <2>3. QED
        BY <1>5, <1>6, <1>7, <2>1, <2>2, ZenonT(30)

\* SetHandshakeComplete: packets and their retransmissions have the same
\* encryption level, so no link to a removed packet stays behind.
LEMMA SetHandshakeCompleteStep ==
    ASSUME IInv, SetHandshakeComplete
    PROVE  IInv'
<1> DEFINE pkts == hist.packets
           gone == Handshake(pkts, DOMAIN pkts)
           kept == {i \in DOMAIN queue : queue[i].enc = "1RTT"}
           given == UNION ({pkts[p].data : p \in gone} \cup
                           {queue[i].data : i \in DOMAIN queue \ kept})
<1>1. /\ GenInv(gen) /\ gen.next \in Nat /\ lastSent < gen.next
      /\ HistInv(hist, gen.next) /\ QueueInv(queue, pkts, gen.next)
      /\ Unskipped(pkts, gen) /\ Unforgotten(pending, pkts, queue)
      /\ AlarmArmed /\ NoBug /\ Rest
    BY ZenonT(60) DEF IInv, GenInv
<1>2. /\ hist' = RemovePackets(hist, gone) /\ pending' = pending \ given
      /\ \E s \in Ascending(kept) : queue' = [i \in DOMAIN s |-> queue[s[i]]]
      /\ hsComplete' = TRUE /\ gotPacket' = TRUE
      /\ UNCHANGED <<gen, lastSent, largestAcked, cwnd, tlpCount, allowTLP, numRTOs,
                     lossTime, alarm, err>>
    BY ZenonT(60) DEF SetHandshakeComplete
<1>3. hsComplete' \in BOOLEAN /\ gotPacket' \in BOOLEAN
    BY <1>2, Zenon
<1>4. /\ HistType(hist) /\ Consistent(hist) /\ LinksOK(pkts)
      /\ queue \in Seq(QEntry)
    BY <1>1, ZenonT(60) DEF HistInv, QueueInv
<1>5. \A p \in DOMAIN pkts \ gone : pkts[p].rAs \cap gone = {}
    BY <1>4, ZenonT(60) DEF LinksOK, Handshake
<1>6. /\ HistInv(hist', gen.next)
      /\ DOMAIN hist'.packets = DOMAIN pkts \ gone
      /\ \A p \in DOMAIN hist'.packets : hist'.packets[p] = pkts[p]
    <2> HIDE DEF gone
    <2>1. LET new == RemovePackets(hist, gone)
          IN  /\ HistInv(new, gen.next)
              /\ DOMAIN new.packets = DOMAIN pkts \ gone
              /\ \A p \in DOMAIN new.packets : new.packets[p] = pkts[p]
        BY <1>1, <1>5, RemoveKeepsLinks, SMTT(30), Z3T(30)
    <2>2. QED
        BY <1>2, <2>1, ZenonT(30)
<1>7. kept \in SUBSET Nat /\ kept \in SUBSET DOMAIN queue /\ IsFiniteSet(kept)
    <2>1. DOMAIN queue = 1..Len(queue) /\ Len(queue) \in Nat
        BY <1>4, SMTT(30), Z3T(30)
    <2>2. IsFiniteSet(1..Len(queue))
        BY <2>1, FS_Interval, SMTT(30), Z3T(30)
    <2>3. kept \subseteq 1..Len(queue)
        BY <2>1, ZenonT(30)
    <2>4. IsFiniteSet(kept)
        BY <2>2, <2>3, FS_Subset, ZenonT(30)
    <2>5. QED
        BY <2>1, <2>3, <2>4, SMTT(30), Z3T(30)
<1>8. PICK s \in Ascending(kept) : queue' = [i \in DOMAIN s |-> queue[s[i]]]
    BY <1>2, ZenonT(60)
<1>9. /\ s \in Seq(kept)
      /\ \A i, j \in DOMAIN s : s[i] = s[j] => i = j
      /\ \A x \in kept : \E i \in DOMAIN s : s[i] = x
    <2> HIDE DEF kept
    <2> QED
        BY <1>7, <1>8, AscendingProps, ZenonT(30)
<1>10. /\ DOMAIN queue' = DOMAIN s
       /\ \A i \in DOMAIN s : s[i] \in DOMAIN queue /\ queue'[i] = queue[s[i]]
    BY <1>7, <1>8, <1>9, SMTT(60), Z3T(60)
<1>11. queue' \in Seq(QEntry)
    <2>1. Len(s) \in Nat /\ DOMAIN s = 1..Len(s)
        BY <1>9, SMTT(60), Z3T(60)
    <2>2. \A i \in 1..Len(s) : queue[s[i]] \in QEntry
        BY <1>4, <1>10, <2>1, SMTT(30), Z3T(30)
    <2>3. queue' = [i \in 1..Len(s) |-> queue[s[i]]]
        BY <1>8, <2>1, ZenonT(30)
    <2>4. QED
        BY <2>1, <2>2, <2>3, SMTT(60), Z3T(60)
<1> HIDE DEF kept, gone
<1>12. QueueInv(queue', hist'.packets, gen.next)
    <2>1. ASSUME NEW i \in DOMAIN queue'
          PROVE  /\ queue'[i].pn < gen.next
                 /\ queue'[i].pn \in DOMAIN hist'.packets =>
                      /\ queue'[i].data = hist'.packets[queue'[i].pn].data
                      /\ queue'[i].enc = hist'.packets[queue'[i].pn].enc
                 /\ queue'[i].pn \notin Outstanding(hist'.packets)
        <3>1. s[i] \in DOMAIN queue /\ queue'[i] = queue[s[i]]
            BY <1>10, ZenonT(30)
        <3>2. /\ queue'[i].pn < gen.next
              /\ queue'[i].pn \in DOMAIN pkts =>
                   /\ queue'[i].data = pkts[queue'[i].pn].data
                   /\ queue'[i].enc = pkts[queue'[i].pn].enc
              /\ queue'[i].pn \notin Outstanding(pkts)
            BY <1>1, <3>1, ZenonT(60) DEF QueueInv
        <3>3. QED
            BY <1>6, <3>2, ZenonT(30) DEF Outstanding
    <2>2. \A i, j \in DOMAIN queue' : queue'[i].pn = queue'[j].pn => i = j
        BY <1>1, <1>9, <1>10, SMTT(60), Z3T(60) DEF QueueInv
    <2>3. QED
        BY <1>11, <2>1, <2>2, ZenonT(30) DEF QueueInv
<1>13. Unforgotten(pending', hist'.packets, queue')
    <2> SUFFICES ASSUME NEW f \in pending, f \notin given
                 PROVE  \/ \E p \in Outstanding(hist'.packets) : f \in hist'.packets[p].data
                        \/ \E i \in DOMAIN queue' : f \in queue'[i].data
        BY <1>2, ZenonT(60) DEF Unforgotten
    <2>1. CASE \E i \in DOMAIN queue : f \in queue[i].data
        <3>1. PICK i \in DOMAIN queue : f \in queue[i].data
            BY <2>1, ZenonT(30)
        <3>2. i \in kept
            BY <3>1, ZenonT(30)
        <3>3. QED
            BY <1>9, <1>10, <3>1, <3>2, SMTT(60), Z3T(60)
    <2>2. CASE \E p \in Outstanding(pkts) : f \in pkts[p].data
        <3>1. PICK p \in Outstanding(pkts) : f \in pkts[p].data
            BY <2>2, ZenonT(30)
        <3>2. p \notin gone
            BY <3>1, ZenonT(30)
        <3>3. p \in Outstanding(hist'.packets) /\ f \in hist'.packets[p].data
            BY <1>6, <3>1, <3>2, ZenonT(60) DEF Outstanding
        <3>4. QED
            BY <3>3, ZenonT(30)
    <2>3. QED
        BY <1>1, <2>1, <2>2, ZenonT(60) DEF Unforgotten
<1>14. Unskipped(hist'.packets, gen)
    BY <1>1, <1>6, ZenonT(30) DEF Unskipped
\* No packet becomes outstanding, so the alarm that was armed still serves.
<1>15. AlarmArmed'
    <2>1. Outstanding(hist'.packets) \subseteq Outstanding(pkts)
        BY <1>6, ZenonT(30) DEF Outstanding
    <2>2. Outstanding(pkts) \in SUBSET (1..MaxPn)
        BY <1>4, ZenonT(30) DEF Outstanding, HistType
    <2>3. /\ hist.num = Cardinality(Outstanding(pkts))
          /\ hist'.num = Cardinality(Outstanding(hist'.packets))
        BY <1>4, <1>6, ZenonT(60) DEF HistInv, Consistent
    <2>4. IsFiniteSet(Outstanding(pkts)) /\ hist.num \in Nat
        BY <2>2, <2>3, PacketsFinite, ZenonT(30)
    <2>5. hist'.num <= hist.num /\ hist'.num \in Nat
        BY <2>1, <2>3, <2>4, FS_Subset, FS_CardinalityType, ZenonT(60)
    <2>6. hist'.num > 0 => hist.num > 0
        BY <2>4, <2>5, SMTT(30), Z3T(30)
    <2>7. QED
        BY <1>1, <1>2, <2>6, ZenonT(60) DEF AlarmArmed
<1>16. NoBug' /\ Rest'
    BY <1>1, <1>2, <1>3, ZenonT(60) DEF NoBug, Rest
<1>17. QED
    BY <1>1, <1>2, <1>6, <1>12, <1>13, <1>14, <1>15, <1>16, ZenonT(60) DEF IInv

-----------------------------------------------------------------------------
(* The theorems *)

\* A new sentPacketHandler.
LEMMA InitEstablishes ==
    ASSUME Init
    PROVE  IInv
<1> DEFINE pkts == [p \in {} |-> None]
<1>1. hist = [packets |-> pkts, first |-> None, num |-> 0, numHS |-> 0] /\ queue = <<>>
    BY ZenonT(30) DEF Init
<1>2. hist.packets = pkts /\ DOMAIN pkts = {} /\ Outstanding(pkts) = {}
    BY <1>1, ZenonT(30) DEF Outstanding
<1>3. GenInv(gen) /\ gen.next = 1 /\ gen.skipped = <<>> /\ lastSent < gen.next
    <2>1. PICK skip \in SkipOffsets :
             gen = [next |-> 1, nextToSkip |-> 3 + skip, skipped |-> <<>>]
        BY ZenonT(30) DEF Init
    <2>2. skip \in Nat
        BY ConstantsAssumption, ZenonT(30)
    <2>3. lastSent = 0
        BY ZenonT(30) DEF Init
    <2>4. QED
        BY <2>1, <2>2, <2>3, SMTT(60), Z3T(60) DEF GenInv
<1>4. HistType(hist)
    <2>1. pkts \in [{} -> Packet]
        BY ZenonT(30)
    <2>2. 0 \in 0..MaxPn
        BY ConstantsAssumption, SMTT(30), Z3T(30)
    <2>3. QED
        BY <1>1, <1>2, <2>1, <2>2, ZenonT(30) DEF HistType, None
<1>5. Consistent(hist)
    <2>1. Handshake(hist.packets, {}) = {}
        BY ZenonT(30) DEF Handshake
    <2>2. Cardinality({}) = 0
        BY FS_EmptySet, ZenonT(30)
    <2>3. hist.first = None /\ hist.num = 0 /\ hist.numHS = 0
        BY <1>1, ZenonT(30)
    <2>4. QED
        BY <1>2, <2>1, <2>2, <2>3, ZenonT(60) DEF Consistent
<1>6. LinksOK(hist.packets) /\ \A p \in DOMAIN hist.packets : p < gen.next
    BY <1>2, ZenonT(30) DEF LinksOK
<1>7. QueueInv(queue, hist.packets, gen.next)
    BY <1>1, SMTT(60), Z3T(60) DEF QueueInv
<1>8. /\ Unskipped(hist.packets, gen)
      /\ Unforgotten(pending, hist.packets, queue)
    BY <1>2, ZenonT(60) DEF Unskipped, Unforgotten, Init
<1>9. AlarmArmed /\ NoBug
    BY <1>1, SMTT(30), Z3T(30) DEF AlarmArmed, NoBug, Init
<1>10. Rest
    <2>1. 0 \in 0..MaxPn /\ FALSE \in BOOLEAN
        BY ConstantsAssumption, SMTT(30), Z3T(30)
    <2>2. QED
        BY <2>1, ZenonT(60) DEF Rest, Init, Errors
<1>11. QED
    BY <1>3, <1>4, <1>5, <1>6, <1>7, <1>8, <1>9, <1>10, ZenonT(60) DEF IInv, HistInv

\* Steps of the rest of the session.
LEMMA StutterKeeps ==
    ASSUME IInv, UNCHANGED vars
    PROVE  IInv'
<1>1. /\ GenInv(gen') /\ lastSent' < gen'.next
      /\ HistInv(hist', gen'.next) /\ QueueInv(queue', hist'.packets, gen'.next)
      /\ Unskipped(hist'.packets, gen')
      /\ Unforgotten(pending', hist'.packets, queue')
    BY ZenonT(30) DEF IInv, vars
<1>2. AlarmArmed' /\ NoBug' /\ Rest'
    BY ZenonT(30) DEF IInv, vars, AlarmArmed, NoBug, Rest
<1>3. QED
    BY <1>1, <1>2, ZenonT(30) DEF IInv

\* The inductive step, action by action.
LEMMA NextKeeps ==
    ASSUME IInv, [Next]_vars
    PROVE  IInv'
<1>1. ASSUME NEW enc \in Levels, NEW len \in Lengths, NEW skip \in SkipOffsets,
             SentPacket(enc, len, skip)
      PROVE  IInv'
    BY <1>1, SentPacketStep, ZenonT(30)
<1>2. ASSUME NEW skip \in SkipOffsets, SentNonRetransmittable(skip)
      PROVE  IInv'
    BY <1>2, SentNonRetransmittableStep, ZenonT(30)
<1>3. ASSUME NEW skip \in SkipOffsets, MaybeSendRetransmission(skip)
      PROVE  IInv'
    BY <1>3, MaybeSendRetransmissionStep, ZenonT(60)
<1>4. ASSUME NEW skip \in SkipOffsets, SendProbePacket(skip)
      PROVE  IInv'
    BY <1>4, SendProbePacketStep, Zenon
<1>5. ASSUME NEW ack \in (SUBSET (1..lastSent + 1)) \ {{}}, ReceivedAck(ack)
      PROVE  IInv'
    BY <1>5, ReceivedAckStep, ZenonT(30)
<1>6. CASE OnAlarm
    BY <1>6, OnAlarmStep, ZenonT(30)
<1>7. CASE ReceivedPacket
    BY <1>7, ReceivedPacketStep, ZenonT(60)
<1>8. CASE SetHandshakeComplete
    BY <1>8, SetHandshakeCompleteStep, Zenon
<1>9. CASE UNCHANGED vars
    BY <1>9, StutterKeeps, ZenonT(30)
<1>10. QED
    BY <1>1, <1>2, <1>3, <1>4, <1>5, <1>6, <1>7, <1>8, <1>9, ZenonT(30) DEF Next

\* The inductive invariant holds in every reachable state of the sender, for
\* every MaxPn, every limit on tracked packets and every choice of skipped
\* packet numbers.
THEOREM Invariance == Spec => []IInv
<1>1. Init => IInv
    BY InitEstablishes, ZenonT(30)
<1>2. IInv /\ [Next]_vars => IInv'
    BY NextKeeps, ZenonT(30)
<1>3. QED
    BY <1>1, <1>2, PTL DEF Spec


\* Every variable keeps its type, in every reachable state.
THEOREM TypeCorrect == Spec => []TypeOK
<1>1. IInv => TypeOK
    BY ZenonT(30) DEF IInv, GenInv, HistInv, HistType, QueueInv, QEntry, Rest, TypeOK
<1>2. QED
    BY <1>1, Invariance, PTL

\* numOutstandingPackets, numOutstandingHandshakePackets and firstOutstanding,
\* which sentPacketHistory only ever adjusts, are what the list of packets says.
THEOREM HistoryIsConsistent == Spec => []HistoryConsistent
<1>1. IInv => HistoryConsistent
    BY ZenonT(60) DEF IInv, HistInv, HistoryConsistent
<1>2. QED
    BY <1>1, Invariance, PTL

\* Reliability: whatever is acknowledged, lost, split, probed or retransmitted in
\* whatever order, a frame that was sent is outstanding or queued until it is
\* acknowledged or given up with the handshake.
THEOREM NothingIsForgotten == Spec => []NothingForgotten
<1>1. IInv => NothingForgotten
    BY ZenonT(60) DEF IInv, Unforgotten, NothingForgotten
<1>2. QED
    BY <1>1, Invariance, PTL

\* The error "sent packet handler BUG: marking packet as not retransmittable" of
\* stopRetransmissionsFor does not close a session: what a packet in the history
\* was retransmitted as is in the history too.
THEOREM BugUnreachable == Spec => []NoBug
<1>1. IInv => NoBug
    BY ZenonT(30) DEF IInv
<1>2. QED
    BY <1>1, Invariance, PTL

\* A session with outstanding packets has its loss detection alarm set.
THEOREM AlarmIsArmed == Spec => []AlarmArmed
<1>1. IInv => AlarmArmed
    BY ZenonT(30) DEF IInv
<1>2. QED
    BY <1>1, Invariance, PTL

\* The retransmission queue never holds a packet twice, nor one that the next
\* probe could queue again.
THEOREM PacketsAreQueuedOnce == Spec => []QueuedOnce
<1>1. IInv => QueuedOnce
    BY Zenon DEF IInv, QueueInv, QueuedOnce
<1>2. QED
    BY <1>1, Invariance, PTL

\* The packet number generator skips no two numbers in a row, and no packet in
\* the history has a number that counts as skipped.
THEOREM SkippedAreUnused == Spec => []SkippedUnused
<1>1. ASSUME IInv
      PROVE  SkippedUnused
    <2>1. \A i \in 1..Len(gen.skipped) - 1 : gen.skipped[i + 1] > gen.skipped[i] + 1
        BY <1>1, ZenonT(30) DEF IInv, GenInv
    <2>2. Range(gen.skipped) \cap DOMAIN hist.packets = {}
        BY <1>1, ZenonT(30) DEF IInv, Unskipped, Range
    <2>3. QED
        BY <2>1, <2>2, ZenonT(30) DEF SkippedUnused
<1>2. QED
    BY <1>1, Invariance, PTL

-----------------------------------------------------------------------------
(* The bytes in flight *)

\* Packets of the lengths that a packet may have, finitely many.
Sized(pkts) == IsFiniteSet(DOMAIN pkts) /\ \A p \in DOMAIN pkts : pkts[p].len \in Nat

\* The bytes of all packets of a history.
Size(pkts) == Bytes(pkts, DOMAIN pkts)

\* The bytes of some of them are a number.
LEMMA BytesNat ==
    ASSUME NEW pkts, Sized(pkts), NEW ps \in SUBSET DOMAIN pkts
    PROVE  Bytes(pkts, ps) \in Nat
BY SumNat, FS_Subset, ZenonT(60) DEF Bytes, Sized

\* Marking packets and linking them leaves the bytes alone.
LEMMA SizeSame ==
    ASSUME NEW a, NEW b, DOMAIN a = DOMAIN b, \A p \in DOMAIN a : a[p].len = b[p].len
    PROVE  Size(a) = Size(b) /\ (Sized(a) => Sized(b))
<1>1. [p \in DOMAIN a |-> a[p].len] = [p \in DOMAIN b |-> b[p].len]
    BY ZenonT(30)
<1>2. QED
    BY <1>1, ZenonT(30) DEF Size, Bytes, Sized

\* When packets go, their bytes do.
LEMMA SizeRemove ==
    ASSUME NEW a, Sized(a), NEW ps \in SUBSET DOMAIN a,
           NEW b, DOMAIN b = DOMAIN a \ ps, \A p \in DOMAIN b : b[p].len = a[p].len
    PROVE  /\ Size(a) = Bytes(a, ps) + Size(b) /\ Sized(b)
           /\ Size(a) \in Nat /\ Bytes(a, ps) \in Nat /\ Size(b) \in Nat
<1> DEFINE f == [p \in DOMAIN a |-> a[p].len]
           g == [p \in DOMAIN b |-> b[p].len]
           D == DOMAIN a
<1>1. IsFiniteSet(D) /\ (\A p \in D : f[p] \in Int) /\ IsFiniteSet(D \ ps)
    BY FS_Subset, SMTT(30), Z3T(30) DEF Sized
<1>2. \A p \in D \ ps : f[p] = g[p]
    BY ZenonT(30)
<1>3. Sized(b) /\ D \ ps = DOMAIN b
    BY <1>1, ZenonT(30) DEF Sized
<1>4. Size(a) \in Nat /\ Bytes(a, ps) \in Nat /\ Size(b) \in Nat
    BY <1>3, BytesNat, ZenonT(30) DEF Size
<1> HIDE DEF f, g, D
<1>5. SumFunctionOnSet(f, D \ ps) = SumFunctionOnSet(g, D \ ps)
    BY <1>1, <1>2, SumSame, ZenonT(30)
<1>6. SumFunctionOnSet(f, D) = SumFunctionOnSet(f, ps) + SumFunctionOnSet(f, D \ ps)
    BY <1>1, SumSplit, ZenonT(60) DEF D
<1>7. Size(a) = Bytes(a, ps) + Size(b)
    BY <1>3, <1>5, <1>6, ZenonT(30) DEF Size, Bytes, f, g, D
<1>8. QED
    BY <1>3, <1>4, <1>7, ZenonT(30)

\* When packets are added, their bytes are.
LEMMA SizeAdd ==
    ASSUME NEW a, Sized(a), NEW new, Sized(new), DOMAIN a \cap DOMAIN new = {},
           NEW b, b = [p \in DOMAIN a \cup DOMAIN new |->
                         IF p \in DOMAIN new THEN new[p] ELSE a[p]]
    PROVE  /\ Size(b) = Size(new) + Size(a) /\ Sized(b)
           /\ Size(a) \in Nat /\ Size(new) \in Nat
<1>1. Sized(b)
    BY FS_Union, ZenonT(60) DEF Sized
<1>2. /\ DOMAIN new \in SUBSET DOMAIN b /\ DOMAIN a = DOMAIN b \ DOMAIN new
      /\ \A p \in DOMAIN a : a[p].len = b[p].len
    BY ZenonT(30)
<1>3. /\ Size(b) = Bytes(b, DOMAIN new) + Size(a)
      /\ Size(a) \in Nat
    BY <1>1, <1>2, SizeRemove, ZenonT(120)
<1>4. Bytes(b, DOMAIN new) = Size(new)
    <2> DEFINE f == [p \in DOMAIN new |-> new[p].len]
               g == [p \in DOMAIN b |-> b[p].len]
    <2>1. \A p \in DOMAIN new : f[p] = g[p]
        BY <1>2, Zenon
    <2>2. IsFiniteSet(DOMAIN new)
        BY Zenon DEF Sized
    <2> HIDE DEF f, g
    <2>3. SumFunctionOnSet(f, DOMAIN new) = SumFunctionOnSet(g, DOMAIN new)
        BY <2>1, <2>2, SumSame, ZenonT(60)
    <2>4. QED
        BY <2>3, Zenon DEF Size, Bytes, f, g
<1>5. Size(new) \in Nat
    BY BytesNat, ZenonT(60) DEF Size
<1>6. QED
    BY <1>1, <1>3, <1>4, <1>5, ZenonT(30)

\* bytesInFlight covers a history with the packets pkts.
Covers(bytes, pkts) == bytes \in Nat /\ bytes >= Size(pkts)

\* The packets of the history have lengths.
LEMMA HistorySized ==
    ASSUME NEW h, HistType(h)
    PROVE  Sized(h.packets)
<1>1. IsFiniteSet(DOMAIN h.packets)
    BY PacketsFinite, ZenonT(30) DEF HistType
<1>2. \A p \in DOMAIN h.packets : h.packets[p] \in Packet
    BY ZenonT(30) DEF HistType
<1>3. \A p \in DOMAIN h.packets : h.packets[p].len \in Nat
    BY <1>2, ConstantsAssumption, ZenonT(60) DEF Packet
<1>4. QED
    BY <1>1, <1>3, ZenonT(30) DEF Sized

\* sentPacketImpl counts what it sends.
LEMMA SentPacketImplCovers ==
    ASSUME InFlightCovered, Sized(hist.packets),
           NEW h, DOMAIN h.packets = DOMAIN hist.packets,
           \A p \in DOMAIN h.packets : h.packets[p].len = hist.packets[p].len,
           NEW new, Sized(new), DOMAIN new \cap DOMAIN hist.packets = {},
           NEW g, SentPacketImpl(h, new, g)
    PROVE  InFlightCovered'
<1>1. Size(h.packets) = Size(hist.packets) /\ Sized(h.packets)
    BY SizeSame, ZenonT(30)
<1>2. /\ Size(hist'.packets) = Size(new) + Size(h.packets)
      /\ Size(h.packets) \in Nat /\ Size(new) \in Nat
    <2>1. hist'.packets = [p \in DOMAIN h.packets \cup DOMAIN new |->
                             IF p \in DOMAIN new THEN new[p] ELSE h.packets[p]]
        BY ZenonT(60) DEF SentPacketImpl, AddPackets
    <2>2. DOMAIN h.packets \cap DOMAIN new = {}
        BY ZenonT(30)
    <2>3. QED
        BY <1>1, <2>1, <2>2, SizeAdd, ZenonT(30)
<1>3. bytesInFlight' = bytesInFlight + Size(new)
    BY ZenonT(30) DEF SentPacketImpl, AddInFlight, Size
<1>4. bytesInFlight \in Nat /\ bytesInFlight >= Size(hist.packets)
    BY ZenonT(30) DEF InFlightCovered, Size
<1>5. bytesInFlight' \in Nat /\ bytesInFlight' >= Size(hist'.packets)
    BY <1>1, <1>2, <1>3, <1>4, SMTT(30), Z3T(30)
<1>6. QED
    BY <1>5, ZenonT(30) DEF InFlightCovered, Size

\* A retransmission: linking it to the packet it replaces changes no length, and
\* its numbers are new.
LEMMA RetransmissionCovers ==
    ASSUME IInv, InFlightCovered, NEW skip \in SkipOffsets,
           NEW h, HistType(h), DOMAIN h.packets = DOMAIN hist.packets,
           \A p \in DOMAIN h.packets : h.packets[p].len = hist.packets[p].len,
           NEW q, SendRetransmission(h, q, skip)
    PROVE  InFlightCovered'
<1> DEFINE D == DOMAIN h.packets
           first == gen.next
           g1 == Pop(gen, skip)
<1>1. PICK parts \in Packings(q) :
        LET second == g1.next
            g == IF Len(parts) = 2 THEN Pop(g1, skip) ELSE g1
            pns == IF Len(parts) = 2 THEN {first, second} ELSE {first}
            known == q.pn \in DOMAIN h.packets
            linked == IF known THEN [h EXCEPT !.packets[q.pn].rAs = pns] ELSE h
        IN  \E len \in [pns -> Lengths] :
                SentPacketImpl(linked,
                    [p \in pns |->
                       [enc |-> q.enc, len |-> len[p],
                        data |-> IF p = first THEN parts[1] ELSE parts[2],
                        can |-> TRUE, rAs |-> {},
                        rOf |-> IF known THEN q.pn ELSE None]],
                    g)
    BY Zenon DEF SendRetransmission
<1> DEFINE second == g1.next
           g == IF Len(parts) = 2 THEN Pop(g1, skip) ELSE g1
           pns == IF Len(parts) = 2 THEN {first, second} ELSE {first}
           known == q.pn \in DOMAIN h.packets
           linked == IF known THEN [h EXCEPT !.packets[q.pn].rAs = pns] ELSE h
<1>2. PICK len \in [pns -> Lengths] :
        SentPacketImpl(linked,
            [p \in pns |->
               [enc |-> q.enc, len |-> len[p],
                data |-> IF p = first THEN parts[1] ELSE parts[2],
                can |-> TRUE, rAs |-> {},
                rOf |-> IF known THEN q.pn ELSE None]],
            g)
    BY <1>1, ZenonT(30)
<1> DEFINE new == [p \in pns |->
                     [enc |-> q.enc, len |-> len[p],
                      data |-> IF p = first THEN parts[1] ELSE parts[2],
                      can |-> TRUE, rAs |-> {},
                      rOf |-> IF known THEN q.pn ELSE None]]
<1>3. GenInv(gen) /\ HistInv(hist, gen.next)
    BY Zenon DEF IInv
<1>4. first \in Nat /\ second \in Nat /\ first < second
    <2>1. GenInv(g1) /\ g1.next > first
        BY <1>3, PopKeepsGen, ZenonT(60)
    <2> HIDE DEF g1
    <2>2. QED
        BY <1>3, <2>1, ZenonT(30) DEF GenInv
<1>5. DOMAIN new \cap DOMAIN hist.packets = {}
    BY <1>3, <1>4, SMTT(30), Z3T(30) DEF HistInv, HistType
<1>6. Sized(new)
    <2>1. IsFiniteSet(pns)
        <3>1. IsFiniteSet({first}) /\ IsFiniteSet({first} \cup {second})
            BY FS_Singleton, FS_AddElement, ZenonT(60)
        <3>2. {first} \cup {second} = {first, second}
            BY ZenonT(30)
        <3>3. QED
            BY <3>1, <3>2, ZenonT(30)
    <2>2. \A p \in pns : len[p] \in Nat
        BY ConstantsAssumption, ZenonT(30)
    <2> HIDE DEF pns
    <2>3. QED
        BY <2>1, <2>2, ZenonT(30) DEF Sized
<1>7. /\ DOMAIN linked.packets = DOMAIN hist.packets
      /\ \A p \in DOMAIN linked.packets : linked.packets[p].len = hist.packets[p].len
    <2> HIDE DEF pns
    <2>1. CASE known
        <3>1. /\ DOMAIN linked.packets = D
              /\ \A p \in D : linked.packets[p].len = h.packets[p].len
            BY <2>1, SMTT(30), Z3T(30) DEF HistType, Packet
        <3>2. QED
            BY <3>1, SMTT(30), Z3T(30)
    <2>2. QED
        BY <2>1, ZenonT(30)
<1>8. Sized(hist.packets)
    BY <1>3, HistorySized, ZenonT(60) DEF HistInv
<1>9. SentPacketImpl(linked, new, g)
    BY <1>2, ZenonT(30)
<1> HIDE DEF new, linked, g
<1>10. QED
    BY <1>5, <1>6, <1>7, <1>8, <1>9, SentPacketImplCovers, ZenonT(60)

\* detectLostPackets subtracts what it removes.
LEMMA DetectCovers ==
    ASSUME NEW h, Sized(h.packets), NEW bytes, Covers(bytes, h.packets),
           NEW largest, DetectLostPackets(h, largest, bytes)
    PROVE  InFlightCovered'
<1>1. PICK cut \in {0} \cup DOMAIN h.packets :
        LET candidates == {p \in DOMAIN h.packets : p <= largest}
            lost == Lost(candidates, cut)
        IN  /\ hist' = RemovePackets(h, lost)
            /\ bytesInFlight' = bytes - Bytes(h.packets, lost)
    BY ZenonT(30) DEF DetectLostPackets
<1> DEFINE lost == Lost({p \in DOMAIN h.packets : p <= largest}, cut)
<1>2. hist' = RemovePackets(h, lost) /\ bytesInFlight' = bytes - Bytes(h.packets, lost)
    BY <1>1, ZenonT(30)
<1>3. lost \in SUBSET DOMAIN h.packets
    BY ZenonT(30) DEF Lost
<1> HIDE DEF lost
<1>4. hist'.packets = [p \in DOMAIN h.packets \ lost |-> h.packets[p]]
    BY <1>2, ZenonT(60) DEF RemovePackets, ReplacePackets
<1>5. /\ DOMAIN hist'.packets = DOMAIN h.packets \ lost
      /\ \A p \in DOMAIN hist'.packets : hist'.packets[p].len = h.packets[p].len
    BY <1>4, ZenonT(30)
<1>6. /\ Size(h.packets) = Bytes(h.packets, lost) + Size(hist'.packets)
      /\ Size(h.packets) \in Nat /\ Bytes(h.packets, lost) \in Nat /\ Size(hist'.packets) \in Nat
    BY <1>3, <1>5, SizeRemove, ZenonT(30)
<1>7. bytesInFlight' \in Nat /\ bytesInFlight' >= Size(hist'.packets)
    BY <1>2, <1>6, SMTT(30), Z3T(30) DEF Covers
<1>8. QED
    BY <1>7, ZenonT(30) DEF InFlightCovered, Size

\* An acknowledgement: the packets it newly acknowledges leave the history, and
\* bytesInFlight, before losses are detected.
LEMMA ReceivedAckCovers ==
    ASSUME IInv, InFlightCovered, NEW ack, ReceivedAck(ack)
    PROVE  InFlightCovered'
<1> DEFINE pkts == hist.packets
           newly == ack \cap DOMAIN pkts
           h == OnPacketsAcked(hist, newly)
<1>1. CASE UNCHANGED <<hist, bytesInFlight>>
    BY <1>1, ZenonT(30) DEF InFlightCovered, Size
<1>2. CASE DetectLostPackets(h, Max({largestAcked, Max(ack)}),
                             bytesInFlight - Bytes(pkts, newly))
    <2>1. /\ DOMAIN h.packets = DOMAIN pkts \ newly
          /\ \A p \in DOMAIN h.packets : h.packets[p].len = pkts[p].len
        <3> DEFINE stop == StopRetransmissionsFor(pkts, newly)
                   stopped == MarkCannotBeRetransmitted(hist, stop)
                   unlinked == [stopped EXCEPT !.packets =
                                  [p \in DOMAIN pkts |->
                                     [stopped.packets[p] EXCEPT
                                        !.rAs = @ \ {r \in newly : pkts[r].rOf = p}]]]
        <3>1. \A p \in DOMAIN pkts : pkts[p] \in Packet
            BY ZenonT(30) DEF IInv, HistInv, HistType
        <3>2. stopped.packets = [p \in DOMAIN pkts |-> [pkts[p] EXCEPT !.can = @ /\ p \notin stop]]
            <4> HIDE DEF stop, newly
            <4>1. QED
                BY ZenonT(30) DEF MarkCannotBeRetransmitted, ReplacePackets
        <3>3. \A p \in DOMAIN pkts : /\ stopped.packets[p].len = pkts[p].len
                                     /\ DOMAIN stopped.packets[p] = DOMAIN pkts[p]
                                     /\ "len" \in DOMAIN pkts[p]
            <4> HIDE DEF stop, stopped, newly
            <4>1. QED
                BY <3>1, <3>2, SMTT(30), Z3T(30) DEF Packet
        <3>4. /\ DOMAIN unlinked.packets = DOMAIN pkts
              /\ \A p \in DOMAIN pkts : unlinked.packets[p].len = pkts[p].len
            <4>1. unlinked.packets = [p \in DOMAIN pkts |->
                                        [stopped.packets[p] EXCEPT
                                           !.rAs = @ \ {r \in newly : pkts[r].rOf = p}]]
                BY ZenonT(30) DEF MarkCannotBeRetransmitted, ReplacePackets
            <4> HIDE DEF stop, stopped, newly, unlinked
            <4>2. QED
                BY <3>3, <4>1, SMTT(30), Z3T(30)
        <3>5. h = RemovePackets(unlinked, newly)
            BY ZenonT(30) DEF OnPacketsAcked
        <3> HIDE DEF stop, stopped, newly, unlinked, h
        <3>6. h.packets = [p \in DOMAIN unlinked.packets \ newly |-> unlinked.packets[p]]
            BY <3>5, ZenonT(30) DEF RemovePackets, ReplacePackets
        <3>7. QED
            BY <3>4, <3>6, ZenonT(30)
    <2>2. Sized(pkts)
        BY HistorySized, ZenonT(30) DEF IInv, HistInv
    <2> HIDE DEF h
    <2>3. /\ Size(pkts) = Bytes(pkts, newly) + Size(h.packets) /\ Sized(h.packets)
          /\ Size(pkts) \in Nat /\ Bytes(pkts, newly) \in Nat /\ Size(h.packets) \in Nat
        <3>1. newly \in SUBSET DOMAIN pkts
            BY ZenonT(30)
        <3> HIDE DEF newly
        <3>2. QED
            BY <2>1, <2>2, <3>1, SizeRemove, ZenonT(60)
    <2>4. Covers(bytesInFlight - Bytes(pkts, newly), h.packets)
        <3>1. bytesInFlight \in Nat /\ bytesInFlight >= Size(pkts)
            BY ZenonT(30) DEF InFlightCovered, Size
        <3> HIDE DEF newly, pkts
        <3>2. QED
            BY <2>3, <3>1, SMTT(30), Z3T(30) DEF Covers
    <2>5. QED
        BY <1>2, <2>3, <2>4, DetectCovers, ZenonT(60)
<1>3. QED
    BY <1>1, <1>2, ZenonT(60) DEF ReceivedAck

\* The steps that leave bytesInFlight alone and forget or mark packets.
LEMMA FewerPacketsCovered ==
    ASSUME InFlightCovered, Sized(hist.packets), bytesInFlight' = bytesInFlight,
           DOMAIN hist'.packets \subseteq DOMAIN hist.packets,
           \A p \in DOMAIN hist'.packets : hist'.packets[p].len = hist.packets[p].len
    PROVE  InFlightCovered'
<1> DEFINE ps == DOMAIN hist.packets \ DOMAIN hist'.packets
<1>1. ps \in SUBSET DOMAIN hist.packets /\ DOMAIN hist'.packets = DOMAIN hist.packets \ ps
    BY ZenonT(30)
<1> HIDE DEF ps
<1>2. /\ Size(hist.packets) = Bytes(hist.packets, ps) + Size(hist'.packets)
      /\ Size(hist.packets) \in Nat /\ Bytes(hist.packets, ps) \in Nat /\ Size(hist'.packets) \in Nat
    BY <1>1, SizeRemove, ZenonT(30)
<1>3. bytesInFlight \in Nat /\ bytesInFlight >= Size(hist.packets)
    BY ZenonT(30) DEF InFlightCovered, Size
<1>4. bytesInFlight' \in Nat /\ bytesInFlight' >= Size(hist'.packets)
    BY <1>2, <1>3, SMTT(30), Z3T(30)
<1>5. QED
    BY <1>4, ZenonT(30) DEF InFlightCovered, Size

\* The alarm: only lost packets leave the history.
LEMMA OnAlarmCovers ==
    ASSUME IInv, InFlightCovered, OnAlarm
    PROVE  InFlightCovered'
<1>1. Sized(hist.packets)
    BY HistorySized, ZenonT(30) DEF IInv, HistInv
<1>2. CASE UNCHANGED <<hist, bytesInFlight>>
    BY <1>2, ZenonT(30) DEF InFlightCovered, Size
<1>3. CASE DetectLostPackets(hist, largestAcked, bytesInFlight)
    BY <1>1, <1>3, DetectCovers, ZenonT(30) DEF InFlightCovered, Covers, Size
<1>4. ASSUME NEW again, hist' = MarkCannotBeRetransmitted(hist, again), UNCHANGED bytesInFlight
      PROVE  InFlightCovered'
    <2>1. hist'.packets = [p \in DOMAIN hist.packets |->
                             [hist.packets[p] EXCEPT !.can = @ /\ p \notin again]]
        BY <1>4, ZenonT(30) DEF MarkCannotBeRetransmitted, ReplacePackets
    <2>2. \A p \in DOMAIN hist.packets : hist.packets[p] \in Packet
        BY ZenonT(30) DEF IInv, HistInv, HistType
    <2>3. /\ DOMAIN hist'.packets = DOMAIN hist.packets
          /\ \A p \in DOMAIN hist'.packets : hist'.packets[p].len = hist.packets[p].len
        BY <2>1, <2>2, SMTT(30), Z3T(30) DEF Packet
    <2>4. QED
        BY <1>1, <1>4, <2>3, FewerPacketsCovered, ZenonT(30)
<1>5. QED
    BY <1>2, <1>3, <1>4, ZenonT(30) DEF OnAlarm

\* A probe: it repeats a queued packet or the first outstanding one.
LEMMA SendProbePacketCovers ==
    ASSUME IInv, InFlightCovered, NEW skip \in SkipOffsets, SendProbePacket(skip)
    PROVE  InFlightCovered'
<1>1. HistType(hist) /\ Consistent(hist)
    BY ZenonT(30) DEF IInv, HistInv
<1>2. CASE UNCHANGED <<hist, bytesInFlight>>
    BY <1>2, ZenonT(30) DEF InFlightCovered, Size
<1>3. ASSUME NEW q, SendRetransmission(hist, q, skip)
      PROVE  InFlightCovered'
    BY <1>1, <1>3, RetransmissionCovers, ZenonT(30)
<1>4. ASSUME NEW q, SendRetransmission(MarkCannotBeRetransmitted(hist, {hist.first}), q, skip)
      PROVE  InFlightCovered'
    <2> DEFINE h == MarkCannotBeRetransmitted(hist, {hist.first})
    <2>1. h.packets = [p \in DOMAIN hist.packets |->
                             [hist.packets[p] EXCEPT !.can = @ /\ p \notin {hist.first}]]
        BY ZenonT(30) DEF MarkCannotBeRetransmitted, ReplacePackets
    <2>2. \A p \in DOMAIN hist.packets : hist.packets[p] \in Packet
        BY ZenonT(30) DEF IInv, HistInv, HistType
    <2>3. HistType(h)
        BY <1>1, MarkKeepsHistory, ZenonT(30)
    <2> HIDE DEF h
    <2>4. /\ DOMAIN h.packets = DOMAIN hist.packets
          /\ \A p \in DOMAIN h.packets : h.packets[p].len = hist.packets[p].len
        BY <2>1, <2>2, SMTT(30), Z3T(30) DEF Packet
    <2>5. QED
        BY <1>4, <2>3, <2>4, RetransmissionCovers, ZenonT(60) DEF h
<1>5. QED
    BY <1>2, <1>3, <1>4, ZenonT(60) DEF SendProbePacket

\* The end of the handshake: packets leave the history and not bytesInFlight.
LEMMA SetHandshakeCompleteCovers ==
    ASSUME IInv, InFlightCovered, SetHandshakeComplete
    PROVE  InFlightCovered'
<1>1. Sized(hist.packets)
    BY HistorySized, Zenon DEF IInv, HistInv
<1> DEFINE gone == Handshake(hist.packets, DOMAIN hist.packets)
<1>2. hist' = RemovePackets(hist, gone) /\ bytesInFlight' = bytesInFlight
    BY Zenon DEF SetHandshakeComplete
<1> HIDE DEF gone
<1>3. hist'.packets = [p \in DOMAIN hist.packets \ gone |-> hist.packets[p]]
    BY <1>2, ZenonT(60) DEF RemovePackets, ReplacePackets
<1>4. /\ DOMAIN hist'.packets \subseteq DOMAIN hist.packets
      /\ \A p \in DOMAIN hist'.packets : hist'.packets[p].len = hist.packets[p].len
    BY <1>3, ZenonT(30)
<1>5. QED
    BY <1>1, <1>2, <1>4, FewerPacketsCovered, ZenonT(30)

\* A new packet.
LEMMA SentPacketCovers ==
    ASSUME IInv, InFlightCovered, NEW enc, NEW len \in Lengths, NEW skip,
           SentPacket(enc, len, skip)
    PROVE  InFlightCovered'
<1> DEFINE pn == gen.next
           new == [p \in {pn} |-> [enc |-> enc, len |-> len, data |-> {pn} \X {1, 2},
                                   can |-> TRUE, rAs |-> {}, rOf |-> None]]
<1>1. SentPacketImpl(hist, new, Pop(gen, skip))
    BY ZenonT(30) DEF SentPacket
<1>2. HistInv(hist, gen.next) /\ GenInv(gen)
    BY ZenonT(30) DEF IInv
<1>3. Sized(hist.packets)
    BY <1>2, HistorySized, ZenonT(30) DEF HistInv
<1>4. DOMAIN new \cap DOMAIN hist.packets = {}
    BY <1>2, SMTT(30), Z3T(30) DEF HistInv, HistType, GenInv
<1>5. Sized(new)
    BY FS_Singleton, ConstantsAssumption, ZenonT(60) DEF Sized
<1> HIDE DEF new
<1>6. QED
    BY <1>1, <1>3, <1>4, <1>5, SentPacketImplCovers, ZenonT(30)

\* bytesInFlight, an unsigned number in the code, never wraps around: whatever
\* is sent, acknowledged, lost or given up, it covers the packets in flight.
THEOREM InFlightIsCovered == Spec => []InFlightCovered
<1>1. Init => InFlightCovered
    <2>1. ASSUME Init
          PROVE  InFlightCovered
        <3>1. DOMAIN hist.packets = {} /\ bytesInFlight = 0
            BY <2>1, ZenonT(30) DEF Init
        <3>2. Bytes(hist.packets, {}) = 0
            BY SumEmpty, ZenonT(30) DEF Bytes
        <3>3. QED
            BY <3>1, <3>2, SMTT(30), Z3T(30) DEF InFlightCovered
    <2>2. QED
        BY <2>1, Zenon
<1>2. ASSUME IInv, InFlightCovered, [Next]_vars
      PROVE  InFlightCovered'
    <2>1. ASSUME NEW enc \in Levels, NEW len \in Lengths, NEW skip \in SkipOffsets,
                 SentPacket(enc, len, skip)
          PROVE  InFlightCovered'
        BY <1>2, <2>1, SentPacketCovers, ZenonT(30)
    <2>2. ASSUME UNCHANGED <<hist, bytesInFlight>>
          PROVE  InFlightCovered'
        BY <1>2, <2>2, ZenonT(30) DEF InFlightCovered
    <2>3. ASSUME NEW skip \in SkipOffsets, MaybeSendRetransmission(skip)
          PROVE  InFlightCovered'
        <3>1. HistType(hist)
            BY <1>2, ZenonT(30) DEF IInv, HistInv
        <3>2. CASE SendRetransmission(hist, Head(queue), skip)
            BY <1>2, <3>1, <3>2, RetransmissionCovers, ZenonT(30)
        <3>3. QED
            BY <2>2, <2>3, <3>2, ZenonT(30) DEF MaybeSendRetransmission
    <2>4. ASSUME NEW skip \in SkipOffsets, SendProbePacket(skip)
          PROVE  InFlightCovered'
        BY <1>2, <2>4, SendProbePacketCovers, ZenonT(30)
    <2>5. ASSUME NEW ack, ReceivedAck(ack)
          PROVE  InFlightCovered'
        BY <1>2, <2>5, ReceivedAckCovers, ZenonT(30)
    <2>6. CASE OnAlarm
        BY <1>2, <2>6, OnAlarmCovers, ZenonT(30)
    <2>7. CASE SetHandshakeComplete
        BY <1>2, <2>7, SetHandshakeCompleteCovers, ZenonT(30)
    <2>8. ASSUME NEW skip \in SkipOffsets, SentNonRetransmittable(skip)
          PROVE  InFlightCovered'
        BY <2>2, <2>8, ZenonT(30) DEF SentNonRetransmittable
    <2>9. CASE ReceivedPacket
        BY <2>2, <2>9, ZenonT(30) DEF ReceivedPacket
    <2>10. CASE UNCHANGED vars
        BY <2>2, <2>10, ZenonT(30) DEF vars
    <2>11. QED
        BY <1>2, <2>1, <2>3, <2>4, <2>5, <2>6, <2>7, <2>8, <2>9, <2>10, ZenonT(30) DEF Next
<1>3. QED
    BY <1>1, <1>2, Invariance, PTL DEF Spec

=============================================================================
