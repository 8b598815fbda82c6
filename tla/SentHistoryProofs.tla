------------------------- MODULE SentHistoryProofs --------------------------
(*************************************************************************)
(* The inductive invariant of loss recovery, and the lemmas that the     *)
(* operations of sentPacketHistory, the packet number generator, sending *)
(* a packet or a retransmission, and the retransmission queue keep their *)
(* parts of it.                                                          *)
(*************************************************************************)
EXTENDS SentPacketHandler, Sums

-----------------------------------------------------------------------------
(* The inductive invariant *)

QEntry == [pn : 1..MaxPn, enc : Levels, data : (SUBSET Frames) \ {{}}]

\* A history with packets of type Packet.
HistType(h) ==
    /\ DOMAIN h.packets \subseteq 1..MaxPn
    /\ h \in [packets : [DOMAIN h.packets -> Packet], first : 0..MaxPn,
              num : Nat, numHS : Nat]

\* The links between packets and their retransmissions: a retransmission is in
\* the history as long as the packet it replaces links to it, is younger, and
\* carries nothing that packet did not carry.
LinksOK(pkts) ==
    \A p \in DOMAIN pkts : \A r \in pkts[p].rAs :
        /\ r \in DOMAIN pkts /\ r > p
        /\ pkts[r].rOf = p /\ pkts[r].enc = pkts[p].enc
        /\ pkts[r].data \subseteq pkts[p].data

\* A history whose packets have numbers below n.
HistInv(h, n) ==
    /\ HistType(h) /\ Consistent(h) /\ LinksOK(h.packets)
    /\ \A p \in DOMAIN h.packets : p < n

\* A queue of different packets with numbers below n: none of them is
\* outstanding, and each is still what the history says it is.
QueueInv(q, pkts, n) ==
    /\ q \in Seq(QEntry)
    /\ \A i \in DOMAIN q :
          /\ q[i].pn < n
          /\ q[i].pn \in DOMAIN pkts =>
               /\ q[i].data = pkts[q[i].pn].data
               /\ q[i].enc = pkts[q[i].pn].enc
          /\ q[i].pn \notin Outstanding(pkts)
    /\ \A i, j \in DOMAIN q : q[i].pn = q[j].pn => i = j

\* A generator that skipped no two numbers in a row, and none it will use.
GenInv(g) ==
    /\ g \in [next : Nat \ {0}, nextToSkip : Nat, skipped : Seq(Nat)]
    /\ g.next < g.nextToSkip
    /\ \A i \in DOMAIN g.skipped :
          g.skipped[i] < g.next /\ g.skipped[i] + 1 < g.nextToSkip
    /\ \A i \in 1..Len(g.skipped) - 1 : g.skipped[i + 1] > g.skipped[i] + 1

\* NothingForgotten, for any frames, packets and queue.
Unforgotten(fs, pkts, q) ==
    \A f \in fs :
        \/ \E p \in Outstanding(pkts) : f \in pkts[p].data
        \/ \E i \in DOMAIN q : f \in q[i].data

\* No packet has a skipped number.
Unskipped(pkts, g) == \A p \in DOMAIN pkts, i \in DOMAIN g.skipped : g.skipped[i] # p

\* The types of the variables that the invariants above leave out.
Rest ==
    /\ lastSent \in 0..MaxPn /\ largestAcked \in 0..MaxPn
    /\ cwnd \in Cwnds /\ tlpCount \in Nat /\ numRTOs \in Nat
    /\ allowTLP \in BOOLEAN /\ lossTime \in BOOLEAN /\ alarm \in BOOLEAN
    /\ hsComplete \in BOOLEAN /\ gotPacket \in BOOLEAN
    /\ err \in Errors /\ pending \subseteq Frames

IInv ==
    /\ GenInv(gen) /\ lastSent < gen.next
    /\ HistInv(hist, gen.next) /\ QueueInv(queue, hist.packets, gen.next)
    /\ Unskipped(hist.packets, gen)
    /\ Unforgotten(pending, hist.packets, queue)
    /\ AlarmArmed /\ NoBug /\ Rest

-----------------------------------------------------------------------------
(* Smallest and largest elements, and ascending sequences *)

\* A non-empty set of naturals has the smallest element that Min chooses.
LEMMA MinIsSmallest ==
    ASSUME NEW S \in SUBSET Nat, S # {}
    PROVE  Min(S) \in S /\ \A y \in S : Min(S) <= y
<1> DEFINE R == {ss \in Nat \X Nat : ss[1] < ss[2]}
<1>1. \E x \in S : \A y \in S : ~ (<<y, x>> \in R)
    <2>1. IsWellFoundedOn(R, Nat)
        BY NatLessThanWellFounded, ZenonT(30) DEF OpToRel
    <2>2. QED
        BY <2>1, WFMin, Zenon
<1>2. \A x, y \in S : ~ (<<y, x>> \in R) => x <= y
    OBVIOUS
<1>3. \E x \in S : \A y \in S : x <= y
    BY <1>1, <1>2, Zenon
<1>4. QED
    BY <1>3, Zenon DEF Min

\* A non-empty set of bounded naturals has the largest element that Max chooses.
LEMMA MaxIsLargest ==
    ASSUME NEW n \in Nat, NEW S \in SUBSET (0..n), S # {}
    PROVE  Max(S) \in S /\ \A y \in S : y <= Max(S)
<1> DEFINE T == {m \in Nat : m <= n /\ n - m \in S}
<1>1. T \in SUBSET Nat /\ T # {}
    <2>1. PICK x \in S : TRUE
        BY Zenon
    <2>2. n - x \in T
        BY <2>1
    <2>3. QED
        BY <2>2, Zenon
<1>2. Min(T) \in T /\ \A y \in T : Min(T) <= y
    <2> HIDE DEF T
    <2> QED
        BY <1>1, MinIsSmallest, ZenonT(30)
<1>3. n - Min(T) \in S /\ \A y \in S : y <= n - Min(T)
    <2>1. \A y \in S : n - y \in T
        OBVIOUS
    <2>2. QED
        BY <1>2, <2>1
<1>4. \E x \in S : \A y \in S : x >= y
    BY <1>3, Zenon
<1>5. QED
    BY <1>4, Zenon DEF Max

\* What Ascending's sequence consists of.
LEMMA AscendingProps ==
    ASSUME NEW S \in SUBSET Nat, IsFiniteSet(S), NEW s \in Ascending(S)
    PROVE  /\ s \in Seq(S)
           /\ \A i, j \in DOMAIN s : s[i] = s[j] => i = j
           /\ \A x \in S : \E i \in DOMAIN s : s[i] = x
<1> DEFINE n == Cardinality(S)
<1>1. n \in Nat
    BY FS_CardinalityType, Zenon
<1>2. s \in [1..n -> S] /\ \A i, j \in 1..n : i # j => s[i] # s[j]
    <2>1. s \in [1..n -> S] /\ \A i, j \in DOMAIN s : i < j => s[i] < s[j]
        BY Zenon DEF Ascending
    <2>2. DOMAIN s = 1..n /\ \A i \in 1..n : s[i] \in Nat
        BY <2>1, Zenon
    <2>3. ASSUME NEW i \in 1..n, NEW j \in 1..n, i # j
          PROVE  s[i] # s[j]
        <3>1. i < j \/ j < i
            BY <1>1, <2>3, SMTT(30), Z3T(30)
        <3>2. s[i] < s[j] \/ s[j] < s[i]
            BY <2>1, <2>2, <3>1, ZenonT(30)
        <3>3. QED
            BY <2>2, <3>2, SMTT(30), Z3T(30)
    <2>4. QED
        BY <2>1, <2>3, ZenonT(30)
<1>3. s \in Injection(1..n, S)
    BY <1>2, ZenonT(30) DEF Injection, IsInjective
<1>4. Cardinality(1..n) = n
    BY <1>1, FS_Interval
<1>5. s \in Surjection(1..n, S)
    BY <1>3, <1>4, FS_Injection, Zenon
<1>6. QED
    BY <1>1, <1>2, <1>5, SMTT(30), Z3T(30) DEF Surjection

-----------------------------------------------------------------------------
(* The operations of sentPacketHistory keep its counters and its pointer    *)

\* Sets of packets are finite.
LEMMA PacketsFinite ==
    ASSUME NEW S \in SUBSET (1..MaxPn)
    PROVE  IsFiniteSet(S) /\ Cardinality(S) \in Nat
<1>1. IsFiniteSet(1..MaxPn)
    BY ConstantsAssumption, FS_Interval
<1>2. IsFiniteSet(S)
    BY <1>1, FS_Subset, Zenon
<1>3. QED
    BY <1>2, FS_CardinalityType, ZenonT(30)

\* The cardinality of what is left of a set of packets.
LEMMA CardinalityMinus ==
    ASSUME NEW S \in SUBSET (1..MaxPn), NEW T \in SUBSET S
    PROVE  /\ Cardinality(T) \in Nat
           /\ Cardinality(T) = Cardinality(S) - Cardinality(S \ T)
<1>1. IsFiniteSet(S) /\ Cardinality(S) \in Nat /\ Cardinality(T) \in Nat
    BY PacketsFinite, ZenonT(30)
<1>2. Cardinality(S \ T) = Cardinality(S) - Cardinality(S \cap T)
    BY <1>1, FS_Difference, Zenon
<1>3. Cardinality(S \cap T) = Cardinality(T)
    <2>1. S \cap T = T
        BY Zenon
    <2>2. QED
        BY <2>1, ZenonT(30)
<1>4. QED
    BY <1>1, <1>2, <1>3, SMTT(30), Z3T(30)

\* The cardinality of two sets of packets that have nothing in common.
LEMMA DisjointUnion ==
    ASSUME NEW S \in SUBSET (1..MaxPn), NEW T \in SUBSET (1..MaxPn), S \cap T = {}
    PROVE  /\ Cardinality(S \cup T) \in Nat
           /\ Cardinality(S \cup T) = Cardinality(S) + Cardinality(T)
<1>1. /\ IsFiniteSet(S) /\ Cardinality(S) \in Nat
      /\ IsFiniteSet(T) /\ Cardinality(T) \in Nat
    BY PacketsFinite, ZenonT(30)
<1>2. Cardinality(S \cup T) =
        Cardinality(S) + Cardinality(T) - Cardinality(S \cap T)
    BY <1>1, FS_Union, ZenonT(30)
<1>3. Cardinality(S \cap T) = 0
    BY FS_EmptySet, Zenon
<1>4. QED
    BY <1>1, <1>2, <1>3, SMTT(30), Z3T(30)

\* MarkCannotBeRetransmitted and Remove adjust the counters and the pointer to
\* the packets that are left.
LEMMA ReplaceKeepsHistory ==
    ASSUME NEW h, HistType(h), Consistent(h),
           NEW pkts, pkts \in [DOMAIN pkts -> Packet],
           DOMAIN pkts \subseteq DOMAIN h.packets,
           \A p \in DOMAIN pkts : /\ pkts[p].enc = h.packets[p].enc
                                  /\ pkts[p].can => h.packets[p].can
    PROVE  LET new == ReplacePackets(h, pkts)
           IN  HistType(new) /\ Consistent(new) /\ new.packets = pkts
<1> DEFINE new == ReplacePackets(h, pkts)
           before == Outstanding(h.packets)
           after == Outstanding(pkts)
<1>1. /\ after \subseteq before /\ before \subseteq 1..MaxPn
      /\ after \subseteq DOMAIN pkts
    BY ZenonT(30) DEF Outstanding, HistType
<1>2. new = [packets |-> pkts, first |-> Readjust(h.first, pkts),
             num |-> h.num - Cardinality(before \ after),
             numHS |-> h.numHS - Cardinality(Handshake(h.packets, before \ after))]
    BY Zenon DEF ReplacePackets
<1>3. new.packets = pkts
    BY <1>2, SMTT(30), Z3T(30)
<1>4. new.num = Cardinality(after) /\ new.num \in Nat
    <2>1. new.num = h.num - Cardinality(before \ after)
        BY <1>2
    <2>2. h.num = Cardinality(before)
        BY ZenonT(30) DEF Consistent
    <2>3. QED
        BY <1>1, <2>1, <2>2, CardinalityMinus, SMTT(30), Z3T(30)
<1>5. new.numHS = Cardinality(Handshake(pkts, after)) /\ new.numHS \in Nat
    <2>1. new.numHS = h.numHS - Cardinality(Handshake(h.packets, before \ after))
        BY <1>2
    <2>2. h.numHS = Cardinality(Handshake(h.packets, before))
        BY ZenonT(30) DEF Consistent
    <2> DEFINE S == Handshake(h.packets, before)
               T == Handshake(pkts, after)
    <2>3. T \subseteq S /\ S \subseteq 1..MaxPn
        BY <1>1, ZenonT(30) DEF Handshake
    <2>4. Handshake(h.packets, before \ after) = S \ T
        BY <1>1, ZenonT(30) DEF Handshake
    <2>5. Cardinality(T) \in Nat /\ Cardinality(T) = Cardinality(S) - Cardinality(S \ T)
        <3> HIDE DEF S, T
        <3> QED
            BY <2>3, CardinalityMinus, Zenon
    <2>6. new.numHS = Cardinality(S) - Cardinality(S \ T)
        BY <2>1, <2>2, <2>4, Zenon
    <2>7. QED
        BY <2>5, <2>6, ZenonT(30)
<1>6. /\ new.first = IF after = {} THEN None ELSE Min(after)
      /\ new.first \in 0..MaxPn
    <2>1. new.first = Readjust(h.first, pkts)
        BY <1>2
    <2>2. h.first = IF before = {} THEN None ELSE Min(before)
        BY ZenonT(30) DEF Consistent
    <2>3. CASE after = {}
        BY <2>1, <2>3, ConstantsAssumption, SMTT(30), Z3T(30) DEF Readjust, None
    <2>4. CASE after # {}
        <3>1. before # {} /\ before \in SUBSET Nat /\ after \in SUBSET Nat
            BY <1>1, <2>4, SMTT(30), Z3T(30)
        <3>2. Min(before) \in before /\ \A y \in before : Min(before) <= y
            BY <3>1, MinIsSmallest, Zenon
        <3>3. Min(after) \in after
            BY <2>4, <3>1, MinIsSmallest, ZenonT(30)
        <3>4. h.first = Min(before) /\ h.first # None
            BY <2>2, <3>1, <3>2, <1>1, SMTT(30), Z3T(30) DEF None
        <3>5. {p \in after : p >= h.first} = after
            BY <1>1, <3>1, <3>2, <3>4, Zenon
        <3>6. Readjust(h.first, pkts) = Min(after)
            BY <2>4, <3>4, <3>5, ZenonT(30) DEF Readjust
        <3>7. Min(after) \in 0..MaxPn
            BY <1>1, <3>3, SMTT(30), Z3T(30)
        <3>8. QED
            BY <2>1, <2>4, <3>6, <3>7, ZenonT(60)
    <2>5. QED
        BY <2>3, <2>4, ZenonT(30)
<1>7. HistType(new)
    <2>1. DOMAIN pkts \subseteq 1..MaxPn
        BY ZenonT(30) DEF HistType
    <2>2. QED
        BY <1>2, <1>4, <1>5, <1>6, <2>1, SMTT(30), Z3T(30) DEF HistType
<1>8. Consistent(new)
    BY <1>3, <1>4, <1>5, <1>6, ZenonT(30) DEF Consistent
<1>9. QED
    BY <1>3, <1>7, <1>8, ZenonT(30)

\* What MarkCannotBeRetransmitted does.
LEMMA MarkKeepsHistory ==
    ASSUME NEW h, HistType(h), Consistent(h), NEW ps
    PROVE  LET new == MarkCannotBeRetransmitted(h, ps)
           IN  /\ HistType(new) /\ Consistent(new)
               /\ new.packets = [p \in DOMAIN h.packets |->
                                   [h.packets[p] EXCEPT !.can = @ /\ p \notin ps]]
<1> DEFINE pkts == [p \in DOMAIN h.packets |->
                      [h.packets[p] EXCEPT !.can = @ /\ p \notin ps]]
<1>1. \A p \in DOMAIN h.packets : h.packets[p] \in Packet
    BY Zenon DEF HistType
<1>2. \A p \in DOMAIN h.packets : /\ pkts[p] \in Packet
                                  /\ pkts[p].enc = h.packets[p].enc
                                  /\ pkts[p].can => h.packets[p].can
    BY <1>1, ZenonT(60) DEF Packet
<1>3. pkts \in [DOMAIN pkts -> Packet] /\ DOMAIN pkts = DOMAIN h.packets
    BY <1>2, Zenon
<1>4. MarkCannotBeRetransmitted(h, ps) = ReplacePackets(h, pkts)
    BY Zenon DEF MarkCannotBeRetransmitted
<1>5. QED
    <2> HIDE DEF pkts
    <2>1. LET new == ReplacePackets(h, pkts)
          IN  HistType(new) /\ Consistent(new) /\ new.packets = pkts
        BY <1>2, <1>3, ReplaceKeepsHistory, ZenonT(30)
    <2>2. QED
        BY <1>4, <2>1, ZenonT(30) DEF pkts

\* What Remove does.
LEMMA RemoveKeepsHistory ==
    ASSUME NEW h, HistType(h), Consistent(h), NEW ps
    PROVE  LET new == RemovePackets(h, ps)
           IN  /\ HistType(new) /\ Consistent(new)
               /\ new.packets = [p \in DOMAIN h.packets \ ps |-> h.packets[p]]
<1> DEFINE pkts == [p \in DOMAIN h.packets \ ps |-> h.packets[p]]
<1>1. \A p \in DOMAIN h.packets : h.packets[p] \in Packet
    BY Zenon DEF HistType
<1>2. \A p \in DOMAIN pkts : /\ pkts[p] \in Packet
                             /\ pkts[p].enc = h.packets[p].enc
                             /\ pkts[p].can => h.packets[p].can
    BY <1>1, ZenonT(30)
<1>3. /\ pkts \in [DOMAIN pkts -> Packet]
      /\ DOMAIN pkts \subseteq DOMAIN h.packets
    BY <1>1, ZenonT(30)
<1>4. RemovePackets(h, ps) = ReplacePackets(h, pkts)
    BY ZenonT(30) DEF RemovePackets
<1>5. QED
    <2> HIDE DEF pkts
    <2>1. LET new == ReplacePackets(h, pkts)
          IN  HistType(new) /\ Consistent(new) /\ new.packets = pkts
        BY <1>2, <1>3, ReplaceKeepsHistory, ZenonT(30)
    <2>2. QED
        BY <1>4, <2>1, Zenon DEF pkts

\* Links are no concern of the counters and the pointer.
LEMMA RelinkKeepsHistory ==
    ASSUME NEW h, HistType(h), Consistent(h),
           NEW pkts \in [DOMAIN h.packets -> Packet],
           \A p \in DOMAIN h.packets : /\ pkts[p].enc = h.packets[p].enc
                                       /\ pkts[p].can = h.packets[p].can
    PROVE  LET new == [h EXCEPT !.packets = pkts]
           IN  HistType(new) /\ Consistent(new) /\ new.packets = pkts
<1> DEFINE new == [h EXCEPT !.packets = pkts]
<1>1. /\ new = [packets |-> pkts, first |-> h.first, num |-> h.num, numHS |-> h.numHS]
      /\ new.packets = pkts /\ DOMAIN pkts = DOMAIN h.packets
    BY DEF HistType
<1>2. HistType(new)
    BY <1>1, Zenon DEF HistType
<1>3. Outstanding(pkts) = Outstanding(h.packets)
    BY <1>1, ZenonT(30) DEF Outstanding
<1>4. Handshake(pkts, Outstanding(pkts)) = Handshake(h.packets, Outstanding(h.packets))
    BY <1>1, <1>3, ZenonT(30) DEF Handshake, Outstanding
<1>5. Consistent(new)
    BY <1>1, <1>3, <1>4, ZenonT(30) DEF Consistent
<1>6. QED
    BY <1>1, <1>2, <1>5, ZenonT(30)

\* What sentPacketImpl adds to the history: younger packets, all outstanding.
LEMMA AddKeepsHistory ==
    ASSUME NEW h, HistType(h), Consistent(h),
           NEW N \in SUBSET (1..MaxPn), N # {}, NEW new \in [N -> Packet],
           \A p \in N : new[p].can,
           \A p \in N, q \in DOMAIN h.packets : q < p
    PROVE  LET all == AddPackets(h, new)
           IN  /\ HistType(all) /\ Consistent(all)
               /\ all.packets = [p \in DOMAIN h.packets \cup N |->
                                   IF p \in N THEN new[p] ELSE h.packets[p]]
<1> DEFINE D == DOMAIN h.packets
           pkts == [p \in D \cup N |-> IF p \in N THEN new[p] ELSE h.packets[p]]
           all == AddPackets(h, new)
           out == Outstanding(h.packets)
<1>1. /\ D \subseteq 1..MaxPn /\ out \subseteq D /\ D \cap N = {}
      /\ h.packets \in [D -> Packet]
      /\ h.first \in 0..MaxPn /\ h.num \in Nat /\ h.numHS \in Nat
    BY DEF HistType, Outstanding
<1>2. pkts \in [D \cup N -> Packet] /\ D \cup N \subseteq 1..MaxPn
    BY <1>1, Zenon
<1>3. all = [packets |-> pkts,
             first |-> IF h.first = None THEN Min(N) ELSE h.first,
             num |-> h.num + Cardinality(N),
             numHS |-> h.numHS + Cardinality(Handshake(new, N))]
    BY ZenonT(30) DEF AddPackets
<1>4. Outstanding(pkts) = out \cup N
    BY <1>1, Zenon DEF Outstanding
<1>5. Handshake(pkts, out \cup N) = Handshake(h.packets, out) \cup Handshake(new, N)
    BY <1>1, ZenonT(30) DEF Handshake
<1>6. /\ h.num = Cardinality(out)
      /\ h.numHS = Cardinality(Handshake(h.packets, out))
      /\ h.first = IF out = {} THEN None ELSE Min(out)
    BY ZenonT(30) DEF Consistent
<1>7. all.num = Cardinality(out \cup N) /\ all.num \in Nat
    <2>1. all.num = Cardinality(out) + Cardinality(N)
        BY <1>3, <1>6
    <2>2. out \cap N = {} /\ out \in SUBSET (1..MaxPn)
        BY <1>1, Zenon
    <2>3. QED
        BY <2>1, <2>2, DisjointUnion, ZenonT(60)
<1>8. /\ all.numHS = Cardinality(Handshake(pkts, out \cup N))
      /\ all.numHS \in Nat
    <2> DEFINE S == Handshake(h.packets, out)
               T == Handshake(new, N)
    <2>1. all.numHS = Cardinality(S) + Cardinality(T)
        BY <1>3, <1>6
    <2>2. S \in SUBSET (1..MaxPn) /\ T \in SUBSET (1..MaxPn) /\ S \cap T = {}
        BY <1>1, Zenon DEF Handshake
    <2>3. /\ Cardinality(S \cup T) = Cardinality(S) + Cardinality(T)
          /\ Cardinality(S \cup T) \in Nat
        <3> HIDE DEF S, T
        <3> QED
            BY <2>2, DisjointUnion, Zenon
    <2>4. QED
        BY <1>5, <2>1, <2>3, Zenon
<1>9. /\ all.first = IF out \cup N = {} THEN None ELSE Min(out \cup N)
      /\ all.first \in 0..MaxPn
    <2>1. N \in SUBSET Nat /\ out \in SUBSET Nat
        BY <1>1
    <2>2. Min(N) \in N
        BY <2>1, MinIsSmallest, Zenon
    <2>3. CASE out = {}
        <3>1. all.first = Min(N)
            BY <1>3, <1>6, <2>3, SMTT(30), Z3T(30)
        <3>2. out \cup N = N /\ out \cup N # {}
            BY <2>3, ZenonT(30)
        <3>3. Min(out \cup N) = Min(N)
            BY <3>2, ZenonT(30)
        <3>4. Min(N) \in 0..MaxPn
            <4>1. 1..MaxPn \subseteq 0..MaxPn
                BY ConstantsAssumption, SMTT(30), Z3T(30)
            <4>2. QED
                BY <2>2, <4>1, Zenon
        <3>5. QED
            BY <3>1, <3>2, <3>3, <3>4, ZenonT(30)
    <2>4. CASE out # {}
        <3>1. Min(out) \in out /\ \A y \in out : Min(out) <= y
            BY <2>1, <2>4, MinIsSmallest, ZenonT(30)
        <3>2. all.first = Min(out)
            BY <1>1, <1>3, <1>6, <2>4, <3>1, SMTT(30), Z3T(30) DEF None
        <3>3. out \cup N \in SUBSET Nat /\ out \cup N # {}
            BY <2>1, <2>4, Zenon
        <3>4. /\ Min(out \cup N) \in out \cup N
              /\ \A y \in out \cup N : Min(out \cup N) <= y
            BY <3>3, MinIsSmallest, ZenonT(30)
        <3>5. \A y \in out \cup N : Min(out) <= y
            <4>1. Min(out) \in DOMAIN h.packets /\ Min(out) \in Nat
                BY <1>1, <2>1, <3>1, ZenonT(30)
            <4>2. \A y \in N : Min(out) < y
                BY <4>1, ZenonT(30)
            <4>3. \A y \in N : Min(out) <= y
                <5> HIDE DEF out
                <5> QED
                    BY <2>1, <4>1, <4>2, SMTT(30), Z3T(30)
            <4>4. QED
                BY <3>1, <4>3, Zenon
        <3>6. Min(out \cup N) <= Min(out) /\ Min(out) <= Min(out \cup N)
            BY <3>1, <3>4, <3>5, ZenonT(30)
        <3>7. Min(out \cup N) = Min(out)
            <4>1. Min(out) \in Nat /\ Min(out \cup N) \in Nat
                BY <2>1, <3>1, <3>3, <3>4, ZenonT(30)
            <4>2. QED
                BY <3>6, <4>1, SMTT(30), Z3T(30)
        <3>8. QED
            BY <1>1, <3>1, <3>2, <3>3, <3>7, SMTT(30), Z3T(30)
    <2>5. QED
        BY <2>3, <2>4, ZenonT(30)
<1>10. HistType(all)
    BY <1>2, <1>3, <1>7, <1>8, <1>9, SMTT(30), Z3T(30) DEF HistType
<1>11. Consistent(all)
    <2>1. Outstanding(all.packets) = out \cup N /\ all.packets = pkts
        BY <1>3, <1>4, SMTT(30), Z3T(30)
    <2>2. QED
        BY <1>7, <1>8, <1>9, <2>1, ZenonT(30) DEF Consistent
<1>12. QED
    BY <1>3, <1>10, <1>11, SMTT(30), Z3T(30)

-----------------------------------------------------------------------------
(* Sending *)

\* The generator has passed every number that it has skipped.
LEMMA SkippedEarlier ==
    ASSUME NEW g, GenInv(g)
    PROVE  \A j \in DOMAIN g.skipped : g.skipped[j] < g.next /\ g.skipped[j] \in Nat
BY SMTT(30), Z3T(30) DEF GenInv

\* Appending a number to a sequence with gaps, and dropping its first one.
LEMMA GapsKept ==
    ASSUME NEW s \in Seq(Nat), NEW n \in Nat,
           \A i \in 1..Len(s) - 1 : s[i + 1] > s[i] + 1
    PROVE  /\ (\A i \in DOMAIN s : s[i] + 1 < n) =>
                \A i \in 1..Len(Append(s, n)) - 1 :
                    Append(s, n)[i + 1] > Append(s, n)[i] + 1
           /\ s # <<>> => \A i \in 1..Len(Tail(s)) - 1 : Tail(s)[i + 1] > Tail(s)[i] + 1
           /\ s # <<>> => \A i \in DOMAIN Tail(s) : \E j \in DOMAIN s : Tail(s)[i] = s[j]
<1>1. ASSUME \A i \in DOMAIN s : s[i] + 1 < n, NEW i \in 1..Len(Append(s, n)) - 1
      PROVE  Append(s, n)[i + 1] > Append(s, n)[i] + 1
    <2>1. i \in 1..Len(s) /\ Append(s, n)[i] = s[i] /\ i \in DOMAIN s
        OBVIOUS
    <2>2. CASE i = Len(s)
        <3>1. Append(s, n)[i + 1] = n
            BY <2>2, SMTT(30), Z3T(30)
        <3>2. QED
            BY <1>1, <2>1, <3>1, ZenonT(30)
    <2>3. CASE i < Len(s)
        <3>1. Append(s, n)[i + 1] = s[i + 1] /\ i \in 1..Len(s) - 1
            BY <2>1, <2>3, SMTT(30), Z3T(30)
        <3>2. QED
            BY <2>1, <3>1, ZenonT(30)
    <2>4. QED
        BY <2>1, <2>2, <2>3, SMTT(30), Z3T(30)
<1>2. ASSUME s # <<>>
      PROVE  /\ Len(Tail(s)) = Len(s) - 1
             /\ \A i \in 1..Len(s) - 1 : Tail(s)[i] = s[i + 1]
    BY <1>2
<1>3. ASSUME s # <<>>, NEW i \in 1..Len(Tail(s)) - 1
      PROVE  Tail(s)[i + 1] > Tail(s)[i] + 1
    <2>1. /\ i \in 1..Len(s) - 1 /\ i + 1 \in 1..Len(s) - 1
          /\ Tail(s)[i] = s[i + 1] /\ Tail(s)[i + 1] = s[i + 1 + 1]
        BY <1>2, <1>3, SMTT(30), Z3T(30)
    <2>2. QED
        BY <2>1, ZenonT(30)
<1>4. ASSUME s # <<>>, NEW i \in DOMAIN Tail(s)
      PROVE  \E j \in DOMAIN s : Tail(s)[i] = s[j]
    <2>1. i + 1 \in DOMAIN s /\ Tail(s)[i] = s[i + 1]
        BY <1>2, <1>4, SMTT(30), Z3T(30)
    <2>2. QED
        BY <2>1, ZenonT(30)
<1>5. QED
    BY <1>1, <1>3, <1>4, Zenon

\* Pop keeps its promises, and the number it returned is never skipped.
LEMMA PopKeepsGen ==
    ASSUME NEW g, GenInv(g), NEW skip \in SkipOffsets
    PROVE  LET new == Pop(g, skip)
           IN  /\ GenInv(new) /\ new.next > g.next
               /\ \A i \in DOMAIN new.skipped :
                     \/ new.skipped[i] > g.next
                     \/ \E j \in DOMAIN g.skipped : new.skipped[i] = g.skipped[j]
<1> DEFINE n == g.next + 1
           s == g.skipped
           kept == IF Len(s) + 1 > MaxTrackedSkipped THEN Tail(s) ELSE s
           new == Pop(g, skip)
<1>1. /\ g.next \in Nat \ {0} /\ g.nextToSkip \in Nat /\ s \in Seq(Nat)
      /\ n \in Nat /\ skip \in Nat /\ g.next < g.nextToSkip
      /\ \A i \in DOMAIN s : s[i] < g.next /\ s[i] + 1 < g.nextToSkip
      /\ \A i \in 1..Len(s) - 1 : s[i + 1] > s[i] + 1
    BY ConstantsAssumption, SMTT(30), Z3T(30) DEF GenInv
<1>2. CASE n # g.nextToSkip
    <2>1. /\ new = [g EXCEPT !.next = n] /\ new.next = n
          /\ new.nextToSkip = g.nextToSkip /\ new.skipped = g.skipped
        BY <1>2, ZenonT(30) DEF Pop, GenInv
    <2>2. QED
        BY <1>1, <1>2, <2>1, SMTT(30), Z3T(30) DEF GenInv
<1>3. CASE n = g.nextToSkip
    <2>1. new = [next |-> n + 1, nextToSkip |-> n + 3 + skip, skipped |-> Append(kept, n)]
        BY <1>3, ZenonT(30) DEF Pop
    <2>2. /\ kept \in Seq(Nat)
          /\ \A i \in DOMAIN kept : \E j \in DOMAIN s : kept[i] = s[j]
          /\ \A i \in 1..Len(kept) - 1 : kept[i + 1] > kept[i] + 1
        <3> HIDE DEF s
        <3>1. CASE Len(s) + 1 > MaxTrackedSkipped
            <4>1. s # <<>>
                BY <1>1, <3>1, ConstantsAssumption, SMTT(30), Z3T(30)
            <4>2. kept = Tail(s) /\ Tail(s) \in Seq(Nat)
                BY <1>1, <3>1, <4>1, SMTT(30), Z3T(30)
            <4>3. QED
                BY <1>1, <4>1, <4>2, GapsKept, Zenon
        <3>2. CASE ~(Len(s) + 1 > MaxTrackedSkipped)
            BY <1>1, <3>2, ZenonT(30)
        <3>3. QED
            BY <3>1, <3>2, Zenon
    <2> HIDE DEF kept
    <2> DEFINE t == Append(kept, n)
    <2>3. /\ new = [next |-> n + 1, nextToSkip |-> n + 3 + skip, skipped |-> t]
          /\ new.next = n + 1 /\ new.nextToSkip = n + 3 + skip /\ new.skipped = t
        BY <2>1
    <2>4. \A i \in DOMAIN kept : kept[i] < g.next /\ kept[i] + 1 < n
        BY <1>1, <1>3, <2>2, ZenonT(30)
    <2>5. t \in Seq(Nat) /\ \A i \in 1..Len(t) - 1 : t[i + 1] > t[i] + 1
        BY <1>1, <2>2, <2>4, GapsKept, SMTT(30), Z3T(30)
    <2>6. \A i \in DOMAIN t : t[i] = n \/ \E j \in DOMAIN kept : t[i] = kept[j]
        BY <1>1, <2>2, SMTT(30), Z3T(30)
    <2> HIDE DEF t, n, s, new
    <2>7. \A i \in DOMAIN t : t[i] < n + 1 /\ t[i] + 1 < n + 3 + skip
        <3> SUFFICES ASSUME NEW i \in DOMAIN t
                     PROVE  t[i] < n + 1 /\ t[i] + 1 < n + 3 + skip
            BY ZenonT(30)
        <3>1. CASE t[i] = n
            BY <1>1, <3>1, SMTT(30), Z3T(30)
        <3>2. CASE \E j \in DOMAIN kept : t[i] = kept[j]
            <4>1. PICK j \in DOMAIN kept : t[i] = kept[j]
                BY <3>2, ZenonT(30)
            <4>2. kept[j] \in Nat /\ kept[j] + 1 < n
                BY <2>2, <2>4, SMTT(30), Z3T(30)
            <4>3. QED
                BY <1>1, <4>1, <4>2, SMTT(30), Z3T(30)
        <3>3. QED
            BY <2>6, <3>1, <3>2, ZenonT(60)
    <2>8. GenInv(new)
        <3>1. n + 1 \in Nat \ {0} /\ n + 3 + skip \in Nat /\ n + 1 < n + 3 + skip
            BY <1>1
        <3>2. QED
            BY <2>3, <2>5, <2>7, <3>1, ZenonT(30) DEF GenInv
    <2>9. \A i \in DOMAIN t : t[i] > g.next \/ \E j \in DOMAIN s : t[i] = s[j]
        <3>1. n > g.next
            BY <1>1 DEF n
        <3>2. QED
            BY <2>2, <2>6, <3>1, ZenonT(60)
    <2>10. new.next > g.next
        BY <1>1, <2>3, SMTT(30), Z3T(30) DEF n
    <2>11. QED
        BY <2>3, <2>8, <2>9, <2>10, ZenonT(30) DEF new, s
<1>4. QED
    BY <1>2, <1>3, ZenonT(30)

\* Numbers up to the one that Pop returned stay unskipped.
LEMMA StillUnskipped ==
    ASSUME NEW g, GenInv(g), NEW new, GenInv(new),
           \A i \in DOMAIN new.skipped :
               \/ new.skipped[i] > g.next
               \/ \E j \in DOMAIN g.skipped : new.skipped[i] = g.skipped[j],
           NEW pkts, Unskipped(pkts, g), NEW after,
           \A p \in DOMAIN after : \/ p = g.next
                                   \/ p \in DOMAIN pkts /\ p \in Nat /\ p < g.next
    PROVE  Unskipped(after, new)
<1> SUFFICES ASSUME NEW p \in DOMAIN after, NEW i \in DOMAIN new.skipped
             PROVE  new.skipped[i] # p
    BY ZenonT(30) DEF Unskipped
<1>1. new.skipped[i] \in Nat /\ g.next \in Nat
    BY SMTT(30), Z3T(30) DEF GenInv
<1>2. CASE new.skipped[i] > g.next
    BY <1>1, <1>2, SMTT(30), Z3T(30)
<1>3. CASE \E j \in DOMAIN g.skipped : new.skipped[i] = g.skipped[j]
    <2>1. PICK j \in DOMAIN g.skipped : new.skipped[i] = g.skipped[j]
        BY <1>3, ZenonT(30)
    <2>2. g.skipped[j] < g.next
        BY ZenonT(30) DEF GenInv
    <2>3. QED
        BY <1>1, <2>1, <2>2, SMTT(30), Z3T(30) DEF Unskipped
<1>4. QED
    BY <1>2, <1>3, ZenonT(30)

\* The larger of two integers.
LEMMA MaxOfTwo ==
    ASSUME NEW a \in Int, NEW b \in Int
    PROVE  Max({a, b}) \in {a, b} /\ Max({a, b}) >= a /\ Max({a, b}) >= b
<1>1. \E x \in {a, b} : \A y \in {a, b} : x >= y
    OBVIOUS
<1>2. QED
    BY <1>1, ZenonT(30) DEF Max

\* updateLossDetectionAlarm arms the alarm while packets are outstanding.
LEMMA AlarmSet ==
    ASSUME HistType(hist'), alarm' = UpdateLossDetectionAlarm(hist'.num)
    PROVE  alarm' \in BOOLEAN /\ AlarmArmed'
<1>1. hist'.num \in Nat
    BY ZenonT(30) DEF HistType
<1>2. \A n \in Nat : /\ UpdateLossDetectionAlarm(n) \in BOOLEAN
                     /\ n > 0 => UpdateLossDetectionAlarm(n)
    BY SMTT(30), Z3T(30) DEF UpdateLossDetectionAlarm
<1>3. QED
    BY <1>1, <1>2, Zenon DEF AlarmArmed

\* The packets a and b (or the one packet a = b) may be sent after those of h.
Sendable(h, new, a, b) ==
    /\ HistType(h) /\ Consistent(h)
    /\ a \in Nat \ {0} /\ b \in Nat \ {0}
    /\ \A p \in DOMAIN h.packets : p < a /\ p < b
    /\ DOMAIN new = {a, b} /\ \A p \in {a, b} : new[p].can
    /\ a <= MaxPn /\ b <= MaxPn => new \in [{a, b} -> Packet]

\* What sentPacketImpl leaves behind when it is called for the packets a and b.
LEMMA SentPacketImplOK ==
    ASSUME NEW h, NEW new, NEW a, NEW b, NEW g, numRTOs \in Nat,
           Sendable(h, new, a, b), SentPacketImpl(h, new, g)
    PROVE  /\ HistType(hist') /\ Consistent(hist') /\ hist' = AddPackets(h, new)
           /\ lastSent' \in {a, b} /\ a <= MaxPn /\ b <= MaxPn
           /\ gen' = g /\ numRTOs' \in Nat /\ allowTLP' = FALSE
           /\ alarm' \in BOOLEAN /\ AlarmArmed'
<1> USE DEF Sendable
<1>1. /\ Max({a, b}) <= MaxPn /\ gen' = g /\ lastSent' = Max({a, b})
      /\ hist' = AddPackets(h, new)
      /\ numRTOs' = Max({0, numRTOs - Cardinality({a, b})})
      /\ allowTLP' = FALSE /\ alarm' = UpdateLossDetectionAlarm(hist'.num)
    BY ZenonT(30) DEF SentPacketImpl
<1>2. a <= MaxPn /\ b <= MaxPn /\ lastSent' \in {a, b}
    <2>1. Max({a, b}) \in {a, b} /\ Max({a, b}) >= a /\ Max({a, b}) >= b
        <3>1. a \in Int /\ b \in Int
            BY SMTT(30), Z3T(30)
        <3>2. QED
            BY <3>1, MaxOfTwo, ZenonT(60)
    <2>2. QED
        BY <1>1, <2>1, ConstantsAssumption, SMTT(30), Z3T(30)
<1>3. {a, b} \in SUBSET (1..MaxPn) /\ {a, b} # {}
    BY <1>2, ConstantsAssumption, SMTT(30), Z3T(30)
<1>4. numRTOs' \in Nat
    <2>1. Cardinality({a, b}) \in Nat
        BY <1>3, PacketsFinite, ZenonT(30)
    <2>2. 0 \in Int /\ numRTOs - Cardinality({a, b}) \in Int
        BY <2>1, SMTT(30), Z3T(30)
    <2>3. /\ numRTOs' \in {0, numRTOs - Cardinality({a, b})}
          /\ numRTOs' >= 0
        BY <1>1, <2>2, MaxOfTwo, ZenonT(60)
    <2>4. QED
        BY <2>2, <2>3, SMTT(30), Z3T(30)
<1>5. new \in [{a, b} -> Packet]
    BY <1>2, ZenonT(30)
<1>6. LET all == AddPackets(h, new)
      IN  /\ HistType(all) /\ Consistent(all)
          /\ all.packets = [p \in DOMAIN h.packets \cup {a, b} |->
                              IF p \in {a, b} THEN new[p] ELSE h.packets[p]]
    BY <1>3, <1>5, AddKeepsHistory, SMTT(30), Z3T(30)
<1>7. alarm' \in BOOLEAN /\ AlarmArmed'
    BY <1>1, <1>6, AlarmSet, ZenonT(30)
<1>8. QED
    BY <1>1, <1>2, <1>4, <1>6, <1>7, ZenonT(30)

\* Packings distributes the frames of a packet over one or two packets.
LEMMA PackingsCover ==
    ASSUME NEW q \in QEntry, NEW parts \in Packings(q)
    PROVE  /\ Len(parts) \in {1, 2}
           /\ parts[1] \in (SUBSET q.data) \ {{}}
           /\ Len(parts) = 1 => parts[1] = q.data
           /\ Len(parts) = 2 => /\ parts[2] \in (SUBSET q.data) \ {{}}
                                /\ parts[1] \cup parts[2] = q.data
<1>1. q.data # {}
    BY ZenonT(30) DEF QEntry
<1>2. CASE parts = <<q.data>>
    BY <1>1, <1>2, SMTT(30), Z3T(30)
<1>3. CASE \E d \in (SUBSET q.data) \ {{}, q.data} : parts = <<d, q.data \ d>>
    <2>1. PICK d \in (SUBSET q.data) \ {{}, q.data} : parts = <<d, q.data \ d>>
        BY <1>3, ZenonT(30)
    <2>2. q.data \ d # {} /\ d \cup (q.data \ d) = q.data
        BY ZenonT(30)
    <2>3. Len(parts) = 2 /\ parts[1] = d /\ parts[2] = q.data \ d
        BY <2>1, ZenonT(30)
    <2>4. QED
        BY <2>2, <2>3, ZenonT(30)
<1>4. QED
    BY <1>2, <1>3, ZenonT(30) DEF Packings

\* A packet of the history, made of its fields.
LEMMA PacketMade ==
    ASSUME NEW e \in Levels, NEW l \in Lengths, NEW d \in (SUBSET Frames) \ {{}},
           NEW r \in 0..MaxPn
    PROVE  [enc |-> e, len |-> l, data |-> d, can |-> TRUE, rAs |-> {}, rOf |-> r] \in Packet
BY SMTT(30), Z3T(30) DEF Packet

\* A retransmission of q: its frames are outstanding again, and the rest of the
\* history stays as it was.
LEMMA RetransmissionOK ==
    ASSUME GenInv(gen), numRTOs \in Nat,
           NEW h, HistInv(h, gen.next), Unskipped(h.packets, gen),
           NEW q \in QEntry, q.pn < gen.next,
           q.pn \in DOMAIN h.packets =>
             /\ q.data = h.packets[q.pn].data
             /\ q.enc = h.packets[q.pn].enc,
           NEW skip \in SkipOffsets, SendRetransmission(h, q, skip)
    PROVE  /\ GenInv(gen') /\ gen'.next > gen.next /\ lastSent' < gen'.next
           /\ HistInv(hist', gen'.next) /\ Unskipped(hist'.packets, gen')
           /\ \A p \in DOMAIN hist'.packets \ DOMAIN h.packets : p >= gen.next
           /\ DOMAIN h.packets \subseteq DOMAIN hist'.packets
           /\ \A p \in DOMAIN h.packets :
                 /\ hist'.packets[p].can = h.packets[p].can
                 /\ hist'.packets[p].data = h.packets[p].data
                 /\ hist'.packets[p].enc = h.packets[p].enc
           /\ \A f \in q.data : \E p \in Outstanding(hist'.packets) :
                                    f \in hist'.packets[p].data
           /\ lastSent' \in 0..MaxPn /\ numRTOs' \in Nat /\ allowTLP' = FALSE
           /\ alarm' \in BOOLEAN /\ AlarmArmed'
<1> DEFINE D == DOMAIN h.packets
           first == gen.next
           g1 == Pop(gen, skip)
<1>1. PICK parts \in Packings(q) :
        LET second == g1.next
            g == IF Len(parts) = 2 THEN Pop(g1, skip) ELSE g1
            pns == IF Len(parts) = 2 THEN {first, second} ELSE {first}
            known == q.pn \in DOMAIN h.packets
            linked == IF known THEN [h EXCEPT !.packets[q.pn].rAs = pns] ELSE h
        IN  \E len \in [pns -> Lengths] :
                SentPacketImpl(linked,
                    [p \in pns |->
                       [enc |-> q.enc, len |-> len[p],
                        data |-> IF p = first THEN parts[1] ELSE parts[2],
                        can |-> TRUE, rAs |-> {},
                        rOf |-> IF known THEN q.pn ELSE None]],
                    g)
    BY Zenon DEF SendRetransmission
<1> DEFINE last == IF Len(parts) = 2 THEN g1.next ELSE first
           g == IF Len(parts) = 2 THEN Pop(g1, skip) ELSE g1
           pns == {first, last}
           known == q.pn \in D
           linked == IF known THEN [h EXCEPT !.packets[q.pn].rAs = pns] ELSE h
<1>2. PICK len \in [pns -> Lengths] :
        SentPacketImpl(linked,
            [p \in pns |->
               [enc |-> q.enc, len |-> len[p],
                data |-> IF p = first THEN parts[1] ELSE parts[2],
                can |-> TRUE, rAs |-> {},
                rOf |-> IF known THEN q.pn ELSE None]],
            g)
    <2>1. pns = IF Len(parts) = 2 THEN {first, g1.next} ELSE {first}
        BY ZenonT(30)
    <2>2. QED
        BY <1>1, <2>1, ZenonT(60)
<1> DEFINE new == [p \in pns |->
                     [enc |-> q.enc, len |-> len[p],
                      data |-> IF p = first THEN parts[1] ELSE parts[2],
                      can |-> TRUE, rAs |-> {},
                      rOf |-> IF known THEN q.pn ELSE None]]
<1>3. /\ Len(parts) \in {1, 2}
      /\ parts[1] \in (SUBSET q.data) \ {{}}
      /\ Len(parts) = 1 => parts[1] = q.data
      /\ Len(parts) = 2 => /\ parts[2] \in (SUBSET q.data) \ {{}}
                           /\ parts[1] \cup parts[2] = q.data
    BY PackingsCover, ZenonT(30)
<1>4. /\ GenInv(g1) /\ g1.next > first
      /\ \A i \in DOMAIN g1.skipped :
            \/ g1.skipped[i] > first
            \/ \E j \in DOMAIN gen.skipped : g1.skipped[i] = gen.skipped[j]
    BY PopKeepsGen, SMTT(60), Z3T(60)
<1>5. first \in Nat \ {0} /\ g1.next \in Nat \ {0} /\ last \in Nat \ {0} /\ first <= last
    BY <1>4, SMTT(30), Z3T(30) DEF GenInv
<1>6. /\ GenInv(g) /\ g.next > last
      /\ \A i \in DOMAIN g.skipped :
            \/ g.skipped[i] > last
            \/ \E j \in DOMAIN g1.skipped : g.skipped[i] = g1.skipped[j]
    <2>1. CASE Len(parts) = 2
        BY <1>4, <2>1, PopKeepsGen, SMTT(60), Z3T(60)
    <2>2. CASE Len(parts) # 2
        BY <1>4, <2>2, ZenonT(120)
    <2>3. QED
        BY <2>1, <2>2, ZenonT(60)

<1>7. first <= MaxPn /\ last <= MaxPn /\ pns \subseteq 1..MaxPn
    <2>1. Max(pns) <= MaxPn
        BY <1>2, ZenonT(30) DEF SentPacketImpl
    <2>2. Max(pns) >= first /\ Max(pns) >= last /\ Max(pns) \in {first, last}
        <3>1. first \in Int /\ last \in Int
            BY <1>5, SMTT(30), Z3T(30)
        <3> HIDE DEF first, last
        <3>2. QED
            BY <3>1, MaxOfTwo, ZenonT(60)
    <2>3. QED
        BY <1>5, <2>1, <2>2, ConstantsAssumption, SMTT(60), Z3T(60)
<1>8. /\ HistType(h) /\ Consistent(h) /\ LinksOK(h.packets)
      /\ D \subseteq 1..MaxPn /\ \A p \in D : p < first /\ h.packets[p] \in Packet
    BY Zenon DEF HistInv, HistType
<1>9. /\ HistType(linked) /\ Consistent(linked) /\ DOMAIN linked.packets = D
      /\ \A p \in D : linked.packets[p] = IF p = q.pn
                                          THEN [h.packets[p] EXCEPT !.rAs = pns]
                                          ELSE h.packets[p]
    <2>1. CASE ~known
        BY <1>8, <2>1, ZenonT(30)
    <2>2. CASE known
        <3> DEFINE pkts == [h.packets EXCEPT ![q.pn].rAs = pns]
        <3> HIDE DEF pns, first, last
        <3>1. [h.packets[q.pn] EXCEPT !.rAs = pns] \in Packet
            BY <1>7, <1>8, <2>2, SMTT(30), Z3T(30) DEF Packet
        <3>2. /\ pkts \in [D -> Packet] /\ DOMAIN pkts = D
              /\ \A p \in D : pkts[p] = IF p = q.pn
                                        THEN [h.packets[p] EXCEPT !.rAs = pns]
                                        ELSE h.packets[p]
            BY <1>8, <2>2, <3>1, ZenonT(120) DEF HistType
        <3>3. \A p \in D : pkts[p].enc = h.packets[p].enc /\ pkts[p].can = h.packets[p].can
            BY <1>8, <3>2, SMTT(30), Z3T(30) DEF Packet
        <3>4. linked = [h EXCEPT !.packets = pkts]
            BY <1>8, <2>2, ZenonT(30) DEF HistType
        <3> HIDE DEF pkts, linked
        <3>5. HistType(linked) /\ Consistent(linked) /\ linked.packets = pkts
            BY <1>8, <3>2, <3>3, <3>4, RelinkKeepsHistory, SMTT(30), Z3T(30)
        <3>6. QED
            BY <3>2, <3>5, ZenonT(30)
    <2>3. QED
        BY <2>1, <2>2, ZenonT(30)
<1>10. /\ new \in [pns -> Packet] /\ DOMAIN new = pns
       /\ \A p \in pns : /\ new[p].can /\ new[p].rAs = {}
                         /\ new[p].enc = q.enc /\ new[p].rOf = IF known THEN q.pn ELSE None
                         /\ new[p].data \subseteq q.data
       /\ new[first].data = parts[1]
       /\ Len(parts) = 2 => new[last].data = parts[2]
    <2>1. q.pn \in 1..MaxPn /\ q.enc \in Levels /\ q.data \in (SUBSET Frames) \ {{}}
        BY ZenonT(30) DEF QEntry
    <2>2. 0 \in 0..MaxPn /\ 1..MaxPn \subseteq 0..MaxPn
        BY ConstantsAssumption, SMTT(60), Z3T(60)
    <2>3. \A p \in pns : Len(parts) = 2 \/ p = first
        BY ZenonT(60)
    <2>4. Len(parts) = 2 => last # first
        BY <1>4, <1>5, SMTT(60), Z3T(60)
    <2>5. \A p \in pns : new[p] \in Packet
        <3> SUFFICES ASSUME NEW p \in pns
                     PROVE  new[p] \in Packet
            BY ZenonT(60)
        <3> DEFINE d == IF p = first THEN parts[1] ELSE parts[2]
                   r == IF known THEN q.pn ELSE None
        <3>1. d \in (SUBSET Frames) \ {{}}
            BY <1>3, <2>1, <2>3, ZenonT(30)
        <3>2. r \in 0..MaxPn
            BY <2>1, <2>2, ZenonT(30) DEF None
        <3>3. len[p] \in Lengths
            BY ZenonT(30)
        <3>4. new[p] = [enc |-> q.enc, len |-> len[p], data |-> d, can |-> TRUE,
                        rAs |-> {}, rOf |-> r]
            BY ZenonT(30)
        <3> HIDE DEF d, r, new
        <3>5. [enc |-> q.enc, len |-> len[p], data |-> d, can |-> TRUE,
               rAs |-> {}, rOf |-> r] \in Packet
            BY <2>1, <3>1, <3>2, <3>3, PacketMade, SMTT(30), Z3T(30)
        <3>6. QED
            BY <3>4, <3>5, ZenonT(60)
    <2>6. QED
        BY <1>3, <2>3, <2>4, <2>5, ZenonT(60)
<1> HIDE DEF new, linked, pns, g, g1, known
<1>11. /\ HistType(hist') /\ Consistent(hist') /\ hist' = AddPackets(linked, new)
       /\ lastSent' \in {first, last}
       /\ gen' = g /\ numRTOs' \in Nat /\ allowTLP' = FALSE
       /\ alarm' \in BOOLEAN /\ AlarmArmed'
    <2>1. SentPacketImpl(linked, new, g)
        BY <1>2, ZenonT(60) DEF new
    <2>2. \A p \in DOMAIN linked.packets : p < first /\ p < last
        BY <1>5, <1>8, <1>9, SMTT(30), Z3T(30)
    <2>3. /\ DOMAIN new = {first, last} /\ new \in [{first, last} -> Packet]
          /\ \A p \in {first, last} : new[p].can
        BY <1>10, Zenon DEF pns
    <2>4. HistType(linked) /\ Consistent(linked)
        BY <1>9, ZenonT(30)
    <2>5. QED
        <3> HIDE DEF first, last
        <3>1. Sendable(linked, new, first, last)
            BY <1>5, <2>2, <2>3, <2>4, ZenonT(30) DEF Sendable
        <3>2. QED
            BY <2>1, <3>1, SentPacketImplOK, ZenonT(60)
<1>12. /\ DOMAIN hist'.packets = D \cup pns /\ D \cap pns = {}
       /\ \A p \in pns : hist'.packets[p] = new[p]
       /\ \A p \in D : hist'.packets[p] = IF p = q.pn
                                          THEN [h.packets[p] EXCEPT !.rAs = pns]
                                          ELSE h.packets[p]
    <2>1. D \cap pns = {}
        BY <1>5, <1>8, SMTT(60), Z3T(60) DEF pns
    <2>2. hist'.packets = [p \in DOMAIN linked.packets \cup DOMAIN new |->
                             IF p \in DOMAIN new THEN new[p] ELSE linked.packets[p]]
        BY <1>11, ZenonT(30) DEF AddPackets
    <2>3. DOMAIN hist'.packets = DOMAIN linked.packets \cup DOMAIN new
        BY <2>2, ZenonT(60)
    <2>4. /\ \A p \in DOMAIN new : hist'.packets[p] = new[p]
          /\ \A p \in DOMAIN linked.packets \ DOMAIN new : hist'.packets[p] = linked.packets[p]
        BY <2>2, ZenonT(30)
    <2> HIDE DEF D
    <2>5. DOMAIN linked.packets = D /\ DOMAIN new = pns
        BY <1>9, <1>10, ZenonT(60)
    <2>6. DOMAIN hist'.packets = D \cup pns /\ \A p \in pns : hist'.packets[p] = new[p]
        BY <2>3, <2>4, <2>5, ZenonT(60)
    <2>7. ASSUME NEW p \in D
          PROVE  hist'.packets[p] = IF p = q.pn THEN [h.packets[p] EXCEPT !.rAs = pns]
                                    ELSE h.packets[p]
        <3>1. p \in DOMAIN linked.packets \ DOMAIN new
            BY <2>1, <2>5, Zenon
        <3>2. hist'.packets[p] = linked.packets[p]
            BY <2>4, <3>1, Zenon
        <3>3. QED
            BY <1>9, <3>2, Zenon
    <2>8. QED
        BY <2>1, <2>6, <2>7, ZenonT(60)
<1>13. \A p \in D : /\ hist'.packets[p].can = h.packets[p].can
                    /\ hist'.packets[p].data = h.packets[p].data
                    /\ hist'.packets[p].enc = h.packets[p].enc
                    /\ hist'.packets[p].rOf = h.packets[p].rOf
                    /\ hist'.packets[p].rAs = IF p = q.pn THEN pns ELSE h.packets[p].rAs
    <2> SUFFICES ASSUME NEW p \in D
                 PROVE  /\ hist'.packets[p].can = h.packets[p].can
                        /\ hist'.packets[p].data = h.packets[p].data
                        /\ hist'.packets[p].enc = h.packets[p].enc
                        /\ hist'.packets[p].rOf = h.packets[p].rOf
                        /\ hist'.packets[p].rAs = IF p = q.pn THEN pns
                                                  ELSE h.packets[p].rAs
        BY ZenonT(30)
    <2>1. h.packets[p] \in Packet
        BY <1>8, ZenonT(30)
    <2>2. CASE p # q.pn
        BY <1>12, <2>2, ZenonT(60)
    <2>3. CASE p = q.pn
        <3>1. hist'.packets[p] = [h.packets[p] EXCEPT !.rAs = pns]
            BY <1>12, <2>3, ZenonT(30)
        <3>2. QED
            BY <2>1, <2>3, <3>1, ZenonT(30) DEF Packet
    <2>4. QED
        BY <2>2, <2>3, ZenonT(60)
<1>14. LinksOK(hist'.packets)
    <2> SUFFICES ASSUME NEW p \in DOMAIN hist'.packets, NEW r \in hist'.packets[p].rAs
                 PROVE  /\ r \in DOMAIN hist'.packets /\ r > p
                        /\ hist'.packets[r].rOf = p
                        /\ hist'.packets[r].enc = hist'.packets[p].enc
                        /\ hist'.packets[r].data \subseteq hist'.packets[p].data
        BY ZenonT(30) DEF LinksOK
    <2>1. p \in D
        BY <1>10, <1>12, ZenonT(30)
    <2>2. CASE p = q.pn
        <3>1. r \in pns /\ known
            BY <1>13, <2>1, <2>2, ZenonT(30) DEF known
        <3>2. r > p
            BY <1>5, <1>8, <2>1, <3>1, SMTT(60), Z3T(60) DEF pns
        <3>3. hist'.packets[r] = new[r] /\ r \in DOMAIN hist'.packets
            BY <1>12, <3>1, Zenon
        <3>4. new[r].enc = q.enc /\ new[r].rOf = q.pn /\ new[r].data \subseteq q.data
            BY <1>10, <3>1, Zenon
        <3>5. q.data = h.packets[q.pn].data /\ q.enc = h.packets[q.pn].enc
            BY <2>1, <2>2, ZenonT(60)
        <3>6. QED
            BY <1>13, <2>1, <2>2, <3>2, <3>3, <3>4, <3>5, ZenonT(30)
    <2>3. CASE p # q.pn
        <3>1. r \in h.packets[p].rAs
            BY <1>13, <2>1, <2>3, ZenonT(30)
        <3>2. /\ r \in D /\ r > p /\ h.packets[r].rOf = p
              /\ h.packets[r].enc = h.packets[p].enc
              /\ h.packets[r].data \subseteq h.packets[p].data
            BY <1>8, <2>1, <3>1, ZenonT(30) DEF LinksOK
        <3>3. QED
            BY <1>12, <1>13, <2>1, <3>2, SMTT(60), Z3T(60)
    <2>4. QED
        BY <2>2, <2>3, ZenonT(30)
<1>15. \A p \in DOMAIN hist'.packets : p < gen'.next
    <2>1. gen'.next = g.next /\ DOMAIN hist'.packets = D \cup {first, last}
        BY <1>11, <1>12, ZenonT(60) DEF pns
    <2>2. g.next \in Nat /\ g.next > last /\ \A p \in D : p \in Nat /\ p < first
        BY <1>6, <1>8, SMTT(30), Z3T(30) DEF GenInv
    <2> HIDE DEF D, first, last
    <2>3. QED
        BY <1>5, <2>1, <2>2, SMTT(30), Z3T(30)
<1>16. Unskipped(hist'.packets, gen')
    <2> SUFFICES ASSUME NEW p \in D \cup pns, NEW i \in DOMAIN g.skipped
                 PROVE  g.skipped[i] # p
        BY <1>11, <1>12, ZenonT(30) DEF Unskipped
    <2>1. \A j \in DOMAIN gen.skipped : gen.skipped[j] < first
        BY ZenonT(30) DEF GenInv
    <2>2. \A j \in DOMAIN gen.skipped, d \in D : gen.skipped[j] # d
        BY ZenonT(30) DEF Unskipped
    <2>3. \A j \in DOMAIN g1.skipped : g1.skipped[j] < g1.next /\ g1.skipped[j] # p
        <3> SUFFICES ASSUME NEW j \in DOMAIN g1.skipped
                     PROVE  g1.skipped[j] < g1.next /\ g1.skipped[j] # p
            BY ZenonT(30)
        <3>1. g1.skipped[j] < g1.next /\ g1.skipped[j] \in Nat
            BY <1>4, SkippedEarlier, ZenonT(30)
        <3>2. p \in D => p < first /\ p \in Nat
            BY <1>8, SMTT(30), Z3T(30)
        <3>3. p \in D \/ p = first \/ p = g1.next
            BY ZenonT(30) DEF pns
        <3>4. CASE g1.skipped[j] > first
            BY <1>5, <3>1, <3>2, <3>3, <3>4, SMTT(30), Z3T(30)
        <3>5. CASE \E i1 \in DOMAIN gen.skipped : g1.skipped[j] = gen.skipped[i1]
            BY <1>5, <2>1, <2>2, <3>1, <3>3, <3>5, SMTT(30), Z3T(30)
        <3>6. QED
            BY <1>4, <3>1, <3>4, <3>5, ZenonT(30)
    <2>4. QED
        BY <1>5, <1>6, <1>8, <2>3, SMTT(30), Z3T(30) DEF pns
<1>17. \A f \in q.data : \E p \in Outstanding(hist'.packets) : f \in hist'.packets[p].data
    <2>1. pns \subseteq Outstanding(hist'.packets)
        BY <1>10, <1>12, ZenonT(30) DEF Outstanding
    <2>2. first \in pns /\ last \in pns
        BY Zenon DEF pns
    <2>3. QED
        BY <1>3, <1>10, <1>12, <2>1, <2>2, SMTT(30), Z3T(30)
<1>18. \A p \in DOMAIN hist'.packets \ D : p >= gen.next
    BY <1>5, <1>12, SMTT(30), Z3T(30) DEF pns
<1>19. GenInv(gen') /\ gen'.next > gen.next /\ lastSent' < gen'.next /\ lastSent' \in 0..MaxPn
    <2>1. gen' = g /\ lastSent' \in {first, last} /\ first = gen.next
        BY <1>11, Zenon
    <2>2. g.next \in Nat
        BY <1>6, ZenonT(30) DEF GenInv
    <2>3. GenInv(g) /\ g.next > last
        BY <1>6, Zenon
    <2> HIDE DEF g, first, last
    <2>4. first \in 0..MaxPn /\ last \in 0..MaxPn /\ g.next > first
        BY <1>5, <1>7, <2>2, <2>3, ConstantsAssumption, SMTT(30), Z3T(30)
    <2>5. QED
        BY <2>1, <2>3, <2>4, Zenon
<1>20. QED
    BY <1>11, <1>12, <1>13, <1>14, <1>15, <1>16, <1>17, <1>18, <1>19, ZenonT(30) DEF HistInv

-----------------------------------------------------------------------------
(* The retransmission queue *)

\* The queue outlives changes of the history that make no old packet
\* outstanding again.
LEMMA QueueOver ==
    ASSUME NEW n \in Nat, NEW m \in Nat, n <= m,
           NEW q, NEW pkts, QueueInv(q, pkts, n), NEW after,
           \A p \in DOMAIN after :
               \/ p \in Nat /\ p >= n
               \/ /\ p \in DOMAIN pkts
                  /\ after[p].data = pkts[p].data
                  /\ after[p].enc = pkts[p].enc
                  /\ after[p].can => pkts[p].can
    PROVE  QueueInv(q, after, m)
<1>1. q \in Seq(QEntry)
    BY Zenon DEF QueueInv
<1>2. ASSUME NEW i \in DOMAIN q
      PROVE  /\ q[i].pn < m
             /\ q[i].pn \in DOMAIN after =>
                  /\ q[i].data = after[q[i].pn].data
                  /\ q[i].enc = after[q[i].pn].enc
             /\ q[i].pn \notin Outstanding(after)
    <2>1. q[i].pn \in Nat
        <3>1. q[i] \in QEntry
            BY <1>1, SMTT(30), Z3T(30)
        <3>2. QED
            BY <3>1, ConstantsAssumption, SMTT(30), Z3T(30) DEF QEntry
    <2>2. /\ q[i].pn < n
          /\ q[i].pn \in DOMAIN pkts =>
               /\ q[i].data = pkts[q[i].pn].data
               /\ q[i].enc = pkts[q[i].pn].enc
          /\ q[i].pn \notin Outstanding(pkts)
        BY ZenonT(60) DEF QueueInv
    <2>3. q[i].pn \in DOMAIN after =>
            /\ q[i].pn \in DOMAIN pkts
            /\ after[q[i].pn].data = pkts[q[i].pn].data
            /\ after[q[i].pn].enc = pkts[q[i].pn].enc
            /\ after[q[i].pn].can => pkts[q[i].pn].can
        BY <2>1, <2>2, SMTT(30), Z3T(30)
    <2>4. QED
        BY <2>1, <2>2, <2>3, SMTT(30), Z3T(30) DEF Outstanding
<1>3. \A i, j \in DOMAIN q : q[i].pn = q[j].pn => i = j
    BY Zenon DEF QueueInv
<1>4. QED
    BY <1>1, <1>2, <1>3, ZenonT(30) DEF QueueInv

\* Taking the first packet out of the queue.
LEMMA QueueTail ==
    ASSUME NEW q, NEW pkts, NEW n, QueueInv(q, pkts, n), q # <<>>
    PROVE  /\ QueueInv(Tail(q), pkts, n)
           /\ Head(q) \in QEntry /\ Head(q).pn < n
           /\ Head(q).pn \in DOMAIN pkts =>
                /\ Head(q).data = pkts[Head(q).pn].data
                /\ Head(q).enc = pkts[Head(q).pn].enc
           /\ \A i \in DOMAIN q : \/ q[i] = Head(q)
                                  \/ \E j \in DOMAIN Tail(q) : Tail(q)[j] = q[i]
<1>1. /\ q \in Seq(QEntry) /\ Len(q) > 0 /\ Head(q) = q[1] /\ 1 \in DOMAIN q
      /\ Tail(q) \in Seq(QEntry) /\ Len(Tail(q)) = Len(q) - 1
      /\ \A i \in DOMAIN Tail(q) : Tail(q)[i] = q[i + 1] /\ i + 1 \in DOMAIN q
    BY DEF QueueInv
<1>2. QueueInv(Tail(q), pkts, n)
    <2>1. \A i, j \in DOMAIN Tail(q) : Tail(q)[i].pn = Tail(q)[j].pn => i = j
        <3> SUFFICES ASSUME NEW i \in DOMAIN Tail(q), NEW j \in DOMAIN Tail(q),
                            Tail(q)[i].pn = Tail(q)[j].pn
                     PROVE  i = j
            BY Zenon
        <3>1. i + 1 = j + 1
            BY <1>1 DEF QueueInv
        <3>2. QED
            BY <1>1, <3>1
    <2>2. QED
        BY <1>1, <2>1 DEF QueueInv
<1>3. \A i \in DOMAIN q : q[i] = Head(q) \/ \E j \in DOMAIN Tail(q) : Tail(q)[j] = q[i]
    <2> SUFFICES ASSUME NEW i \in DOMAIN q, i # 1
                 PROVE  \E j \in DOMAIN Tail(q) : Tail(q)[j] = q[i]
        BY <1>1, Zenon
    <2>1. i - 1 \in DOMAIN Tail(q) /\ Tail(q)[i - 1] = q[i]
        BY <1>1, SMTT(30), Z3T(30)
    <2>2. QED
        BY <2>1, Zenon
<1>4. Head(q) \in QEntry
    BY <1>1, SMTT(30), Z3T(30)
<1>5. QED
    BY <1>1, <1>2, <1>3, <1>4, ZenonT(60) DEF QueueInv

\* Queueing packets that were outstanding and are so no longer.
LEMMA QueueMore ==
    ASSUME NEW n \in Nat, NEW q, NEW pkts, QueueInv(q, pkts, n),
           DOMAIN pkts \subseteq 1..MaxPn, pkts \in [DOMAIN pkts -> Packet],
           \A p \in DOMAIN pkts : p < n,
           NEW ps \in SUBSET Outstanding(pkts), NEW s \in Queued(pkts, ps),
           NEW after, DOMAIN after \subseteq DOMAIN pkts,
           \A p \in DOMAIN after : /\ after[p].data = pkts[p].data
                                   /\ after[p].enc = pkts[p].enc
                                   /\ after[p].can => pkts[p].can /\ p \notin ps
    PROVE  /\ QueueInv(q \o s, after, n)
           /\ \A i \in DOMAIN q : \E j \in DOMAIN (q \o s) : (q \o s)[j] = q[i]
           /\ \A p \in ps : \E j \in DOMAIN (q \o s) : (q \o s)[j].data = pkts[p].data
<1>1. PICK t \in Ascending(ps) : s = [i \in DOMAIN t |-> QueueEntry(pkts, t[i])]
    BY Zenon DEF Queued
<1>2. ps \subseteq DOMAIN pkts /\ ps \in SUBSET Nat /\ IsFiniteSet(ps)
    <2>1. ps \subseteq DOMAIN pkts /\ ps \in SUBSET (1..MaxPn)
        BY ZenonT(30) DEF Outstanding
    <2>2. QED
        BY <2>1, PacketsFinite, SMTT(30), Z3T(30)
<1>3. /\ t \in Seq(ps)
      /\ \A i, j \in DOMAIN t : t[i] = t[j] => i = j
      /\ \A x \in ps : \E i \in DOMAIN t : t[i] = x
    BY <1>2, AscendingProps, SMTT(30), Z3T(30)
<1>4. \A p \in ps : /\ QueueEntry(pkts, p) \in QEntry
                    /\ QueueEntry(pkts, p).pn = p
                    /\ QueueEntry(pkts, p).data = pkts[p].data
                    /\ QueueEntry(pkts, p).enc = pkts[p].enc
    BY <1>2, ZenonT(30) DEF QueueEntry, QEntry, Packet
<1>5. /\ s \in Seq(QEntry) /\ DOMAIN s = DOMAIN t
      /\ \A i \in DOMAIN s : /\ t[i] \in ps /\ s[i].pn = t[i]
                             /\ s[i].data = pkts[t[i]].data
                             /\ s[i].enc = pkts[t[i]].enc
    BY <1>1, <1>3, <1>4, SMTT(30), Z3T(30)
<1>6. QueueInv(q, after, n)
    BY QueueOver, SMTT(30), Z3T(30)
<1>7. QueueInv(s, after, n)
    BY <1>2, <1>3, <1>5, SMTT(30), Z3T(30) DEF QueueInv, Outstanding
<1>8. \A i \in DOMAIN q, j \in DOMAIN s : q[i].pn # s[j].pn
    BY <1>5, SMTT(30), Z3T(30) DEF QueueInv
<1>9. /\ q \in Seq(QEntry) /\ q \o s \in Seq(QEntry)
      /\ \A k \in DOMAIN (q \o s) :
            \/ k \in DOMAIN q /\ (q \o s)[k] = q[k]
            \/ k - Len(q) \in DOMAIN s /\ (q \o s)[k] = s[k - Len(q)]
    BY <1>5, SMTT(30), Z3T(30) DEF QueueInv
<1>10. /\ \A i \in DOMAIN q : i \in DOMAIN (q \o s) /\ (q \o s)[i] = q[i]
       /\ \A i \in DOMAIN s : Len(q) + i \in DOMAIN (q \o s) /\ (q \o s)[Len(q) + i] = s[i]
    BY <1>5, <1>9, SMTT(60), Z3T(60)
<1>11. QueueInv(q \o s, after, n)
    <2> DEFINE r == q \o s
    <2>1. \A k \in DOMAIN r : \/ \E i \in DOMAIN q : r[k] = q[i]
                              \/ \E i \in DOMAIN s : r[k] = s[i]
        BY <1>9, ZenonT(30)
    <2>2. \A k \in DOMAIN r :
            /\ r[k].pn < n
            /\ r[k].pn \in DOMAIN after =>
                 /\ r[k].data = after[r[k].pn].data
                 /\ r[k].enc = after[r[k].pn].enc
            /\ r[k].pn \notin Outstanding(after)
        <3> HIDE DEF r
        <3> QED
            BY <1>6, <1>7, <2>1, SMTT(30), Z3T(30) DEF QueueInv
    <2>3. \A k, l \in DOMAIN r : r[k].pn = r[l].pn => k = l
        <3> SUFFICES ASSUME NEW k \in DOMAIN r, NEW l \in DOMAIN r, r[k].pn = r[l].pn
                     PROVE  k = l
            BY ZenonT(30)
        <3>1. CASE k \in DOMAIN q /\ r[k] = q[k] /\ l \in DOMAIN q /\ r[l] = q[l]
            BY <1>6, <3>1, SMTT(30), Z3T(30) DEF QueueInv
        <3>2. CASE /\ k - Len(q) \in DOMAIN s /\ r[k] = s[k - Len(q)]
                   /\ l - Len(q) \in DOMAIN s /\ r[l] = s[l - Len(q)]
            <4>1. k - Len(q) = l - Len(q)
                BY <1>7, <3>2, SMTT(30), Z3T(30) DEF QueueInv
            <4>2. QED
                BY <1>9, <4>1, SMTT(60), Z3T(60)
        <3>3. QED
            BY <1>8, <1>9, <3>1, <3>2, SMTT(60), Z3T(60)
    <2>4. QED
        BY <1>9, <2>2, <2>3, ZenonT(30) DEF QueueInv
<1>12. QED
    <2>1. \A p \in ps : \E j \in DOMAIN (q \o s) : (q \o s)[j].data = pkts[p].data
        <3> SUFFICES ASSUME NEW p \in ps
                     PROVE  \E j \in DOMAIN (q \o s) : (q \o s)[j].data = pkts[p].data
            BY ZenonT(30)
        <3>1. PICK i \in DOMAIN s : t[i] = p
            BY <1>3, <1>5, ZenonT(30)
        <3>2. s[i].data = pkts[p].data
            BY <1>5, <3>1, ZenonT(30)
        <3>3. Len(q) + i \in DOMAIN (q \o s) /\ (q \o s)[Len(q) + i] = s[i]
            BY <1>10, ZenonT(30)
        <3>4. QED
            BY <3>2, <3>3, ZenonT(30)
    <2>2. QED
        BY <1>10, <1>11, <2>1, ZenonT(30)

=============================================================================
