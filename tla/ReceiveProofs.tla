---------------------------- MODULE ReceiveProofs ----------------------------
(***************************************************************************)
(* What holds of the receiving side of a connection for every number of    *)
(* packets, length of a stream and limit: frameSorter (FrameSorter), and   *)
(* the ranges of received packets with the ACK that is due for them        *)
(* (ReceivedPackets).                                                      *)
(*                                                                         *)
(* What frames are pushed and popped by frameSorter is a behaviour of      *)
(* ByteStream, and the gap list holds exactly what was not received.       *)
(* That no ACK frame is empty rests on the peer: a packet that confirms an *)
(* ACK frame has a higher number than every packet that frame acknowledged,*)
(* so that IgnoreBelow leaves at least the packet it came with.            *)
(***************************************************************************)
EXTENDS FrameSorter, ReceivedPackets, FiniteSetTheorems, WellFoundedInduction, TLAPS

-----------------------------------------------------------------------------
(* FrameSorter *)

Gap == [start : Nat, end : Nat]

\* Every queued frame holds the bytes of the stream at its offset, all of which
\* were received.
QueueOK ==
    \A o \in DOMAIN queue :
        \E m \in o..Length : queue[o] = Data(o, m) /\ o..(m - 1) \subseteq received

SInv ==
    /\ gaps \in Seq(Gap)
    /\ DOMAIN queue \subseteq 0..Length /\ QueueOK
    /\ readPos \in 0..Length /\ delivered = Data(0, readPos)

-----------------------------------------------------------------------------
\* A non-empty set of naturals has the smallest element that Min chooses.
LEMMA MinInSet ==
    ASSUME NEW S \in SUBSET Nat, S # {}
    PROVE  Min(S) \in S /\ \A y \in S : Min(S) <= y
<1> DEFINE R == {ss \in Nat \X Nat : ss[1] < ss[2]}
<1>1. \E x \in S : \A y \in S : ~ (<<y, x>> \in R)
    <2>1. IsWellFoundedOn(R, Nat)
        BY NatLessThanWellFounded, Zenon DEF OpToRel
    <2>2. QED
        BY <2>1, WFMin, Zenon
<1>2. \A x, y \in S : ~ (<<y, x>> \in R) => x <= y
    OBVIOUS
<1>3. \E x \in S : \A y \in S : x <= y
    BY <1>1, <1>2, Zenon
<1>4. QED
    BY <1>3, Zenon DEF Min

\* data[start-begin:][:end-start] are the bytes from start to end.
LEMMA CutIsData ==
    ASSUME NEW begin \in Nat, NEW limit \in Nat, NEW start \in Nat, NEW end \in Nat,
           begin <= start, start <= limit, end <= limit
    PROVE  CutData(begin, limit, start, end) = Data(start, IF end < start THEN start ELSE end)
<1> DEFINE d == Data(begin, limit)
           n == IF end < start THEN start ELSE end
<1>1. d \in Seq(Nat) /\ Len(d) = limit - begin
      /\ \A i \in 1..(limit - begin) : d[i] = begin + i - 1
    BY DEF Data
<1>2. CutData(begin, limit, start, end) = SubSeq(d, start - begin + 1, end - begin)
    BY Zenon DEF CutData
<1> HIDE DEF d
<1>3. CASE end < start
    BY <1>1, <1>2, <1>3, SMTT(60), Z3T(60) DEF Data
<1>4. CASE end >= start
    BY <1>1, <1>2, <1>4, SMTT(30), Z3T(30) DEF Data
<1>5. QED
    BY <1>3, <1>4

\* Data that begin where other data end continue them.
LEMMA DataContinued ==
    ASSUME NEW b \in Nat, NEW c \in Nat, b <= c
    PROVE  Data(0, b) \o Data(b, c) = Data(0, c)
BY DEF Data

-----------------------------------------------------------------------------
(* Every step keeps the invariant *)

\* Push replaces some of the gaps by what is left of them, and queues the part
\* of the frame's data that lies in them.
LEMMA FillKeeps ==
    ASSUME SInv, NEW offset \in 0..Length, NEW limit \in offset..Length,
           NEW gap \in DOMAIN gaps, NEW endGap \in DOMAIN gaps, gap <= endGap,
           NEW begin \in offset..limit, gaps[gap].start < limit,
           received' = received \cup (offset..(limit - 1)),
           Fill(gap, endGap, begin, limit)
    PROVE  gaps' \in Seq(Gap) /\ DOMAIN queue' \subseteq 0..Length /\ QueueOK'
<1> DEFINE start == IF begin < gaps[gap].start THEN gaps[gap].start ELSE begin
           end == IF limit > gaps[endGap].end THEN gaps[endGap].end ELSE limit
           kept == Restrict(queue, DOMAIN queue \ Covered(gap, endGap))
<1>1. /\ gaps \in Seq(Gap) /\ gaps[gap] \in Gap /\ gaps[endGap] \in Gap
      /\ DOMAIN queue \subseteq 0..Length /\ Length \in Nat
    BY SorterAssumption DEF SInv
<1>2. /\ start \in Nat /\ end \in Nat /\ begin \in Nat /\ limit \in Nat /\ offset \in Nat
      /\ begin <= start /\ start <= limit /\ end <= limit /\ limit <= Length
      /\ offset <= start
    BY <1>1, SorterAssumption, SMTT(60), Z3T(60) DEF Gap
<1>3. /\ gaps' = SubSeq(gaps, 1, gap - 1) \o Remaining(gap, endGap, start, end)
                 \o SubSeq(gaps, endGap + 1, Len(gaps))
      /\ \/ queue' = kept
         \/ queue' = [o \in DOMAIN kept \cup {start} |->
                        IF o = start THEN CutData(begin, limit, start, end) ELSE kept[o]]
    BY Zenon DEF Fill
<1> HIDE DEF start, end
<1>4. gaps' \in Seq(Gap)
    <2>1. Remaining(gap, endGap, start, end) \in Seq(Gap)
        <3>1. [start |-> gaps[gap].start, end |-> start] \in Gap
            BY <1>1, <1>2, ZenonT(30) DEF Gap
        <3>2. [start |-> end, end |-> gaps[endGap].end] \in Gap
            BY <1>1, <1>2, ZenonT(30) DEF Gap
        <3>3. QED
            BY <3>1, <3>2 DEF Remaining
    <2>2. SubSeq(gaps, 1, gap - 1) \in Seq(Gap)
        BY <1>1, SMTT(30), Z3T(30)
    <2>3. SubSeq(gaps, endGap + 1, Len(gaps)) \in Seq(Gap)
        BY <1>1, SMTT(30), Z3T(30)
    <2>4. QED
        <3> DEFINE a == SubSeq(gaps, 1, gap - 1)
                   b == Remaining(gap, endGap, start, end)
                   c == SubSeq(gaps, endGap + 1, Len(gaps))
        <3>1. a \in Seq(Gap) /\ b \in Seq(Gap) /\ c \in Seq(Gap) /\ gaps' = a \o b \o c
            BY <1>3, <2>1, <2>2, <2>3, Zenon
        <3> HIDE DEF a, b, c
        <3>2. QED
            BY <3>1, SMTT(30), Z3T(30)
<1>5. /\ DOMAIN kept \subseteq DOMAIN queue
      /\ \A o \in DOMAIN kept : kept[o] = queue[o]
    BY Zenon DEF Restrict
<1> HIDE DEF kept
<1>6. /\ DOMAIN queue' \subseteq DOMAIN queue \cup {start}
      /\ \A o \in DOMAIN queue' : \/ o \in DOMAIN queue /\ queue'[o] = queue[o]
                                  \/ o = start /\ queue'[o] = CutData(begin, limit, start, end)
    BY <1>3, <1>5, ZenonT(30)
<1>7. DOMAIN queue' \subseteq 0..Length
    BY <1>1, <1>2, <1>6, SMTT(30), Z3T(30)
<1>8. QueueOK'
    <2> DEFINE m == IF end < start THEN start ELSE end
    <2>1. /\ CutData(begin, limit, start, end) = Data(start, m)
          /\ m \in start..Length /\ start..(m - 1) \subseteq received'
        BY <1>1, <1>2, CutIsData, SMTT(30), Z3T(30)
    <2>2. SUFFICES ASSUME NEW o \in DOMAIN queue'
                   PROVE  \E k \in o..Length :
                            queue'[o] = Data(o, k) /\ o..(k - 1) \subseteq received'
        BY Zenon DEF QueueOK, Data
    <2>3. CASE o \in DOMAIN queue /\ queue'[o] = queue[o]
        <3>1. PICK k \in o..Length : queue[o] = Data(o, k) /\ o..(k - 1) \subseteq received
            BY <2>3, Zenon DEF SInv, QueueOK
        <3>2. QED
            BY <2>3, <3>1, Zenon
    <2>4. CASE o = start /\ queue'[o] = CutData(begin, limit, start, end)
        BY <2>1, <2>4, Zenon
    <2>5. QED
        BY <1>6, <2>3, <2>4, Zenon
<1>9. QED
    BY <1>4, <1>7, <1>8, Zenon

\* Push, with the early returns for empty and known data.
LEMMA PushKeeps ==
    ASSUME SInv, NEW offset \in 0..Length, NEW limit \in offset..Length,
           NEW fin \in BOOLEAN, Push(offset, limit, fin)
    PROVE  SInv'
<1> DEFINE begin == Begin(offset)
           first == FirstGap(begin, limit)
           gap == Min(first)
           last == EndGap(gap, limit)
<1>1. /\ received' = received \cup (offset..(limit - 1))
      /\ UNCHANGED <<readPos, delivered>>
    BY Zenon DEF Push
<1>2. CASE UNCHANGED <<gaps, queue>>
    <2>1. QueueOK'
        <3>1. SUFFICES ASSUME NEW o \in DOMAIN queue
                       PROVE  \E k \in o..Length :
                                queue[o] = Data(o, k) /\ o..(k - 1) \subseteq received'
            BY <1>2, Zenon DEF QueueOK, Data
        <3>2. PICK k \in o..Length : queue[o] = Data(o, k) /\ o..(k - 1) \subseteq received
            BY Zenon DEF SInv, QueueOK
        <3>3. QED
            BY <1>1, <3>2, ZenonT(30)
    <2>2. QED
        BY <1>1, <1>2, <2>1, ZenonT(30) DEF SInv, Data
<1>3. CASE /\ ~(limit <= begin) /\ first # {} /\ ~(limit <= gaps[gap].start) /\ last # {}
           /\ Fill(gap, Min(last), begin, limit)
    <2>1. begin \in Nat /\ begin >= offset
        <3>1. CASE offset \in DOMAIN queue
            <4>1. PICK k \in offset..Length : queue[offset] = Data(offset, k)
                BY <3>1, Zenon DEF SInv, QueueOK
            <4>2. Len(queue[offset]) = k - offset
                BY <4>1, SorterAssumption DEF Data
            <4>3. QED
                BY <3>1, <4>1, <4>2, SorterAssumption, SMTT(30), Z3T(30) DEF Begin
        <3>2. CASE offset \notin DOMAIN queue
            BY <3>2, SorterAssumption, SMTT(30), Z3T(30) DEF Begin
        <3>3. QED
            BY <3>1, <3>2, Zenon
    <2>2. begin \in offset..limit
        BY <1>3, <2>1, SorterAssumption, SMTT(30), Z3T(30)
    <2>3. gap \in DOMAIN gaps /\ DOMAIN gaps = 1..Len(gaps) /\ Len(gaps) \in Nat
        <3>1. first \subseteq DOMAIN gaps /\ DOMAIN gaps = 1..Len(gaps) /\ Len(gaps) \in Nat
            BY DEF FirstGap, SInv
        <3>2. first \in SUBSET Nat
            BY <3>1, SMTT(30), Z3T(30)
        <3> HIDE DEF first
        <3>3. QED
            BY <1>3, <3>1, <3>2, MinInSet, ZenonT(30)
    <2> HIDE DEF gap, first
    <2>4. Min(last) \in DOMAIN gaps /\ gap <= Min(last)
        <3>1. last \subseteq gap..Len(gaps)
            BY Zenon DEF EndGap
        <3> HIDE DEF last
        <3>2. last \in SUBSET Nat
            BY <2>3, <3>1, SMTT(30), Z3T(30)
        <3>3. Min(last) \in last
            BY <1>3, <3>2, MinInSet, Zenon
        <3>4. Min(last) \in gap..Len(gaps) /\ gap \in 1..Len(gaps)
            BY <2>3, <3>1, <3>3, ZenonT(60)
        <3>5. QED
            BY <2>3, <3>4, SMTT(30), Z3T(30)
    <2> HIDE DEF last, begin
    <2>5. gaps[gap].start < limit
        <3>1. gaps[gap] \in Gap
            BY <2>3, SMTT(30), Z3T(30) DEF SInv
        <3>2. QED
            BY <1>3, <3>1, SorterAssumption, SMTT(30), Z3T(30) DEF Gap
    <2>6. gaps' \in Seq(Gap) /\ DOMAIN queue' \subseteq 0..Length /\ QueueOK'
        BY <1>1, <1>3, <2>2, <2>3, <2>4, <2>5, FillKeeps, ZenonT(60)
    <2>7. readPos' \in 0..Length /\ delivered' = Data(0, readPos')
        BY <1>1, Zenon DEF SInv
    <2>8. QED
        BY <2>6, <2>7, Zenon DEF SInv, Data
<1>4. \/ UNCHANGED <<gaps, queue>>
      \/ /\ ~(limit <= begin) /\ first # {} /\ ~(limit <= gaps[gap].start) /\ last # {}
         /\ Fill(gap, Min(last), begin, limit)
    BY Zenon DEF Push, Ignore, Bug
<1>5. QED
    BY <1>2, <1>3, <1>4, Zenon

\* Pop takes the frame at the read position.
LEMMA PopKeeps ==
    ASSUME SInv, Pop
    PROVE  SInv' /\ (UNCHANGED Stream!abstract \/ Stream!Deliver)
<1>1. PICK m \in readPos..Length :
        queue[readPos] = Data(readPos, m) /\ readPos..(m - 1) \subseteq received
    BY Zenon DEF SInv, QueueOK, Pop
<1>2. /\ m \in Nat /\ readPos \in Nat /\ readPos <= m /\ m <= Length
      /\ delivered = Data(0, readPos)
    BY <1>1, SorterAssumption, SMTT(30), Z3T(30) DEF SInv
<1>3. Len(queue[readPos]) = m - readPos /\ Len(delivered) = readPos
    BY <1>1, <1>2, SMTT(30), Z3T(30) DEF Data
<1>4. readPos' = m /\ delivered' = Data(0, m)
    <2>1. delivered' = Data(0, readPos) \o Data(readPos, m)
        BY <1>1, <1>2, Zenon DEF Pop
    <2>2. delivered' = Data(0, m)
        BY <1>2, <2>1, DataContinued, Zenon
    <2>3. QED
        BY <1>2, <1>3, <2>2, SMTT(60), Z3T(60) DEF Pop
<1>5. SInv'
    <2>1. DOMAIN queue' \subseteq DOMAIN queue /\ \A o \in DOMAIN queue' : queue'[o] = queue[o]
        BY ZenonT(30) DEF Pop, Restrict
    <2>2. QueueOK'
        BY <2>1, Zenon DEF SInv, QueueOK, Pop, Data
    <2>3. readPos' \in 0..Length /\ delivered' = Data(0, readPos')
        BY <1>2, <1>4, SorterAssumption, SMTT(30), Z3T(30)
    <2>4. gaps' \in Seq(Gap) /\ DOMAIN queue' \subseteq 0..Length
        BY <2>1, Zenon DEF SInv, Pop
    <2>5. QED
        BY <2>2, <2>3, <2>4, Zenon DEF SInv, Data
<1>6. CASE m = readPos
    BY <1>2, <1>4, <1>5, <1>6, Zenon DEF Pop, Stream!abstract, Data
<1>7. CASE m # readPos
    <2>1. m \in (Len(delivered) + 1)..Length
        BY <1>2, <1>3, <1>7, SorterAssumption, SMTT(30), Z3T(30)
    <2>2. Len(delivered)..(m - 1) \subseteq received
        BY <1>1, <1>3, ZenonT(30)
    <2>3. delivered' = [i \in 1..m |-> i - 1]
        BY <1>2, <1>4, SMTT(30), Z3T(30) DEF Data
    <2>4. ~(err # "none") /\ UNCHANGED <<received, err>>
        BY Zenon DEF Pop
    <2>5. QED
        BY <1>5, <2>1, <2>2, <2>3, <2>4, Zenon DEF Stream!Deliver
<1>8. QED
    BY <1>5, <1>6, <1>7, Zenon

\* A new sorter.
LEMMA InitSorted ==
    ASSUME Init
    PROVE  SInv /\ Stream!Init
<1>1. gaps \in Seq(Gap)
    <2>1. [start |-> 0, end |-> MaxByteCount] \in Gap
        BY SorterAssumption DEF Gap, MaxByteCount
    <2>2. QED
        BY <2>1 DEF Init
<1>2. DOMAIN queue = {} /\ QueueOK
    BY ZenonT(30) DEF Init, NoData, QueueOK
<1>3. readPos \in 0..Length /\ delivered = Data(0, readPos)
    BY SorterAssumption DEF Init, Data
<1>4. QED
    BY <1>1, <1>2, <1>3, ZenonT(30) DEF SInv, Stream!Init, Init

\* A step of the sorter keeps the invariant and is one of the byte stream, or
\* none.
LEMMA StepImplements ==
    ASSUME SInv, [Next]_vars
    PROVE  SInv' /\ [Stream!Arrive \/ Stream!Deliver]_(Stream!abstract)
<1>1. CASE UNCHANGED vars
    BY <1>1, Zenon DEF vars, SInv, QueueOK, Data, Stream!abstract
<1>2. CASE Pop
    BY <1>2, PopKeeps, Zenon
<1>3. ASSUME NEW offset \in 0..Length, NEW limit \in offset..Length,
             NEW fin \in BOOLEAN, Push(offset, limit, fin)
      PROVE  SInv' /\ Stream!Arrive
    <2>1. SInv'
        BY <1>3, PushKeeps, Zenon
    <2>2. /\ offset \in 0..Length /\ limit \in 0..Length
        BY SorterAssumption, SMTT(30), Z3T(30)
    <2>3. /\ ~(err # "none") /\ UNCHANGED delivered
          /\ received' = received \cup (offset..(limit - 1))
        BY <1>3, Zenon DEF Push
    <2>4. (err' # "none") \in BOOLEAN
        BY Zenon
    <2>5. QED
        BY <2>1, <2>2, <2>3, <2>4, Zenon DEF Stream!Arrive
<1>4. QED
    BY <1>1, <1>2, <1>3, Zenon DEF Next

\* frameSorter implements ByteStream: a reader that calls Pop gets the bytes of
\* the stream in order, each once and none before it was received, however Push
\* is called.  (That the reader gets all of them is fairness, and checked by TLC
\* as InOrder.)
THEOREM SorterImplementsByteStream == Spec => Stream!Spec
<1>1. Init => SInv /\ Stream!Init
    BY InitSorted, Zenon
<1>2. SInv /\ [Next]_vars => SInv' /\ [Stream!Arrive \/ Stream!Deliver]_(Stream!abstract)
    BY StepImplements, ZenonT(30)
<1>3. QED
    BY <1>1, <1>2, PTL DEF Spec, Stream!Spec

-----------------------------------------------------------------------------
(* The gap list *)

\* x lies in the gap g.
InGap(x, g) == g.start <= x /\ x < g.end

\* A sorted list of non-empty gaps that do not touch each other.
Sorted(g) ==
    /\ g \in Seq(Gap)
    /\ \A i \in DOMAIN g : g[i].start < g[i].end /\ g[i].end <= Length + 1
    /\ \A i, j \in DOMAIN g : i < j => g[i].end < g[j].start

\* It holds the offsets that are not in bytes.
Exact(g, bytes) ==
    \A x \in 0..Length : x \notin bytes <=> \E i \in DOMAIN g : InGap(x, g[i])

\* The inductive invariant of the gap list.
GInv == Sorted(gaps) /\ Exact(gaps, received) /\ received \subseteq 0..(Length - 1) /\ err # "BUG"

\* The elements of a concatenation.
LEMMA Concatenated ==
    ASSUME NEW S, NEW p \in Seq(S), NEW q \in Seq(S)
    PROVE  /\ p \o q \in Seq(S) /\ Len(p \o q) = Len(p) + Len(q)
           /\ \A i \in 1..Len(p) : (p \o q)[i] = p[i]
           /\ \A i \in (Len(p) + 1)..(Len(p) + Len(q)) : (p \o q)[i] = q[i - Len(p)]
OBVIOUS

\* The elements of a list some of whose elements were replaced.
LEMMA Spliced ==
    ASSUME NEW g \in Seq(Gap), NEW a \in 1..Len(g), NEW b \in a..Len(g), NEW r \in Seq(Gap)
    PROVE  LET new == SubSeq(g, 1, a - 1) \o r \o SubSeq(g, b + 1, Len(g))
           IN  /\ new \in Seq(Gap) /\ Len(new) = Len(g) + Len(r) - (b - a + 1)
               /\ \A i \in 1..(a - 1) : new[i] = g[i]
               /\ \A i \in a..(a + Len(r) - 1) : new[i] = r[i - a + 1]
               /\ \A i \in (a + Len(r))..Len(new) : new[i] = g[i - Len(r) + (b - a + 1)]
<1> DEFINE p == SubSeq(g, 1, a - 1)
           q == SubSeq(g, b + 1, Len(g))
<1>1. /\ p \in Seq(Gap) /\ Len(p) = a - 1 /\ \A i \in 1..(a - 1) : p[i] = g[i]
    BY SMTT(30), Z3T(30)
<1>2. /\ q \in Seq(Gap) /\ Len(q) = Len(g) - b /\ \A i \in 1..(Len(g) - b) : q[i] = g[i + b]
    OBVIOUS
<1> HIDE DEF p, q
<1> DEFINE m == p \o r
<1>3. /\ m \in Seq(Gap) /\ Len(m) = Len(p) + Len(r)
      /\ \A i \in 1..Len(p) : m[i] = p[i]
      /\ \A i \in (Len(p) + 1)..(Len(p) + Len(r)) : m[i] = r[i - Len(p)]
    BY <1>1, Concatenated, ZenonT(60)
<1> HIDE DEF m
<1> DEFINE new == m \o q
<1>4. /\ new \in Seq(Gap) /\ Len(new) = Len(m) + Len(q)
      /\ \A i \in 1..Len(m) : new[i] = m[i]
      /\ \A i \in (Len(m) + 1)..(Len(m) + Len(q)) : new[i] = q[i - Len(m)]
    <2>1. m \in Seq(Gap) /\ q \in Seq(Gap)
        BY <1>2, <1>3, ZenonT(30)
    <2>2. QED
        BY <2>1, Concatenated, Zenon
<1> HIDE DEF new
<1>5. Len(g) \in Nat /\ Len(r) \in Nat /\ Len(new) = Len(g) + Len(r) - (b - a + 1)
    <2>1. Len(g) \in Nat /\ Len(r) \in Nat /\ a \in Nat /\ b \in Nat
        BY SMTT(30), Z3T(30)
    <2>2. Len(p) = a - 1 /\ Len(q) = Len(g) - b /\ Len(m) = Len(p) + Len(r) /\ Len(new) = Len(m) + Len(q)
        BY <1>1, <1>2, <1>3, <1>4, ZenonT(30)
    <2>3. QED
        BY <2>1, <2>2, SMTT(30), Z3T(30)
<1>6. \A i \in 1..(a - 1) : new[i] = g[i]
    <2> SUFFICES ASSUME NEW i \in 1..(a - 1)
                 PROVE  new[i] = g[i]
        BY Zenon
    <2>1. Len(p) \in Nat /\ Len(r) \in Nat /\ i \in 1..Len(p)
        BY <1>1, <1>5, SMTT(30), Z3T(30)
    <2>2. i \in 1..Len(m)
        BY <1>3, <2>1, SMTT(30), Z3T(30)
    <2>3. QED
        BY <1>1, <1>3, <1>4, <2>1, <2>2, ZenonT(60)
<1>7. \A i \in a..(a + Len(r) - 1) : new[i] = r[i - a + 1]
    <2>1. SUFFICES ASSUME NEW i \in a..(a + Len(r) - 1)
                   PROVE  new[i] = r[i - a + 1]
        BY Zenon
    <2>2. i \in 1..Len(m) /\ i \in (Len(p) + 1)..(Len(p) + Len(r)) /\ i - Len(p) = i - a + 1
        BY <1>1, <1>3, <1>5, SMTT(30), Z3T(30)
    <2>3. QED
        BY <1>3, <1>4, <2>2, ZenonT(60)
<1>8. \A i \in (a + Len(r))..Len(new) : new[i] = g[i - Len(r) + (b - a + 1)]
    <2>1. SUFFICES ASSUME NEW i \in (a + Len(r))..Len(new)
                   PROVE  new[i] = g[i - Len(r) + (b - a + 1)]
        BY ZenonT(30)
    <2>2. /\ i \in (Len(m) + 1)..(Len(m) + Len(q)) /\ i - Len(m) \in 1..(Len(g) - b)
          /\ (i - Len(m)) + b = i - Len(r) + (b - a + 1)
        BY <1>1, <1>2, <1>3, <1>4, <1>5, SMTT(30), Z3T(30)
    <2>3. new[i] = q[i - Len(m)] /\ q[i - Len(m)] = g[(i - Len(m)) + b]
        BY <1>2, <1>4, <2>2, ZenonT(60)
    <2>4. QED
        BY <2>2, <2>3, Zenon
<1>9. QED
    BY <1>4, <1>5, <1>6, <1>7, <1>8, ZenonT(60) DEF m, p, q, new

\* The gaps of r are sorted, and hold the offsets from gs to ge that are not
\* between begin and limit.
LeftOver(r, gs, ge, begin, limit) ==
    /\ r \in Seq(Gap)
    /\ \A n \in DOMAIN r : r[n].start < r[n].end /\ gs <= r[n].start /\ r[n].end <= ge
    /\ \A n, m \in DOMAIN r : n < m => r[n].end < r[m].start
    /\ \A x \in Nat : (\E n \in DOMAIN r : InGap(x, r[n])) <=>
                       (gs <= x /\ x < begin) \/ (limit <= x /\ x < ge)

\* What is left of the gaps from gap to endGap by the bytes begin to limit.
LEMMA RemainingGaps ==
    ASSUME NEW gap \in DOMAIN gaps, NEW endGap \in DOMAIN gaps, gap <= endGap,
           Sorted(gaps), NEW begin \in Nat, NEW limit \in Nat, begin < limit,
           begin <= gaps[gap].end, gaps[endGap].start < limit,
           NEW start, start = IF begin < gaps[gap].start THEN gaps[gap].start ELSE begin,
           NEW end, end = IF limit > gaps[endGap].end THEN gaps[endGap].end ELSE limit
    PROVE  LeftOver(Remaining(gap, endGap, start, end), gaps[gap].start, gaps[endGap].end,
                    begin, limit)
<1> DEFINE gs == gaps[gap].start
           ge == gaps[endGap].end
           left == [start |-> gs, end |-> start]
           right == [start |-> end, end |-> ge]
           one == IF start # gs THEN <<left>> ELSE <<>>
           two == IF end < ge THEN <<right>> ELSE <<>>
           r == Remaining(gap, endGap, start, end)
<1>1. gaps \in Seq(Gap) /\ gaps[gap] \in Gap /\ gaps[endGap] \in Gap
    BY DEF Sorted
<1>2. /\ gs \in Nat /\ ge \in Nat /\ gaps[gap].end \in Nat /\ gaps[endGap].start \in Nat
      /\ start \in Nat /\ end \in Nat
    BY <1>1, ZenonT(30) DEF Gap
<1>3. /\ gs < gaps[gap].end /\ gaps[endGap].start < ge
      /\ gaps[gap].end <= ge /\ gs <= gaps[endGap].start
    <2>1. gap = endGap \/ gap < endGap
        BY <1>1
    <2>2. gs < gaps[gap].end /\ gaps[endGap].start < ge
        BY Zenon DEF Sorted
    <2>3. gap < endGap => gaps[gap].end < gaps[endGap].start
        BY ZenonT(30) DEF Sorted
    <2> HIDE DEF gs, ge
    <2>4. CASE gap = endGap
        BY <2>2, <2>4, <1>2, SMTT(30), Z3T(30) DEF gs, ge
    <2>5. CASE gap < endGap
        BY <2>2, <2>3, <2>5, <1>2, SMTT(30), Z3T(30)
    <2>6. QED
        BY <2>1, <2>4, <2>5, ZenonT(30)
<1>4. r = one \o two
    BY ZenonT(30) DEF Remaining
<1>5. left \in Gap /\ right \in Gap
    BY <1>2, ZenonT(30) DEF Gap
<1>6. /\ start # gs => start = begin /\ gs < begin
      /\ start = gs => begin <= gs
      /\ end < ge => end = limit /\ limit < ge
      /\ ~(end < ge) => ge <= limit
    <2> HIDE DEF gs, ge
    <2>1. QED
        BY <1>2 DEF gs, ge
<1>7. left.start = gs /\ left.end = start /\ right.start = end /\ right.end = ge
    BY ZenonT(30)
<1> HIDE DEF gs, ge, left, right, r
<1>8. CASE start = gs /\ ~(end < ge)
    <2>1. r \in Seq(Gap) /\ DOMAIN r = {}
        BY <1>4, <1>8, SMTT(30), Z3T(30)
    <2>2. \A x \in Nat : ~(gs <= x /\ x < begin) /\ ~(limit <= x /\ x < ge)
        BY <1>2, <1>6, <1>8, SMTT(30), Z3T(30)
    <2>3. LeftOver(r, gs, ge, begin, limit)
        BY <2>1, <2>2, ZenonT(30) DEF LeftOver
    <2>4. QED
        BY <2>3, ZenonT(30) DEF r, gs, ge
<1>9. CASE start # gs /\ ~(end < ge)
    <2>1. r \in Seq(Gap) /\ DOMAIN r = {1} /\ r[1] = left
        BY <1>4, <1>5, <1>9, SMTT(30), Z3T(30)
    <2>2. left.start < left.end /\ gs <= left.start /\ left.end <= ge
        BY <1>2, <1>3, <1>6, <1>7, <1>9, SMTT(30), Z3T(30)
    <2>3. \A x \in Nat : InGap(x, left) <=> (gs <= x /\ x < begin) \/ (limit <= x /\ x < ge)
        BY <1>2, <1>6, <1>7, <1>9, SMTT(30), Z3T(30) DEF InGap
    <2>4. LeftOver(r, gs, ge, begin, limit)
        BY <2>1, <2>2, <2>3, SMTT(30), Z3T(30) DEF LeftOver
    <2>5. QED
        BY <2>4, Zenon DEF r, gs, ge
<1>10. CASE start = gs /\ end < ge
    <2>1. r \in Seq(Gap) /\ DOMAIN r = {1} /\ r[1] = right
        BY <1>4, <1>5, <1>10, SMTT(30), Z3T(30)
    <2>2. right.start < right.end /\ gs <= right.start /\ right.end <= ge
        BY <1>2, <1>3, <1>6, <1>7, <1>10, SMTT(30), Z3T(30)
    <2>3. \A x \in Nat : InGap(x, right) <=> (gs <= x /\ x < begin) \/ (limit <= x /\ x < ge)
        BY <1>2, <1>6, <1>7, <1>10, SMTT(30), Z3T(30) DEF InGap
    <2>4. LeftOver(r, gs, ge, begin, limit)
        BY <2>1, <2>2, <2>3 DEF LeftOver
    <2>5. QED
        BY <2>4, Zenon DEF r, gs, ge
<1>11. CASE start # gs /\ end < ge
    <2>1. r \in Seq(Gap) /\ DOMAIN r = {1, 2} /\ r[1] = left /\ r[2] = right
        BY <1>4, <1>5, <1>11, SMTT(30), Z3T(30)
    <2>2. /\ left.start < left.end /\ gs <= left.start /\ left.end <= ge
          /\ right.start < right.end /\ gs <= right.start /\ right.end <= ge
          /\ left.end < right.start
        BY <1>2, <1>3, <1>6, <1>7, <1>11, SMTT(30), Z3T(30)
    <2>3. \A x \in Nat : InGap(x, left) \/ InGap(x, right) <=>
                           (gs <= x /\ x < begin) \/ (limit <= x /\ x < ge)
        BY <1>2, <1>6, <1>7, <1>11, ZenonT(30) DEF InGap
    <2>4. LeftOver(r, gs, ge, begin, limit)
        BY <2>1, <2>2, <2>3, SMTT(30), Z3T(30) DEF LeftOver
    <2>5. QED
        BY <2>4, Zenon DEF r, gs, ge
<1>12. QED
    BY <1>8, <1>9, <1>10, <1>11, ZenonT(30)

\* What happens to indices when the elements a to b of a list of length n are
\* replaced by k others, which leaves len elements.
Shifts(a, b, n, k, d, len) ==
    /\ \A i \in 1..n : i > b => /\ i + k - d \in (a + k)..len
                                /\ (i + k - d) - k + d = i
    /\ \A m \in 1..k : /\ m + a - 1 \in a..(a + k - 1) /\ m + a - 1 \in 1..len
                       /\ (m + a - 1) - a + 1 = m
    /\ \A i, j \in Nat : i < j => i - k + d < j - k + d /\ i - a + 1 < j - a + 1
    /\ \A i \in 1..len : i >= a + k => i - k + d \in 1..n /\ i - k + d > b

\* Where the elements of a list are after its elements a to b were replaced by k others.
LEMMA Shifted ==
    ASSUME NEW a \in Nat, NEW b \in Nat, NEW n \in Nat, NEW k \in Nat, NEW d, d = b - a + 1,
           NEW len, len = n + k - d, 1 <= a, a <= b, b <= n
    PROVE  Shifts(a, b, n, k, d, len)
BY DEF Shifts

\* The bytes begin to limit begin in or right after gap, and end in endGap or
\* between it and the next gap.
Hits(gap, endGap, begin, limit) ==
    /\ gap \in DOMAIN gaps /\ endGap \in DOMAIN gaps /\ gap <= endGap
    /\ \A i \in DOMAIN gaps : i < gap => gaps[i].end < begin
    /\ begin <= gaps[gap].end /\ gaps[endGap].start < limit
    /\ \A i \in DOMAIN gaps : i > endGap => limit <= gaps[i].start

\* Fill takes the bytes begin to limit out of the gaps.
LEMMA FilledGaps ==
    ASSUME Sorted(gaps), NEW gap, NEW endGap, NEW begin \in Nat, NEW limit \in Nat, begin < limit,
           Hits(gap, endGap, begin, limit), Fill(gap, endGap, begin, limit)
    PROVE  /\ Sorted(gaps')
           /\ \A x \in Nat : (\E i \in DOMAIN gaps' : InGap(x, gaps'[i])) <=>
                              /\ \E i \in DOMAIN gaps : InGap(x, gaps[i])
                              /\ ~(begin <= x /\ x < limit)
<1> DEFINE start == IF begin < gaps[gap].start THEN gaps[gap].start ELSE begin
           end == IF limit > gaps[endGap].end THEN gaps[endGap].end ELSE limit
           r == Remaining(gap, endGap, start, end)
           k == Len(r)
           d == endGap - gap + 1
           gs == gaps[gap].start
           ge == gaps[endGap].end
<1>1. gaps' = SubSeq(gaps, 1, gap - 1) \o r \o SubSeq(gaps, endGap + 1, Len(gaps))
    BY Zenon DEF Fill
<1>2. /\ r \in Seq(Gap)
      /\ \A n \in DOMAIN r : r[n].start < r[n].end /\ gs <= r[n].start /\ r[n].end <= ge
      /\ \A n, m \in DOMAIN r : n < m => r[n].end < r[m].start
      /\ \A x \in Nat : (\E n \in DOMAIN r : InGap(x, r[n])) <=>
                         (gs <= x /\ x < begin) \/ (limit <= x /\ x < ge)
    <2>1. /\ gap \in DOMAIN gaps /\ endGap \in DOMAIN gaps /\ gap <= endGap
          /\ begin <= gaps[gap].end /\ gaps[endGap].start < limit
        BY ZenonT(30) DEF Hits
    <2>s. /\ start = IF begin < gaps[gap].start THEN gaps[gap].start ELSE begin
          /\ end = IF limit > gaps[endGap].end THEN gaps[endGap].end ELSE limit
        BY ZenonT(30)
    <2> HIDE DEF r, start, end
    <2>2. LeftOver(r, gs, ge, begin, limit)
        BY <2>1, <2>s, RemainingGaps, ZenonT(60) DEF r, gs, ge
    <2>3. QED
        BY <2>2, Zenon DEF LeftOver
<1> HIDE DEF r, start, end
<1>3. /\ gaps \in Seq(Gap) /\ Len(gaps) \in Nat /\ DOMAIN gaps = 1..Len(gaps)
      /\ k \in Nat /\ DOMAIN r = 1..k /\ gap \in Nat /\ endGap \in Nat
      /\ gap \in 1..Len(gaps) /\ endGap \in gap..Len(gaps) /\ d \in Nat
    BY <1>2, SMTT(30), Z3T(30) DEF Sorted, Hits
<1>4. \A i \in DOMAIN gaps : /\ gaps[i].start \in Nat /\ gaps[i].end \in Nat
                             /\ gaps[i].start < gaps[i].end /\ gaps[i].end <= Length + 1
    <2>1. \A i \in DOMAIN gaps : gaps[i] \in Gap
        BY <1>3
    <2>2. \A i \in DOMAIN gaps : gaps[i].start < gaps[i].end /\ gaps[i].end <= Length + 1
        BY ZenonT(30) DEF Sorted
    <2>3. QED
        BY <2>1, <2>2, ZenonT(30) DEF Gap
<1>5. \A n \in DOMAIN r : r[n].start \in Nat /\ r[n].end \in Nat
    <2>1. r \in Seq(Gap)
        BY <1>2, ZenonT(30)
    <2>2. \A n \in DOMAIN r : r[n] \in Gap
        BY <2>1, SMTT(30), Z3T(30)
    <2>3. QED
        BY <2>2, ZenonT(30) DEF Gap
<1>6. \A i, j \in DOMAIN gaps : i < j => gaps[i].end < gaps[j].start
    BY ZenonT(30) DEF Sorted
<1>7. gs \in Nat /\ ge \in Nat /\ ge <= Length + 1 /\ Length \in Nat
    BY <1>4, SorterAssumption, ZenonT(30) DEF Hits
<1>8. /\ gaps' \in Seq(Gap) /\ Len(gaps') = Len(gaps) + k - d
      /\ \A i \in 1..(gap - 1) : gaps'[i] = gaps[i]
      /\ \A i \in gap..(gap + k - 1) : gaps'[i] = r[i - gap + 1]
      /\ \A i \in (gap + k)..Len(gaps') : gaps'[i] = gaps[i - k + d]
    <2> DEFINE new == SubSeq(gaps, 1, gap - 1) \o r \o SubSeq(gaps, endGap + 1, Len(gaps))
    <2>1. r \in Seq(Gap)
        BY <1>2, Zenon
    <2>2. /\ new \in Seq(Gap) /\ Len(new) = Len(gaps) + k - d
          /\ \A i \in 1..(gap - 1) : new[i] = gaps[i]
          /\ \A i \in gap..(gap + k - 1) : new[i] = r[i - gap + 1]
          /\ \A i \in (gap + k)..Len(new) : new[i] = gaps[i - k + d]
        BY <1>3, <2>1, Spliced, ZenonT(60)
    <2> HIDE DEF new, k, d
    <2>3. QED
        BY <1>1, <2>2, ZenonT(60) DEF new
<1> HIDE DEF k, d, gs, ge
<1>9. /\ DOMAIN gaps' = 1..Len(gaps') /\ Len(gaps') \in Nat
    BY <1>8
<1>a. /\ Len(gaps) \in Nat /\ k \in Nat /\ d \in Nat /\ gap \in Nat /\ endGap \in Nat
      /\ 1 <= gap /\ gap <= endGap /\ endGap <= Len(gaps) /\ d = endGap - gap + 1
      /\ Len(gaps') \in Nat /\ Len(gaps') = Len(gaps) + k - d
    BY <1>3, <1>8, <1>9, SMTT(30), Z3T(30) DEF d
<1>b. /\ \A i \in 1..Len(gaps) : i > endGap => /\ i + k - d \in (gap + k)..Len(gaps')
                                               /\ (i + k - d) - k + d = i
      /\ \A m \in 1..k : /\ m + gap - 1 \in gap..(gap + k - 1) /\ m + gap - 1 \in 1..Len(gaps')
                         /\ (m + gap - 1) - gap + 1 = m
      /\ \A i, j \in Nat : i < j => i - k + d < j - k + d /\ i - gap + 1 < j - gap + 1
      /\ \A i \in 1..Len(gaps') : i >= gap + k => i - k + d \in 1..Len(gaps) /\ i - k + d > endGap
    <2>1. Shifts(gap, endGap, Len(gaps), k, d, Len(gaps'))
        BY <1>a, Shifted, ZenonT(60)
    <2>2. QED
        BY <2>1, ZenonT(30) DEF Shifts
<1>c. gap \in Nat /\ k \in Nat
    BY <1>a, Zenon
\* The three parts of the new list.
<1>10. ASSUME NEW i \in DOMAIN gaps'
       PROVE  /\ i \in Nat
              /\ \/ i < gap /\ i \in DOMAIN gaps /\ gaps'[i] = gaps[i]
                 \/ i >= gap /\ i < gap + k /\ i - gap + 1 \in DOMAIN r /\ gaps'[i] = r[i - gap + 1]
                 \/ /\ i >= gap + k /\ i - k + d \in DOMAIN gaps /\ i - k + d > endGap
                    /\ gaps'[i] = gaps[i - k + d]
    <2>1. i \in Nat /\ 1 <= i /\ i <= Len(gaps')
        BY <1>9, SMTT(30), Z3T(30)
    <2>2. CASE i < gap
        <3>1. i \in 1..(gap - 1) /\ i \in 1..Len(gaps)
            BY <1>a, <2>1, <2>2, SMTT(30), Z3T(30)
        <3>2. QED
            BY <1>3, <1>8, <2>1, <2>2, <3>1, ZenonT(30)
    <2>3. CASE i >= gap /\ i < gap + k
        <3>1. i \in gap..(gap + k - 1) /\ i - gap + 1 \in 1..k
            BY <1>c, <2>1, <2>3, SMTT(30), Z3T(30)
        <3>2. QED
            BY <1>3, <1>8, <2>1, <2>3, <3>1, ZenonT(30)
    <2>4. CASE i >= gap + k
        <3>1. i \in (gap + k)..Len(gaps')
            BY <1>3, <2>1, <2>4, SMTT(30), Z3T(30)
        <3>2. gaps'[i] = gaps[i - k + d]
            BY <1>8, <3>1, ZenonT(30)
        <3>3. i - k + d \in 1..Len(gaps) /\ i - k + d > endGap
            BY <1>a, <1>9, <1>b, <2>4, ZenonT(30)
        <3>4. QED
            BY <1>3, <2>1, <2>4, <3>2, <3>3, ZenonT(30)
    <2>5. i < gap \/ (i >= gap /\ i < gap + k) \/ i >= gap + k
        BY <1>c, <2>1, SMTT(30), Z3T(30)
    <2>6. QED
        BY <2>2, <2>3, <2>4, <2>5, ZenonT(60)
<1>11. Sorted(gaps')
    <2>1. \A i \in DOMAIN gaps' : gaps'[i].start < gaps'[i].end /\ gaps'[i].end <= Length + 1
        BY <1>2, <1>4, <1>5, <1>7, <1>10, SMTT(30), Z3T(30)
    <2>2. ASSUME NEW i \in DOMAIN gaps', NEW j \in DOMAIN gaps', i < j
          PROVE  gaps'[i].end < gaps'[j].start
        <3>0. i \in Nat /\ j \in Nat
            BY <1>10, Zenon
        <3>1. gap \in DOMAIN gaps /\ endGap \in DOMAIN gaps /\ gs = gaps[gap].start /\ ge = gaps[endGap].end
            BY ZenonT(30) DEF gs, ge, Hits
        <3>2. CASE i < gap /\ i \in DOMAIN gaps /\ gaps'[i] = gaps[i]
            <4>1. gaps[i].end < gs /\ gaps[i].end \in Nat
                BY <1>4, <1>6, <3>1, <3>2, ZenonT(30)
            <4>2. CASE j < gap /\ j \in DOMAIN gaps /\ gaps'[j] = gaps[j]
                BY <1>6, <2>2, <3>2, <4>2, ZenonT(30)
            <4>3. CASE j - gap + 1 \in DOMAIN r /\ gaps'[j] = r[j - gap + 1]
                BY <1>2, <1>5, <1>7, <3>2, <4>1, <4>3, SMTT(30), Z3T(30)
            <4>4. CASE j - k + d \in DOMAIN gaps /\ j - k + d > endGap /\ gaps'[j] = gaps[j - k + d]
                <5>1. i < j - k + d
                    <6> DEFINE t == j - k + d
                    <6>1. t \in 1..Len(gaps) /\ t > endGap /\ gap <= endGap /\ i < gap
                          /\ gap \in Nat /\ endGap \in Nat /\ Len(gaps) \in Nat
                        BY <1>3, <1>a, <3>2, <4>4, ZenonT(60)
                    <6> HIDE DEF t
                    <6>2. i < t
                        BY <3>0, <6>1, SMTT(30), Z3T(30)
                    <6>3. QED
                        BY <6>2, Zenon DEF t
                <5>2. QED
                    BY <1>6, <3>2, <4>4, <5>1, ZenonT(30)
            <4>5. QED
                BY <1>10, <4>2, <4>3, <4>4, ZenonT(30)
        <3>3. CASE i >= gap /\ i - gap + 1 \in DOMAIN r /\ gaps'[i] = r[i - gap + 1]
            <4>1. gaps'[i].end \in Nat /\ gaps'[i].end <= ge
                BY <1>2, <1>5, <3>3, ZenonT(30)
            <4>2. CASE j < gap + k /\ j - gap + 1 \in DOMAIN r /\ gaps'[j] = r[j - gap + 1]
                <5>1. i - gap + 1 < j - gap + 1
                    BY <1>b, <2>2, <3>0, ZenonT(60)
                <5>2. QED
                    BY <1>2, <3>3, <4>2, <5>1, ZenonT(30)
            <4>3. CASE j - k + d \in DOMAIN gaps /\ j - k + d > endGap /\ gaps'[j] = gaps[j - k + d]
                <5>1. ge < gaps[j - k + d].start /\ gaps[j - k + d].start \in Nat
                    BY <1>3, <1>4, <1>6, <3>1, <4>3, ZenonT(30)
                <5>2. QED
                    BY <1>7, <4>1, <4>3, <5>1, SMTT(30), Z3T(30)
            <4>4. ~(j < gap)
                BY <1>c, <2>2, <3>0, <3>3, SMTT(30), Z3T(30)
            <4>5. QED
                BY <1>10, <4>2, <4>3, <4>4, ZenonT(60)
        <3>4. CASE i >= gap + k /\ i - k + d \in DOMAIN gaps /\ gaps'[i] = gaps[i - k + d]
            <4>1. ~(j < gap) /\ ~(j < gap + k)
                BY <1>c, <2>2, <3>0, <3>4, SMTT(30), Z3T(30)
            <4>2. j - k + d \in DOMAIN gaps /\ gaps'[j] = gaps[j - k + d]
                BY <1>10, <4>1, ZenonT(30)
            <4>3. i - k + d < j - k + d
                BY <1>b, <2>2, <3>0, ZenonT(60)
            <4>4. QED
                BY <1>6, <3>4, <4>2, <4>3, ZenonT(30)
        <3>5. QED
            BY <1>10, <3>2, <3>3, <3>4, ZenonT(30)
    <2>3. QED
        BY <1>8, <2>1, <2>2, ZenonT(30) DEF Sorted
<1>12. ASSUME NEW x \in Nat
       PROVE  (\E i \in DOMAIN gaps' : InGap(x, gaps'[i])) <=>
                 \/ \E i \in DOMAIN gaps : i < gap /\ InGap(x, gaps[i])
                 \/ \E n \in DOMAIN r : InGap(x, r[n])
                 \/ \E i \in DOMAIN gaps : i > endGap /\ InGap(x, gaps[i])
    <2>1. ASSUME NEW i \in DOMAIN gaps, i < gap
          PROVE  i \in DOMAIN gaps' /\ gaps'[i] = gaps[i]
        <3>1. i \in 1..(gap - 1) /\ i <= Len(gaps')
            BY <1>a, <1>3, <2>1, SMTT(30), Z3T(30)
        <3>2. QED
            BY <1>8, <1>9, <3>1, SMTT(30), Z3T(30)
    <2>2. ASSUME NEW n \in DOMAIN r
          PROVE  \E i \in DOMAIN gaps' : gaps'[i] = r[n]
        <3>1. n + gap - 1 \in gap..(gap + k - 1) /\ n + gap - 1 \in 1..Len(gaps') /\ (n + gap - 1) - gap + 1 = n
            BY <1>a, <1>3, <1>b, ZenonT(30)
        <3>2. n + gap - 1 \in DOMAIN gaps'
            BY <1>3, <1>9, <3>1, ZenonT(30)
        <3>3. QED
            BY <1>8, <3>1, <3>2, ZenonT(30)
    <2>3. ASSUME NEW i \in DOMAIN gaps, i > endGap
          PROVE  \E j \in DOMAIN gaps' : gaps'[j] = gaps[i]
        <3>1. i + k - d \in (gap + k)..Len(gaps') /\ (i + k - d) - k + d = i
            BY <1>a, <1>3, <1>b, <2>3, ZenonT(30)
        <3>2. i + k - d \in DOMAIN gaps'
            BY <1>3, <1>9, <3>1, SMTT(30), Z3T(30)
        <3>3. QED
            BY <1>8, <3>1, <3>2, ZenonT(30)
    <2>4. QED
        BY <1>10, <2>1, <2>2, <2>3, ZenonT(30)
<1>13. ASSUME NEW x \in Nat
       PROVE  (\E i \in DOMAIN gaps' : InGap(x, gaps'[i])) <=>
                 /\ \E i \in DOMAIN gaps : InGap(x, gaps[i])
                 /\ ~(begin <= x /\ x < limit)
    <2>1. ASSUME NEW i \in DOMAIN gaps, i < gap, InGap(x, gaps[i])
          PROVE  ~(begin <= x /\ x < limit)
        BY <1>4, <2>1, SMTT(30), Z3T(30) DEF InGap, Hits
    <2>2. ASSUME NEW i \in DOMAIN gaps, i > endGap, InGap(x, gaps[i])
          PROVE  ~(begin <= x /\ x < limit)
        BY <1>4, <2>2, SMTT(30), Z3T(30) DEF InGap, Hits
    <2>3. ASSUME gs <= x, x < begin
          PROVE  InGap(x, gaps[gap])
        BY <1>4, <2>3, SMTT(30), Z3T(30) DEF InGap, gs, Hits
    <2>4. ASSUME limit <= x, x < ge
          PROVE  InGap(x, gaps[endGap])
        BY <1>4, <2>4, SMTT(30), Z3T(30) DEF InGap, ge, Hits
    <2>5. ASSUME NEW i \in DOMAIN gaps, i >= gap, i <= endGap, InGap(x, gaps[i]),
                 ~(begin <= x /\ x < limit)
          PROVE  (gs <= x /\ x < begin) \/ (limit <= x /\ x < ge)
        <3>1. gap \in DOMAIN gaps /\ endGap \in DOMAIN gaps
            BY ZenonT(30) DEF Hits
        <3>2. /\ gaps[i].start \in Nat /\ gaps[i].end \in Nat /\ gaps[i].start < gaps[i].end
              /\ gaps[gap].start \in Nat /\ gaps[gap].end \in Nat /\ gaps[gap].start < gaps[gap].end
              /\ gaps[endGap].start \in Nat /\ gaps[endGap].end \in Nat
              /\ gaps[endGap].start < gaps[endGap].end
            BY <1>4, <3>1, ZenonT(30)
        <3>3. /\ gap = i \/ gaps[gap].end < gaps[i].start
              /\ i = endGap \/ gaps[i].end < gaps[endGap].start
            BY <1>3, <1>6, <2>5, SMTT(30), Z3T(30)
        <3>4. begin <= gaps[gap].end /\ gaps[endGap].start < limit
            BY ZenonT(30) DEF Hits
        <3>5. gaps[i].start <= x /\ x < gaps[i].end /\ (x < begin \/ limit <= x)
            BY <2>5 DEF InGap
        <3>6. x < begin => gap = i
            BY <3>2, <3>3, <3>4, <3>5, SMTT(30), Z3T(30)
        <3>7. limit <= x => i = endGap
            BY <3>2, <3>3, <3>4, <3>5, SMTT(30), Z3T(30)
        <3>8. QED
            BY <3>5, <3>6, <3>7, ZenonT(30) DEF gs, ge
    <2>6. ASSUME NEW i \in DOMAIN gaps', InGap(x, gaps'[i])
          PROVE  (\E j \in DOMAIN gaps : InGap(x, gaps[j])) /\ ~(begin <= x /\ x < limit)
        <3>1. ASSUME (gs <= x /\ x < begin) \/ (limit <= x /\ x < ge)
              PROVE  (\E j \in DOMAIN gaps : InGap(x, gaps[j])) /\ ~(begin <= x /\ x < limit)
            BY <1>3, <1>7, <2>3, <2>4, <3>1, SMTT(30), Z3T(30)
        <3>2. QED
            BY <1>2, <1>12, <2>1, <2>2, <2>6, <3>1, ZenonT(30)
    <2>7. ASSUME NEW i \in DOMAIN gaps, InGap(x, gaps[i]), ~(begin <= x /\ x < limit)
          PROVE  \E j \in DOMAIN gaps' : InGap(x, gaps'[j])
        <3>1. i < gap \/ (i >= gap /\ i <= endGap) \/ i > endGap
            BY <1>3, SMTT(30), Z3T(30)
        <3>2. QED
            BY <1>2, <1>12, <2>5, <2>7, <3>1, ZenonT(30)
    <2>8. QED
        BY <2>6, <2>7, Zenon
<1>14. QED
    BY <1>11, <1>13, ZenonT(30)

\* A frame that starts where a queued frame starts is cut to the bytes after
\* that one, all of which were received.
LEMMA BeginCuts ==
    ASSUME SInv, NEW offset \in 0..Length
    PROVE  Begin(offset) \in Nat /\ offset <= Begin(offset) /\ offset..(Begin(offset) - 1) \subseteq received
<1>1. CASE offset \in DOMAIN queue
    <2>1. PICK k \in offset..Length :
             queue[offset] = Data(offset, k) /\ offset..(k - 1) \subseteq received
        BY <1>1, Zenon DEF SInv, QueueOK
    <2>2. Len(queue[offset]) = k - offset
        BY <2>1, SorterAssumption, SMTT(30), Z3T(30) DEF Data
    <2>3. Begin(offset) = k
        BY <1>1, <2>1, <2>2, SorterAssumption, SMTT(30), Z3T(30) DEF Begin
    <2>4. QED
        BY <2>1, <2>3, SorterAssumption, SMTT(30), Z3T(30)
<1>2. CASE offset \notin DOMAIN queue
    BY <1>2, SorterAssumption, SMTT(30), Z3T(30) DEF Begin
<1>3. QED
    BY <1>1, <1>2, ZenonT(30)

\* The byte after the last one of the stream is never received: it is in the
\* last gap.
LEMMA LastGap ==
    ASSUME GInv
    PROVE  \E z \in DOMAIN gaps : gaps[z].end = Length + 1 /\ gaps[z].start <= Length
<1>1. Length \in 0..Length /\ Length \notin 0..(Length - 1)
    BY SorterAssumption
<1>2. PICK z \in DOMAIN gaps : InGap(Length, gaps[z])
    BY <1>1, ZenonT(30) DEF GInv, Exact
<1>3. gaps[z] \in Gap /\ gaps[z].end <= Length + 1
    BY DEF GInv, Sorted
<1>4. QED
    BY <1>2, <1>3, SorterAssumption, SMTT(30), Z3T(30) DEF InGap, Gap

\* Where the loops of push stop.
LEMMA LoopsHit ==
    ASSUME GInv, NEW begin \in Nat, NEW limit \in Nat, begin < limit, limit <= Length
    PROVE  LET first == FirstGap(begin, limit)
               gap == Min(first)
               last == EndGap(gap, limit)
           IN  /\ first # {} /\ gap \in DOMAIN gaps
               /\ \A i \in DOMAIN gaps : i < gap => gaps[i].end < begin
               /\ limit <= gaps[gap].start \/ (last # {} /\ Hits(gap, Min(last), begin, limit))
<1> DEFINE first == FirstGap(begin, limit)
           gap == Min(first)
           last == EndGap(gap, limit)
           endGap == Min(last)
<1>1. /\ gaps \in Seq(Gap) /\ Len(gaps) \in Nat /\ DOMAIN gaps = 1..Len(gaps)
      /\ \A i \in DOMAIN gaps : gaps[i] \in Gap /\ gaps[i].start < gaps[i].end
      /\ \A i, j \in DOMAIN gaps : i < j => gaps[i].end < gaps[j].start
    BY DEF GInv, Sorted
<1>2. \A i \in DOMAIN gaps : gaps[i].start \in Nat /\ gaps[i].end \in Nat
    BY <1>1, ZenonT(30) DEF Gap
<1>3. PICK z \in DOMAIN gaps : gaps[z].end = Length + 1
    BY LastGap, ZenonT(30)
<1>4. z \in first
    BY <1>3, SorterAssumption, SMTT(30), Z3T(30) DEF FirstGap
<1>5. first \in SUBSET Nat /\ first \subseteq DOMAIN gaps
    BY <1>1 DEF FirstGap
<1>6. gap \in first /\ \A i \in first : gap <= i
    <2> HIDE DEF first
    <2>1. QED
        BY <1>4, <1>5, MinInSet, Zenon
<1> HIDE DEF gap
<1>7. gap \in DOMAIN gaps /\ (limit <= gaps[gap].start \/ begin <= gaps[gap].end)
    BY <1>6, ZenonT(30) DEF FirstGap
<1>8. ASSUME NEW i \in DOMAIN gaps, i < gap
      PROVE  gaps[i].end < begin
    <2>1. i \notin first
        BY <1>1, <1>6, <1>7, <1>8, SMTT(30), Z3T(30)
    <2>2. QED
        BY <1>2, <2>1, SMTT(30), Z3T(30) DEF FirstGap
<1>9. ASSUME ~(limit <= gaps[gap].start)
      PROVE  last # {} /\ Hits(gap, endGap, begin, limit)
    <2>1. begin <= gaps[gap].end
        BY <1>7, <1>9, ZenonT(30)
    <2>2. z \in last
        <3>1. z >= gap
            BY <1>1, <1>3, <1>7, <1>8, SorterAssumption, SMTT(30), Z3T(30)
        <3>2. z \in gap..Len(gaps) /\ limit < gaps[z].end
            BY <1>1, <1>3, <1>7, <3>1, SorterAssumption, SMTT(30), Z3T(30)
        <3>3. QED
            BY <3>2, ZenonT(30) DEF EndGap
    <2>3. last \in SUBSET Nat /\ last \subseteq gap..Len(gaps)
        BY <1>1, <1>7, SMTT(30), Z3T(30) DEF EndGap
    <2>4. endGap \in last /\ \A i \in last : endGap <= i
        <3> HIDE DEF last
        <3>1. QED
            BY <2>2, <2>3, MinInSet, ZenonT(60)
    <2> HIDE DEF endGap
    <2>5. endGap \in gap..Len(gaps) /\ endGap \in DOMAIN gaps /\ gap <= endGap
        BY <1>1, <1>7, <2>3, <2>4, SMTT(30), Z3T(30)
    <2>6. limit < gaps[endGap].end \/ (endGap < Len(gaps) /\ limit <= gaps[endGap + 1].start)
        BY <2>4, ZenonT(30) DEF EndGap
    <2>7. gaps[endGap].start < limit
        <3>1. CASE endGap = gap
            BY <1>2, <1>9, <2>5, <3>1, SMTT(30), Z3T(30)
        <3>2. CASE endGap # gap
            <4> DEFINE i == endGap - 1
            <4>1. i \in gap..Len(gaps) /\ i < Len(gaps) /\ i < endGap /\ i + 1 = endGap
                BY <1>1, <1>7, <2>5, <3>2, SMTT(30), Z3T(30)
            <4> HIDE DEF i
            <4>2. i \notin last
                BY <1>1, <1>7, <2>4, <2>5, <4>1, SMTT(30), Z3T(30)
            <4>3. ~(limit <= gaps[i + 1].start)
                BY <4>1, <4>2, ZenonT(30) DEF EndGap
            <4>4. QED
                BY <1>2, <2>5, <4>1, <4>3, SMTT(30), Z3T(30)
        <3>3. QED
            BY <3>1, <3>2, ZenonT(30)
    <2>8. ASSUME NEW i \in DOMAIN gaps, i > endGap
          PROVE  limit <= gaps[i].start
        <3>1. gaps[endGap].end < gaps[i].start
            BY <1>1, <2>5, <2>8, ZenonT(30)
        <3>2. CASE limit < gaps[endGap].end
            BY <1>2, <2>5, <3>1, <3>2, SMTT(30), Z3T(30)
        <3>3. CASE endGap < Len(gaps) /\ limit <= gaps[endGap + 1].start
            <4>1. endGap + 1 \in DOMAIN gaps /\ (endGap + 1 = i \/ endGap + 1 < i)
                BY <1>1, <2>5, <2>8, <3>3, SMTT(30), Z3T(30)
            <4>2. endGap + 1 < i => gaps[endGap + 1].end < gaps[i].start
                BY <1>1, <4>1, ZenonT(30)
            <4>3. /\ gaps[endGap + 1].start < gaps[endGap + 1].end
                  /\ gaps[endGap + 1].start \in Nat /\ gaps[endGap + 1].end \in Nat
                BY <1>1, <1>2, <4>1, ZenonT(30)
            <4>4. CASE endGap + 1 = i
                BY <3>3, <4>4, ZenonT(30)
            <4>5. CASE endGap + 1 < i
                BY <1>2, <3>3, <4>2, <4>3, <4>5, SMTT(30), Z3T(30)
            <4>6. QED
                BY <4>1, <4>4, <4>5, ZenonT(30)
        <3>4. QED
            BY <2>6, <3>2, <3>3, ZenonT(30)
    <2>9. Hits(gap, endGap, begin, limit)
        BY <1>7, <1>8, <2>1, <2>5, <2>7, <2>8, ZenonT(60) DEF Hits
    <2>10. QED
        BY <2>2, <2>9, ZenonT(30)
<1>10. QED
    BY <1>4, <1>7, <1>8, <1>9, ZenonT(30) DEF gap

\* Push takes the offsets it received out of the gaps, and finds the gaps to do so.
LEMMA PushGaps ==
    ASSUME SInv, GInv, NEW offset \in 0..Length, NEW limit \in offset..Length,
           NEW fin \in BOOLEAN, Push(offset, limit, fin)
    PROVE  GInv'
<1> DEFINE begin == Begin(offset)
           first == FirstGap(begin, limit)
           gap == Min(first)
           last == EndGap(gap, limit)
<1>1. /\ begin \in Nat /\ offset <= begin /\ offset..(begin - 1) \subseteq received
      /\ offset \in Nat /\ limit \in Nat /\ offset <= limit /\ limit <= Length /\ Length \in Nat
    BY BeginCuts, SorterAssumption, SMTT(30), Z3T(30)
<1>2. err = "none" /\ received' = received \cup (offset..(limit - 1))
    BY ZenonT(30) DEF Push
<1>3. received' \subseteq 0..(Length - 1)
    BY <1>1, <1>2, SMTT(30), Z3T(30) DEF GInv
<1>4. ASSUME UNCHANGED <<gaps, err>>, offset..(limit - 1) \subseteq received
      PROVE  GInv'
    <2>1. received' = received
        BY <1>2, <1>4, ZenonT(30)
    <2>2. QED
        BY <1>4, <2>1, Zenon DEF GInv, Sorted, Exact, InGap
<1>5. CASE offset = limit \/ limit <= begin
    <2>1. UNCHANGED <<gaps, err>>
        BY <1>5, ZenonT(30) DEF Push, Ignore
    <2>2. offset..(limit - 1) \subseteq received
        BY <1>1, <1>5, SMTT(30), Z3T(30)
    <2>3. QED
        BY <1>4, <2>1, <2>2, ZenonT(30)
<1>6. CASE ~(offset = limit \/ limit <= begin)
    <2> HIDE DEF begin
    <2>1. /\ first # {} /\ gap \in DOMAIN gaps
          /\ \A i \in DOMAIN gaps : i < gap => gaps[i].end < begin
          /\ limit <= gaps[gap].start \/ (last # {} /\ Hits(gap, Min(last), begin, limit))
        <3>1. begin < limit
            BY <1>1, <1>6, SMTT(30), Z3T(30)
        <3>2. QED
            BY <1>1, <3>1, LoopsHit, Zenon
    <2>2. CASE limit <= gaps[gap].start
        <3>1. UNCHANGED <<gaps, err>>
            BY <1>6, <2>1, <2>2, ZenonT(60) DEF Push, Ignore, begin
        <3> HIDE DEF gap, first, last
        <3>2. ASSUME NEW x \in begin..(limit - 1), NEW i \in DOMAIN gaps, InGap(x, gaps[i])
              PROVE  FALSE
            <4>1. gaps[i] \in Gap /\ gaps[gap] \in Gap /\ i \in Nat /\ gap \in Nat
                BY <2>1, SMTT(30), Z3T(30) DEF GInv, Sorted
            <4>2. CASE i < gap
                BY <1>1, <2>1, <3>2, <4>1, <4>2, SMTT(30), Z3T(30) DEF InGap, Gap
            <4>3. CASE i >= gap
                <5>1. i = gap \/ gaps[gap].end < gaps[i].start
                    BY <2>1, <4>1, <4>3, SMTT(30), Z3T(30) DEF GInv, Sorted
                <5>2. gaps[gap].start < gaps[gap].end
                    BY <2>1, ZenonT(30) DEF GInv, Sorted
                <5>3. gaps[i].start >= limit
                    BY <1>1, <2>2, <4>1, <5>1, <5>2, SMTT(30), Z3T(30) DEF Gap
                <5>4. QED
                    BY <1>1, <3>2, <4>1, <5>3, SMTT(30), Z3T(30) DEF InGap, Gap
            <4>4. QED
                BY <4>1, <4>2, <4>3, SMTT(30), Z3T(30)
        <3>3. begin..(limit - 1) \subseteq received
            <4>1. ASSUME NEW x \in begin..(limit - 1)
                  PROVE  x \in received
                <5>1. x \in 0..Length
                    BY <1>1, SMTT(30), Z3T(30)
                <5>2. QED
                    BY <3>2, <5>1, ZenonT(30) DEF GInv, Exact
            <4>2. QED
                BY <4>1, ZenonT(30)
        <3>4. offset..(limit - 1) \subseteq received
            BY <1>1, <3>3, SMTT(30), Z3T(30)
        <3>5. QED
            BY <1>4, <3>1, <3>4, Zenon
    <2>3. CASE ~(limit <= gaps[gap].start)
        <3>1. last # {} /\ Hits(gap, Min(last), begin, limit)
            BY <2>1, <2>3, ZenonT(30)
        <3>2. Fill(gap, Min(last), begin, limit)
            BY <1>6, <2>1, <2>3, <3>1, ZenonT(60) DEF Push, begin
        <3>3. Sorted(gaps) /\ begin < limit
            BY <1>1, <1>6, SMTT(30), Z3T(30) DEF GInv
        <3> HIDE DEF gap, first, last
        <3>4. /\ Sorted(gaps')
              /\ \A x \in Nat : (\E i \in DOMAIN gaps' : InGap(x, gaps'[i])) <=>
                                 /\ \E i \in DOMAIN gaps : InGap(x, gaps[i])
                                 /\ ~(begin <= x /\ x < limit)
            BY <1>1, <3>1, <3>2, <3>3, FilledGaps, ZenonT(60)
        <3>5. Exact(gaps', received')
            <4>1. SUFFICES ASSUME NEW x \in 0..Length
                           PROVE  x \notin received' <=> \E i \in DOMAIN gaps' : InGap(x, gaps'[i])
                BY ZenonT(30) DEF Exact
            <4>2. x \notin received <=> \E i \in DOMAIN gaps : InGap(x, gaps[i])
                BY ZenonT(30) DEF GInv, Exact
            <4>3. x \notin received' <=> x \notin received /\ ~(begin <= x /\ x < limit)
                BY <1>1, <1>2, SMTT(30), Z3T(30)
            <4>4. x \in Nat
                BY <1>1, SMTT(30), Z3T(30)
            <4>5. QED
                BY <3>4, <4>2, <4>3, <4>4, ZenonT(30)
        <3>6. err' # "BUG"
            BY <1>2, <3>2, Zenon DEF Fill
        <3>7. QED
            BY <1>3, <3>4, <3>5, <3>6, ZenonT(60) DEF GInv
    <2>4. QED
        BY <2>2, <2>3, ZenonT(30)
<1>7. QED
    BY <1>5, <1>6, ZenonT(30)

\* The gap list of frameSorter is sorted, without empty or adjacent gaps, holds
\* exactly the offsets that were not received, and push never reports a BUG.
THEOREM GapsAreExact == Spec => []GapsExact
<1>1. Init => SInv /\ GInv
    <2>1. ASSUME Init
          PROVE  GInv
        <3> DEFINE g == [start |-> 0, end |-> Length + 1]
        <3>1. gaps = <<g>> /\ received = {} /\ err = "none"
            BY <2>1, ZenonT(30) DEF Init, MaxByteCount
        <3>2. g \in Gap /\ g.start = 0 /\ g.end = Length + 1
            BY SorterAssumption, SMTT(30), Z3T(30) DEF Gap
        <3> HIDE DEF g
        <3>3. gaps \in Seq(Gap) /\ DOMAIN gaps = {1} /\ gaps[1] = g
            BY <3>1, <3>2, SMTT(30), Z3T(30)
        <3>4. Sorted(gaps)
            BY <3>2, <3>3, SorterAssumption, SMTT(30), Z3T(30) DEF Sorted
        <3>5. Exact(gaps, received)
            BY <3>1, <3>2, <3>3, SorterAssumption, SMTT(30), Z3T(30) DEF Exact, InGap
        <3>6. QED
            BY <3>1, <3>4, <3>5, ZenonT(30) DEF GInv
    <2>2. QED
        BY <2>1, InitSorted, ZenonT(30)
<1>2. SInv /\ GInv /\ [Next]_vars => SInv' /\ GInv'
    <2>1. ASSUME SInv, GInv, [Next]_vars
          PROVE  GInv'
        <3>1. CASE UNCHANGED vars
            BY <2>1, <3>1, ZenonT(30) DEF vars, GInv, Sorted, Exact, InGap
        <3>2. CASE Pop
            BY <2>1, <3>2, ZenonT(30) DEF Pop, GInv, Sorted, Exact, InGap
        <3>3. ASSUME NEW offset \in 0..Length, NEW limit \in offset..Length,
                     NEW fin \in BOOLEAN, Push(offset, limit, fin)
              PROVE  GInv'
            BY <2>1, <3>3, PushGaps, ZenonT(30)
        <3>4. QED
            BY <2>1, <3>1, <3>2, <3>3, Zenon DEF Next
    <2>2. QED
        BY <2>1, StepImplements, ZenonT(30)
<1>3. GInv => GapsExact
    <2>1. ASSUME GInv
          PROVE  GapsExact
        <3>1. \A i \in DOMAIN gaps : gaps[i].start \in Nat /\ gaps[i].end \in Nat /\ gaps[i].end <= Length + 1
            <4>1. \A i \in DOMAIN gaps : gaps[i] \in Gap /\ gaps[i].end <= Length + 1
                BY <2>1, SMTT(30), Z3T(30) DEF GInv, Sorted
            <4>2. QED
                BY <4>1, ZenonT(30) DEF Gap
        <3>2. \A i \in DOMAIN gaps : gaps[i].start < gaps[i].end
            BY <2>1, ZenonT(30) DEF GInv, Sorted
        <3>3. \A i \in 1..(Len(gaps) - 1) : gaps[i].end < gaps[i + 1].start
            BY <2>1, SMTT(30), Z3T(30) DEF GInv, Sorted
        <3>4. \A i \in DOMAIN gaps : \A x \in gaps[i].start..(gaps[i].end - 1) :
                  x \in 0..Length /\ InGap(x, gaps[i])
            BY <3>1, SorterAssumption, SMTT(30), Z3T(30) DEF InGap
        <3>5. \A i \in DOMAIN gaps, x \in 0..Length :
                  InGap(x, gaps[i]) => x \in gaps[i].start..(gaps[i].end - 1)
            BY <3>1, SorterAssumption, SMTT(30), Z3T(30) DEF InGap
        <3>6. \A x \in 0..Length : x \notin received <=> \E i \in DOMAIN gaps : InGap(x, gaps[i])
            BY <2>1, ZenonT(30) DEF GInv, Exact
        <3>7. UNION {gaps[i].start..(gaps[i].end - 1) : i \in DOMAIN gaps} = (0..Length) \ received
            <4>1. ASSUME NEW x \in UNION {gaps[i].start..(gaps[i].end - 1) : i \in DOMAIN gaps}
                  PROVE  x \in (0..Length) \ received
                BY <3>4, <3>6, Zenon
            <4>2. ASSUME NEW x \in (0..Length) \ received
                  PROVE  x \in UNION {gaps[i].start..(gaps[i].end - 1) : i \in DOMAIN gaps}
                BY <3>5, <3>6, ZenonT(60)
            <4>3. QED
                BY <4>1, <4>2, ZenonT(30)
        <3>8. QED
            BY <2>1, <3>2, <3>3, <3>7, ZenonT(30) DEF GapsExact, GInv
    <2>2. QED
        BY <2>1, ZenonT(30)
<1>4. QED
    BY <1>1, <1>2, <1>3, PTL DEF Spec

-----------------------------------------------------------------------------
(* ReceivedPackets *)

Rng == [start : Int, end : Int]

\* The order of the list, for any two of its ranges.
Ordered(rs) ==
    /\ rs \in Seq(Rng)
    /\ \A i \in DOMAIN rs : rs[i].start <= rs[i].end
    /\ \A i, j \in DOMAIN rs : i < j => rs[i].end + 1 < rs[j].start

\* x is in one of the ranges.
In(x, rs) == \E i \in DOMAIN rs : rs[i].start <= x /\ x <= rs[i].end

Packet == [pn : Nat \ {0}, elicits : BOOLEAN, confirms : Nat]

\* The peer: numbers are given in order, and a packet confirms only ACK frames for
\* packets that were sent before it.
PeerInv ==
    /\ IsFiniteSet(sent) /\ sent \subseteq Packet /\ got \subseteq sent
    /\ \A q \in sent : q.pn <= Cardinality(sent) /\ q.confirms <= q.pn
    /\ largests \subseteq 1..Cardinality(sent)
    /\ confirmed \in 0..(Cardinality(sent) + 1)

RInv ==
    /\ PeerInv
    /\ ignoreBelow \in Nat /\ count \in Nat /\ tooManyRanges \in BOOLEAN
    /\ ackQueued \in BOOLEAN /\ ackAlarm \in BOOLEAN
    /\ Ordered(ranges)
    /\ ~tooManyRanges => \A x \in Int : In(x, ranges) <=> x \in Numbers(got) /\ x >= ignoreBelow
    /\ \A x \in Int : In(x, ranges) => x \in Numbers(got)
    /\ AckNotEmpty /\ AckDue

-----------------------------------------------------------------------------
(* Largest and smallest elements *)

LEMMA SmallestOf ==
    ASSUME NEW S \in SUBSET Nat, S # {}
    PROVE  \E x \in S : \A y \in S : x <= y
<1> DEFINE R == {ss \in Nat \X Nat : ss[1] < ss[2]}
<1>1. \E x \in S : \A y \in S : ~ (<<y, x>> \in R)
    <2>1. IsWellFoundedOn(R, Nat)
        BY NatLessThanWellFounded, Zenon DEF OpToRel
    <2>2. QED
        BY <2>1, WFMin, Zenon
<1>2. \A x, y \in S : ~ (<<y, x>> \in R) => x <= y
    OBVIOUS
<1>3. QED
    BY <1>1, <1>2, Zenon

\* Min, on naturals.
LEMMA MinSmallest ==
    ASSUME NEW S \in SUBSET Nat, S # {}
    PROVE  Min(S) \in S /\ \A y \in S : Min(S) <= y
BY SmallestOf, Zenon DEF Min

\* Max, on a bounded set of naturals.
LEMMA MaxLargest ==
    ASSUME NEW n \in Nat, NEW S \in SUBSET (0..n), S # {}
    PROVE  Max(S) \in S /\ \A y \in S : y <= Max(S)
<1> DEFINE T == {n - x : x \in S}
<1>1. T \in SUBSET Nat /\ T # {}
    <2>1. \A x \in S : n - x \in Nat
        OBVIOUS
    <2>2. PICK x \in S : TRUE
        BY Zenon
    <2>3. n - x \in T
        BY ZenonT(30)
    <2>4. QED
        BY <2>1, <2>3, Zenon
<1>2. PICK t \in T : \A y \in T : t <= y
    BY <1>1, SmallestOf, Zenon
<1>3. PICK m \in S : t = n - m
    BY Zenon
<1>4. \A y \in S : n - y \in T
    BY Zenon
<1>5. \A y \in S : y <= m
    BY <1>2, <1>3, <1>4, SMTT(60), Z3T(60)
<1>6. \E x \in S : \A y \in S : x >= y
    BY <1>5, Zenon
<1>7. Max(S) \in S /\ \A y \in S : Max(S) >= y
    BY <1>6, Zenon DEF Max
<1>8. QED
    BY <1>7, ZenonT(30)

-----------------------------------------------------------------------------
(* The ranges *)

LEMMA CoveredIn ==
    ASSUME NEW rs, Ordered(rs), NEW x
    PROVE  x \in PacketsIn(rs) <=> x \in Int /\ In(x, rs)
BY SMTT(30), Z3T(30) DEF PacketsIn, In, Ordered, Rng

\* A new range for p is put between the ranges up to index k and those after it.
InsertedAt(new, rs, k, p) ==
    /\ new \in Seq(Rng) /\ Len(new) = Len(rs) + 1
    /\ \A j \in 1..k : new[j] = rs[j]
    /\ new[k + 1] = [start |-> p, end |-> p]
    /\ \A j \in (k + 1)..Len(rs) : new[j + 1] = rs[j]
    /\ \A j \in 1..k : rs[j].end + 1 < p
    /\ \A j \in (k + 1)..Len(rs) : p + 1 < rs[j].start

\* The list with the new range is sorted, and holds p and what the list held.
LEMMA Inserted ==
    ASSUME NEW rs, Ordered(rs), NEW p \in Int, NEW k \in 0..Len(rs), NEW new,
           InsertedAt(new, rs, k, p)
    PROVE  Ordered(new) /\ \A x \in Int : In(x, new) <=> In(x, rs) \/ x = p
<1> DEFINE Old(j) == IF j <= k THEN j ELSE j - 1
<1>0. /\ new \in Seq(Rng) /\ Len(new) = Len(rs) + 1
      /\ \A j \in 1..k : new[j] = rs[j]
      /\ new[k + 1] = [start |-> p, end |-> p]
      /\ \A j \in (k + 1)..Len(rs) : new[j + 1] = rs[j]
      /\ \A j \in 1..k : rs[j].end + 1 < p
      /\ \A j \in (k + 1)..Len(rs) : p + 1 < rs[j].start
    BY Zenon DEF InsertedAt
<1>1. /\ Len(rs) \in Nat /\ DOMAIN rs = 1..Len(rs) /\ DOMAIN new = 1..(Len(rs) + 1)
      /\ k \in Int /\ 0 <= k /\ k <= Len(rs) /\ k + 1 \in DOMAIN new
    <2>1. rs \in Seq(Rng)
        BY Zenon DEF Ordered
    <2>2. Len(rs) \in Nat /\ DOMAIN rs = 1..Len(rs)
        BY <2>1
    <2>3. DOMAIN new = 1..Len(new)
        BY <1>0
    <2>4. k \in Int /\ 0 <= k /\ k <= Len(rs) /\ k + 1 \in 1..(Len(rs) + 1)
        BY <2>2
    <2>5. QED
        BY <1>0, <2>2, <2>3, <2>4, ZenonT(60)
<1>a. new[k + 1].start = p /\ new[k + 1].end = p
    <2>1. new[k + 1] = [start |-> p, end |-> p]
        BY <1>0, Zenon
    <2>2. QED
        BY <2>1
<1>b. ASSUME NEW j \in DOMAIN new
      PROVE  /\ j \in Int
             /\ j <= k => j \in 1..k /\ j \in 1..Len(rs)
             /\ j > k + 1 => /\ j - 1 \in (k + 1)..Len(rs) /\ (j - 1) + 1 = j
                             /\ j - 1 \in 1..Len(rs) /\ ~(j <= k)
             /\ j <= k \/ j = k + 1 \/ j > k + 1
    <2>1. j \in Int /\ 1 <= j /\ j <= Len(rs) + 1
        BY <1>1
    <2>2. Len(rs) \in Nat /\ k \in Int /\ 0 <= k /\ k <= Len(rs)
        BY <1>1, Zenon
    <2>3. j <= k => j \in 1..k /\ j \in 1..Len(rs)
        BY <2>1, <2>2, SMTT(30), Z3T(30)
    <2>4. j > k + 1 => /\ j - 1 \in (k + 1)..Len(rs) /\ (j - 1) + 1 = j
                       /\ j - 1 \in 1..Len(rs) /\ ~(j <= k)
        BY <2>1, <2>2, SMTT(30), Z3T(30)
    <2>5. j <= k \/ j = k + 1 \/ j > k + 1
        BY <2>1, <2>2, SMTT(30), Z3T(30)
    <2>6. QED
        BY <2>1, <2>3, <2>4, <2>5, ZenonT(60)
<1>2. ASSUME NEW j \in DOMAIN new, j # k + 1
      PROVE  Old(j) \in DOMAIN rs /\ new[j] = rs[Old(j)]
    <2>1. CASE j <= k
        BY <1>0, <1>1, <1>b, <2>1, ZenonT(30)
    <2>2. CASE j > k + 1
        <3>1. Old(j) = j - 1 /\ j - 1 \in DOMAIN rs
            BY <1>1, <1>b, <2>2, Zenon
        <3>2. new[(j - 1) + 1] = rs[j - 1]
            BY <1>0, <1>b, <2>2, Zenon
        <3>3. QED
            BY <1>b, <2>2, <3>1, <3>2, ZenonT(60)
    <2>3. QED
        BY <1>2, <1>b, <2>1, <2>2, ZenonT(60)
<1>3. ASSUME NEW j \in DOMAIN rs
      PROVE  \E i \in DOMAIN new : new[i] = rs[j]
    <2>0. j \in Int /\ 1 <= j /\ j <= Len(rs)
        BY <1>1
    <2>1. CASE j <= k
        <3>1. j \in 1..(Len(rs) + 1) /\ j \in 1..k
            BY <1>1, <2>0, <2>1
        <3>2. QED
            BY <1>0, <1>1, <3>1, ZenonT(30)
    <2>2. CASE j > k
        <3>1. j + 1 \in 1..(Len(rs) + 1) /\ j \in (k + 1)..Len(rs)
            BY <1>1, <2>0, <2>2
        <3>2. QED
            BY <1>0, <1>1, <3>1, ZenonT(30)
    <2>3. j <= k \/ j > k
        BY <1>1, <2>0
    <2>4. QED
        BY <2>1, <2>2, <2>3, Zenon
<1>4. ASSUME NEW i \in DOMAIN new
      PROVE  new[i].start <= new[i].end
    <2>1. CASE i = k + 1
        <3>1. p <= p
            OBVIOUS
        <3>2. QED
            BY <1>a, <2>1, <3>1, ZenonT(60)
    <2>2. CASE i # k + 1
        <3>1. Old(i) \in DOMAIN rs /\ new[i] = rs[Old(i)]
            BY <1>2, <2>2, ZenonT(30)
        <3>2. rs[Old(i)].start <= rs[Old(i)].end
            BY <3>1, Zenon DEF Ordered
        <3>3. QED
            BY <3>1, <3>2, ZenonT(30)
    <2>3. QED
        BY <2>1, <2>2, Zenon
<1>5. ASSUME NEW i \in DOMAIN new, NEW j \in DOMAIN new, i < j
      PROVE  new[i].end + 1 < new[j].start
    <2>0. i \in Int /\ j \in Int
        BY <1>b, Zenon
    <2>1. CASE i = k + 1
        <3>1. j > k + 1 /\ j # k + 1
            BY <1>1, <1>5, <2>0, <2>1
        <3>2. Old(j) \in (k + 1)..Len(rs) /\ new[j] = rs[Old(j)]
            BY <1>2, <1>b, <3>1, Zenon
        <3>3. QED
            BY <1>0, <1>a, <2>1, <3>2, ZenonT(60)
    <2>2. CASE j = k + 1
        <3>1. i <= k
            BY <1>1, <1>5, <2>0, <2>2
        <3>2. i \in 1..k /\ new[i] = rs[i]
            BY <1>0, <1>b, <3>1, ZenonT(60)
        <3>3. QED
            BY <1>0, <1>a, <2>2, <3>2, ZenonT(60)
    <2>3. CASE i # k + 1 /\ j # k + 1
        <3>1. Old(i) < Old(j)
            BY <1>1, <1>5, <2>0, <2>3
        <3>2. /\ Old(i) \in DOMAIN rs /\ Old(j) \in DOMAIN rs
              /\ new[i] = rs[Old(i)] /\ new[j] = rs[Old(j)]
            BY <1>2, <2>3, ZenonT(30)
        <3>3. rs[Old(i)].end + 1 < rs[Old(j)].start
            BY <3>1, <3>2, ZenonT(30) DEF Ordered
        <3>4. QED
            BY <3>2, <3>3, ZenonT(30)
    <2>4. QED
        BY <2>1, <2>2, <2>3, ZenonT(30)
<1>6. ASSUME NEW x \in Int
      PROVE  In(x, new) <=> In(x, rs) \/ x = p
    <2>1. ASSUME NEW i \in DOMAIN new, new[i].start <= x, x <= new[i].end
          PROVE  In(x, rs) \/ x = p
        <3>1. CASE i = k + 1
            <4>1. p <= x /\ x <= p
                BY <1>a, <2>1, <3>1, Zenon
            <4>2. QED
                BY <4>1
        <3>2. CASE i # k + 1
            BY <1>2, <2>1, <3>2, ZenonT(30) DEF In
        <3>3. QED
            BY <3>1, <3>2, ZenonT(30)
    <2>2. In(x, rs) => In(x, new)
        BY <1>3, ZenonT(30) DEF In
    <2>3. x = p => In(x, new)
        <3>1. p <= p
            OBVIOUS
        <3>2. QED
            BY <1>1, <1>a, <3>1, ZenonT(60) DEF In
    <2>4. QED
        BY <2>1, <2>2, <2>3, ZenonT(30) DEF In
<1>7. QED
    BY <1>0, <1>4, <1>5, <1>6, ZenonT(30) DEF Ordered

\* An end of the range a..b moves by one onto p, which makes it s..e.
StretchedTo(a, b, p, s, e) ==
    /\ a \in Int /\ b \in Int /\ p \in Int /\ a <= b /\ (a = p + 1 \/ b = p - 1)
    /\ s = (IF a = p + 1 THEN p ELSE a) /\ e = (IF b = p - 1 THEN p ELSE b)

\* The range holds p and what it held.
LEMMA Stretched ==
    ASSUME NEW a, NEW b, NEW p, NEW s, NEW e, StretchedTo(a, b, p, s, e)
    PROVE  /\ s <= e
           /\ \A x \in Int : s <= x /\ x <= e <=> (a <= x /\ x <= b) \/ x = p
BY SMTT(30), Z3T(30) DEF StretchedTo

\* Range k becomes el, which holds p as well.
LEMMA Extended ==
    ASSUME NEW rs, Ordered(rs), NEW p \in Int, NEW k \in DOMAIN rs, NEW el \in Rng,
           el.start <= el.end,
           \A x \in Int : el.start <= x /\ x <= el.end
                            <=> (rs[k].start <= x /\ x <= rs[k].end) \/ x = p,
           \A j \in DOMAIN rs : j < k => rs[j].end + 1 < el.start,
           \A j \in DOMAIN rs : k < j => el.end + 1 < rs[j].start
    PROVE  /\ Ordered([rs EXCEPT ![k] = el])
           /\ \A x \in Int : In(x, [rs EXCEPT ![k] = el]) <=> In(x, rs) \/ x = p
<1> DEFINE new == [rs EXCEPT ![k] = el]
<1>1. /\ new \in Seq(Rng) /\ DOMAIN new = DOMAIN rs /\ new[k] = el
      /\ \A j \in DOMAIN rs : j # k => new[j] = rs[j]
      /\ DOMAIN rs = 1..Len(rs) /\ Len(rs) \in Nat
    BY DEF Ordered
<1> HIDE DEF new
<1>2. \A i \in DOMAIN new : new[i].start <= new[i].end
    BY <1>1, ZenonT(30) DEF Ordered
<1>3. ASSUME NEW i \in DOMAIN new, NEW j \in DOMAIN new, i < j
      PROVE  new[i].end + 1 < new[j].start
    BY <1>1, <1>3, SMTT(60), Z3T(60) DEF Ordered
<1>4. ASSUME NEW x \in Int
      PROVE  In(x, new) <=> In(x, rs) \/ x = p
    <2>1. ASSUME NEW i \in DOMAIN new, new[i].start <= x, x <= new[i].end
          PROVE  In(x, rs) \/ x = p
        BY <1>1, <2>1, ZenonT(30) DEF In
    <2>2. ASSUME NEW i \in DOMAIN rs, rs[i].start <= x, x <= rs[i].end
          PROVE  In(x, new)
        BY <1>1, <2>2, ZenonT(30) DEF In
    <2>3. x = p => In(x, new)
        BY <1>1, ZenonT(30) DEF In
    <2>4. QED
        BY <2>1, <2>2, <2>3, ZenonT(30) DEF In
<1>5. QED
    BY <1>1, <1>2, <1>3, <1>4, ZenonT(60) DEF Ordered, new

\* Ranges k - 1 and k become one, when p is all that was missing between them.
MergedAt(new, rs, k, p) ==
    /\ k > 1 /\ new \in Seq(Rng) /\ Len(new) = Len(rs) - 1
    /\ \A j \in 1..(k - 2) : new[j] = rs[j]
    /\ new[k - 1] = [start |-> rs[k - 1].start, end |-> rs[k].end]
    /\ \A j \in k..(Len(rs) - 1) : new[j] = rs[j + 1]
    /\ rs[k - 1].end = p - 1 /\ rs[k].start = p + 1

\* The merged list is sorted, and holds p and what the list held.
LEMMA Merged ==
    ASSUME NEW rs, Ordered(rs), NEW p \in Int, NEW k \in DOMAIN rs, NEW new,
           MergedAt(new, rs, k, p)
    PROVE  Ordered(new) /\ \A x \in Int : In(x, new) <=> In(x, rs) \/ x = p
<1>0. /\ k > 1 /\ new \in Seq(Rng) /\ Len(new) = Len(rs) - 1
      /\ \A j \in 1..(k - 2) : new[j] = rs[j]
      /\ new[k - 1] = [start |-> rs[k - 1].start, end |-> rs[k].end]
      /\ \A j \in k..(Len(rs) - 1) : new[j] = rs[j + 1]
      /\ rs[k - 1].end = p - 1 /\ rs[k].start = p + 1
    BY Zenon DEF MergedAt
<1> DEFINE Old(j) == IF j < k THEN j ELSE j + 1
<1>1. /\ Len(rs) \in Nat /\ DOMAIN rs = 1..Len(rs) /\ DOMAIN new = 1..(Len(rs) - 1)
      /\ k \in 2..Len(rs) /\ k - 1 \in DOMAIN rs /\ k - 1 \in DOMAIN new
      /\ \A j \in DOMAIN rs : rs[j] \in Rng
    <2>1. rs \in Seq(Rng)
        BY Zenon DEF Ordered
    <2>2. Len(rs) \in Nat /\ DOMAIN rs = 1..Len(rs) /\ \A j \in DOMAIN rs : rs[j] \in Rng
        BY <2>1
    <2>3. Len(new) \in Nat /\ DOMAIN new = 1..Len(new)
        BY <1>0
    <2>4. k \in 2..Len(rs) /\ k - 1 \in 1..Len(rs) /\ k - 1 \in 1..(Len(rs) - 1)
        BY <1>0, <2>2
    <2>5. QED
        BY <1>0, <2>2, <2>3, <2>4, ZenonT(60)
<1>i. k \in Int /\ \A j \in DOMAIN new : j \in Int
    BY <1>1
<1>2. ASSUME NEW j \in DOMAIN new, j # k - 1
      PROVE  Old(j) \in DOMAIN rs /\ new[j] = rs[Old(j)]
    <2>1. CASE j < k
        <3>1. j \in 1..(k - 2) /\ j \in DOMAIN rs
            BY <1>1, <1>2, <2>1, SMTT(60), Z3T(60)
        <3>2. QED
            BY <1>0, <2>1, <3>1, ZenonT(30)
    <2>2. CASE ~(j < k)
        <3>1. j \in k..(Len(rs) - 1) /\ j + 1 \in DOMAIN rs
            BY <1>1, <2>2, SMTT(60), Z3T(60)
        <3>2. QED
            BY <1>0, <2>2, <3>1, ZenonT(30)
    <2>3. QED
        BY <2>1, <2>2, Zenon
<1>3. \A i, j \in DOMAIN rs : i < j => rs[i].end + 1 < rs[j].start
    BY ZenonT(30) DEF Ordered
<1>4. \A i \in DOMAIN rs : rs[i].start <= rs[i].end
    BY ZenonT(30) DEF Ordered
<1>5. /\ rs[k - 1].start <= p - 1 /\ p + 1 <= rs[k].end
      /\ rs[k - 1].start \in Int /\ rs[k].end \in Int
      /\ new[k - 1].start = rs[k - 1].start /\ new[k - 1].end = rs[k].end
    <2>1. rs[k - 1] \in Rng /\ rs[k] \in Rng
        BY <1>1, ZenonT(30)
    <2>2. rs[k - 1].start <= rs[k - 1].end /\ rs[k].start <= rs[k].end
        BY <1>1, <1>4, ZenonT(30)
    <2>3. \A q \in Rng : q.start \in Int /\ q.end \in Int
        BY DEF Rng
    <2>4. new[k - 1].start = rs[k - 1].start /\ new[k - 1].end = rs[k].end
        <3>1. new[k - 1] = [start |-> rs[k - 1].start, end |-> rs[k].end]
            BY <1>0, Zenon
        <3>2. QED
            BY <3>1
    <2>5. QED
        BY <1>0, <2>1, <2>2, <2>3, <2>4, ZenonT(60)
<1>6. ASSUME NEW i \in DOMAIN new
      PROVE  new[i].start <= new[i].end
    <2>1. CASE i = k - 1
        BY <1>5, <2>1, SMTT(30), Z3T(30)
    <2>2. CASE i # k - 1
        BY <1>2, <1>4, <2>2, ZenonT(30)
    <2>3. QED
        BY <2>1, <2>2, ZenonT(30)
<1>7. ASSUME NEW i \in DOMAIN new, NEW j \in DOMAIN new, i < j
      PROVE  new[i].end + 1 < new[j].start
    <2>1. CASE i = k - 1
        <3>1. j # k - 1 /\ Old(j) \in DOMAIN rs /\ new[j] = rs[Old(j)] /\ k < Old(j)
            <4>1. j # k - 1 /\ Old(j) = j + 1 /\ k < j + 1
                BY <1>i, <1>7, <2>1
            <4>2. QED
                BY <1>2, <4>1, ZenonT(60)
        <3>2. rs[k].end + 1 < rs[Old(j)].start
            BY <1>3, <3>1, ZenonT(60)
        <3>3. QED
            BY <1>5, <2>1, <3>1, <3>2, ZenonT(60)
    <2>2. CASE j = k - 1
        <3>1. i # k - 1 /\ Old(i) \in DOMAIN rs /\ new[i] = rs[Old(i)] /\ Old(i) < k - 1
            <4>1. i # k - 1 /\ Old(i) = i /\ i < k - 1
                BY <1>i, <1>7, <2>2
            <4>2. QED
                BY <1>2, <4>1, ZenonT(60)
        <3>2. rs[Old(i)].end + 1 < rs[k - 1].start
            BY <1>1, <1>3, <3>1, ZenonT(30)
        <3>3. QED
            BY <1>5, <2>2, <3>1, <3>2, ZenonT(60)
    <2>3. CASE i # k - 1 /\ j # k - 1
        <3>1. /\ Old(i) \in DOMAIN rs /\ Old(j) \in DOMAIN rs /\ Old(i) < Old(j)
              /\ new[i] = rs[Old(i)] /\ new[j] = rs[Old(j)]
            <4>1. Old(i) < Old(j)
                BY <1>i, <1>7
            <4>2. QED
                BY <1>2, <2>3, <4>1, ZenonT(60)
        <3>2. QED
            BY <1>3, <3>1, ZenonT(30)
    <2>4. QED
        BY <2>1, <2>2, <2>3, ZenonT(30)
<1>8. ASSUME NEW x \in Int
      PROVE  In(x, new) <=> In(x, rs) \/ x = p
    <2>1. ASSUME NEW i \in DOMAIN new, new[i].start <= x, x <= new[i].end
          PROVE  In(x, rs) \/ x = p
        <3>1. CASE i = k - 1
            <4>1. \/ rs[k - 1].start <= x /\ x <= rs[k - 1].end
                  \/ x = p
                  \/ rs[k].start <= x /\ x <= rs[k].end
                <5>1. rs[k - 1].start <= x /\ x <= rs[k].end
                    BY <1>5, <2>1, <3>1, ZenonT(60)
                <5>2. x <= p - 1 \/ x = p \/ p + 1 <= x
                    OBVIOUS
                <5>3. QED
                    BY <1>0, <5>1, <5>2, ZenonT(60)
            <4>2. QED
                BY <1>1, <4>1, ZenonT(30) DEF In
        <3>2. CASE i # k - 1
            BY <1>2, <2>1, <3>2, ZenonT(30) DEF In
        <3>3. QED
            BY <3>1, <3>2, ZenonT(30)
    <2>2. ASSUME NEW i \in DOMAIN rs, rs[i].start <= x, x <= rs[i].end
          PROVE  In(x, new)
        <3>1. CASE i < k - 1
            <4>1. i \in DOMAIN new /\ i \in 1..(k - 2)
                BY <1>1, <3>1, SMTT(60), Z3T(60)
            <4>2. QED
                BY <1>0, <2>2, <4>1, ZenonT(30) DEF In
        <3>2. CASE i = k - 1 \/ i = k
            <4>1. new[k - 1].start <= x /\ x <= new[k - 1].end
                <5>1. CASE i = k - 1
                    <6>1. rs[k - 1].start <= x /\ x <= p - 1
                        BY <1>0, <2>2, <5>1, ZenonT(60)
                    <6>2. QED
                        BY <1>5, <6>1
                <5>2. CASE i = k
                    <6>1. p + 1 <= x /\ x <= rs[k].end
                        BY <1>0, <2>2, <5>2, ZenonT(60)
                    <6>2. QED
                        BY <1>5, <6>1
                <5>3. QED
                    BY <3>2, <5>1, <5>2, ZenonT(30)
            <4>2. QED
                BY <1>1, <4>1, ZenonT(30) DEF In
        <3>3. CASE i > k
            <4>1. i - 1 \in DOMAIN new /\ i - 1 \in k..(Len(rs) - 1) /\ (i - 1) + 1 = i
                <5>1. i \in 1..Len(rs) /\ k \in 2..Len(rs) /\ Len(rs) \in Nat
                    BY <1>1, ZenonT(60)
                <5>2. i - 1 \in 1..(Len(rs) - 1) /\ i - 1 \in k..(Len(rs) - 1) /\ (i - 1) + 1 = i
                    BY <3>3, <5>1
                <5>3. QED
                    BY <1>1, <5>2, ZenonT(60)
            <4>2. new[i - 1] = rs[i]
                BY <1>0, <4>1, ZenonT(30)
            <4>3. QED
                BY <2>2, <4>1, <4>2, ZenonT(30) DEF In
        <3>4. QED
            <4>1. i < k - 1 \/ i = k - 1 \/ i = k \/ i > k
                BY <1>1
            <4>2. QED
                BY <3>1, <3>2, <3>3, <4>1, ZenonT(60)
    <2>3. x = p => In(x, new)
        <3>1. new[k - 1].start <= p /\ p <= new[k - 1].end
            BY <1>5, SMTT(60), Z3T(60)
        <3>2. QED
            BY <1>1, <3>1, ZenonT(30) DEF In
    <2>4. QED
        BY <2>1, <2>2, <2>3, ZenonT(60) DEF In
<1>9. QED
    BY <1>0, <1>6, <1>7, <1>8, ZenonT(30) DEF Ordered

\* What Remove and InsertAfter return.
LEMMA Removed ==
    ASSUME NEW s \in Seq(Rng), NEW k \in 1..Len(s)
    PROVE  /\ Remove(s, k) \in Seq(Rng) /\ Len(Remove(s, k)) = Len(s) - 1
           /\ \A j \in 1..(k - 1) : Remove(s, k)[j] = s[j]
           /\ \A j \in k..(Len(s) - 1) : Remove(s, k)[j] = s[j + 1]
<1> DEFINE a == SubSeq(s, 1, k - 1)
           b == SubSeq(s, k + 1, Len(s))
<1>1. a \in Seq(Rng) /\ Len(a) = k - 1 /\ \A j \in 1..(k - 1) : a[j] = s[j]
    BY SMTT(30), Z3T(30)
<1>2. b \in Seq(Rng) /\ Len(b) = Len(s) - k /\ \A j \in 1..(Len(s) - k) : b[j] = s[k + j]
    OBVIOUS
<1>3. Remove(s, k) = a \o b
    BY ZenonT(30) DEF Remove
<1> HIDE DEF a, b
<1>4. a \o b \in Seq(Rng) /\ Len(a \o b) = Len(s) - 1
    <2>1. a \in Seq(Rng) /\ b \in Seq(Rng)
        BY <1>1, <1>2, ZenonT(30)
    <2>2. a \o b \in Seq(Rng)
        BY <2>1, SMTT(30), Z3T(30)
    <2>3. Len(a \o b) = Len(a) + Len(b)
        BY <2>1, SMTT(30), Z3T(30)
    <2>4. QED
        BY <1>1, <1>2, <2>2, <2>3, SMTT(30), Z3T(30)
<1>5. \A j \in 1..(k - 1) : (a \o b)[j] = s[j]
    BY <1>1, <1>2, SMTT(30), Z3T(30)
<1>6. ASSUME NEW j \in k..(Len(s) - 1)
      PROVE  (a \o b)[j] = s[j + 1]
    <2>1. (a \o b)[j] = b[j - (k - 1)]
        BY <1>1, <1>2, SMTT(60), Z3T(60)
    <2>2. j - (k - 1) \in 1..(Len(s) - k) /\ k + (j - (k - 1)) = j + 1
        OBVIOUS
    <2>3. b[j - (k - 1)] = s[k + (j - (k - 1))]
        BY <1>2, <2>2, ZenonT(30)
    <2>4. QED
        BY <2>1, <2>2, <2>3, ZenonT(30)
<1>7. QED
    BY <1>3, <1>4, <1>5, <1>6, ZenonT(60)

LEMMA InsertedAfter ==
    ASSUME NEW s \in Seq(Rng), NEW k \in 1..Len(s), NEW e \in Rng
    PROVE  /\ InsertAfter(s, e, k) \in Seq(Rng)
           /\ Len(InsertAfter(s, e, k)) = Len(s) + 1
           /\ InsertAfter(s, e, k)[k + 1] = e
           /\ \A j \in 1..k : InsertAfter(s, e, k)[j] = s[j]
           /\ \A j \in (k + 1)..Len(s) : InsertAfter(s, e, k)[j + 1] = s[j]
<1> DEFINE a == SubSeq(s, 1, k)
           b == SubSeq(s, k + 1, Len(s))
           c == a \o <<e>>
<1>1. a \in Seq(Rng) /\ Len(a) = k /\ \A j \in 1..k : a[j] = s[j]
    BY SMTT(30), Z3T(30)
<1>2. b \in Seq(Rng) /\ Len(b) = Len(s) - k /\ \A j \in 1..(Len(s) - k) : b[j] = s[k + j]
    OBVIOUS
<1>3. InsertAfter(s, e, k) = c \o b
    BY ZenonT(30) DEF InsertAfter
<1> HIDE DEF a, b
<1>4. /\ c \in Seq(Rng) /\ Len(c) = k + 1 /\ c[k + 1] = e
      /\ \A j \in 1..k : c[j] = s[j]
    BY <1>1, SMTT(30), Z3T(30)
<1> HIDE DEF c
<1>5. c \o b \in Seq(Rng) /\ Len(c \o b) = Len(s) + 1
    <2>1. c \in Seq(Rng) /\ b \in Seq(Rng)
        BY <1>2, <1>4, ZenonT(30)
    <2>2. c \o b \in Seq(Rng)
        BY <2>1, SMTT(30), Z3T(30)
    <2>3. Len(c \o b) = Len(c) + Len(b)
        BY <2>1, SMTT(30), Z3T(30)
    <2>4. QED
        BY <1>2, <1>4, <2>2, <2>3, SMTT(30), Z3T(30)
<1>6. \A j \in 1..(k + 1) : (c \o b)[j] = c[j]
    BY <1>2, <1>4, SMTT(30), Z3T(30)
<1>7. ASSUME NEW j \in (k + 1)..Len(s)
      PROVE  (c \o b)[j + 1] = s[j]
    <2>1. (c \o b)[j + 1] = b[(j + 1) - (k + 1)]
        BY <1>2, <1>4, SMTT(60), Z3T(60)
    <2>2. (j + 1) - (k + 1) = j - k /\ j - k \in 1..(Len(s) - k) /\ k + (j - k) = j
        BY SMTT(30), Z3T(30)
    <2>3. b[j - k] = s[k + (j - k)]
        BY <1>2, <2>2, ZenonT(30)
    <2>4. QED
        BY <2>1, <2>2, <2>3, ZenonT(60)
<1>8. (c \o b)[k + 1] = e /\ \A j \in 1..k : (c \o b)[j] = s[j]
    <2>1. k + 1 \in 1..(k + 1) /\ \A j \in 1..k : j \in 1..(k + 1)
        OBVIOUS
    <2>2. QED
        BY <1>4, <1>6, <2>1, ZenonT(30)
<1>9. QED
    BY <1>3, <1>5, <1>7, <1>8, ZenonT(60)

\* receivedPacketHistory.ReceivedPacket adds p, and keeps the list sorted and
\* without adjacent ranges.
LEMMA Added ==
    ASSUME Ordered(ranges), NEW p \in Int
    PROVE  /\ Ordered(AddToRanges(p))
           /\ \A x \in Int : In(x, AddToRanges(p)) <=> In(x, ranges) \/ x = p
<1> DEFINE n == Len(ranges)
           below == {j \in DOMAIN ranges : ranges[j].start <= p + 1}
           k == Max(below)
           r == ranges[k]
           el == [start |-> IF r.start = p + 1 THEN p ELSE r.start,
                  end   |-> IF r.end = p - 1 THEN p ELSE r.end]
           one == [start |-> p, end |-> p]
<1>1. /\ n \in Nat /\ DOMAIN ranges = 1..n /\ ranges \in Seq(Rng) /\ one \in Rng
      /\ \A j \in DOMAIN ranges : ranges[j].start \in Int /\ ranges[j].end \in Int
    <2>1. ranges \in Seq(Rng) /\ one \in Rng
        BY ZenonT(30) DEF Ordered, Rng
    <2>2. n \in Nat /\ DOMAIN ranges = 1..n /\ \A j \in DOMAIN ranges : ranges[j] \in Rng
        BY <2>1, SMTT(30), Z3T(30)
    <2>3. \A q \in Rng : q.start \in Int /\ q.end \in Int
        BY ZenonT(30) DEF Rng
    <2>4. QED
        BY <2>1, <2>2, <2>3, ZenonT(60)
<1>2. \A j \in DOMAIN ranges : ranges[j].start <= ranges[j].end
    BY ZenonT(30) DEF Ordered
<1>3. \A i, j \in DOMAIN ranges : i < j => ranges[i].end + 1 < ranges[j].start
    BY ZenonT(30) DEF Ordered
<1>4. CASE below = {}
    <2>1. AddToRanges(p) = <<one>> \o ranges
        BY <1>4, ZenonT(60) DEF AddToRanges
    <2> DEFINE new == <<one>> \o ranges
    <2>2. /\ new \in Seq(Rng) /\ Len(new) = n + 1 /\ new[1] = one
          /\ \A j \in 1..n : new[j + 1] = ranges[j]
        BY <1>1, SMTT(30), Z3T(30)
    <2>3. \A j \in 1..n : p + 1 < ranges[j].start
        BY <1>1, <1>4, SMTT(60), Z3T(60)
    <2> HIDE DEF new
    <2>4. Ordered(new) /\ \A x \in Int : In(x, new) <=> In(x, ranges) \/ x = p
        <3>1. 0 \in 0..n /\ 0 + 1 = 1 /\ 1..0 = {}
            BY <1>1, SMTT(30), Z3T(30)
        <3>2. InsertedAt(new, ranges, 0, p)
            BY <2>2, <2>3, <3>1, ZenonT(60) DEF InsertedAt
        <3>3. QED
            BY <3>1, <3>2, Inserted, ZenonT(60)
    <2>5. QED
        BY <2>1, <2>4, ZenonT(30) DEF new
<1>5. CASE below # {}
    <2>1. k \in below /\ \A j \in below : j <= k
        <3>1. below \in SUBSET (0..n)
            BY <1>1, SMTT(30), Z3T(30)
        <3>2. QED
            BY <1>1, <1>5, <3>1, MaxLargest, ZenonT(60)
    <2> HIDE DEF k
    <2>2. k \in 1..n /\ k \in DOMAIN ranges /\ r.start <= p + 1
        BY <1>1, <2>1, ZenonT(60)
    <2>3. \A j \in DOMAIN ranges : k < j => p + 1 < ranges[j].start
        BY <1>1, <2>1, <2>2, SMTT(60), Z3T(60)
    <2>4. /\ r \in Rng /\ r.start \in Int /\ r.end \in Int /\ r.start <= r.end
          /\ r = [start |-> r.start, end |-> r.end]
        <3>1. r \in Rng
            BY <1>1, <2>2, SMTT(30), Z3T(30)
        <3>2. r = [start |-> r.start, end |-> r.end]
            BY <3>1, ZenonT(30) DEF Rng
        <3>3. QED
            BY <1>1, <1>2, <2>2, <3>1, <3>2, ZenonT(60)
    <2>5. CASE r.start <= p /\ p <= r.end
        <3>1. p \in r.start..r.end
            BY <2>4, <2>5, SMTT(30), Z3T(30)
        <3>2. AddToRanges(p) = ranges
            BY <1>5, <3>1, ZenonT(60) DEF AddToRanges, k
        <3>3. In(p, ranges)
            BY <2>2, <2>5, ZenonT(30) DEF In
        <3>4. QED
            BY <3>2, <3>3, ZenonT(30)
    <2>6. CASE ~(r.start <= p /\ p <= r.end)
        <3>1. p \notin r.start..r.end
            BY <2>4, <2>6, SMTT(30), Z3T(30)
        <3>2. r.start = p + 1 \/ r.end < p
            BY <2>2, <2>4, <2>6, SMTT(30), Z3T(30)
        <3>3. AddToRanges(p) =
                IF el # r /\ k > 1 /\ ranges[k - 1].end + 1 = el.start
                THEN Remove([ranges EXCEPT ![k - 1].end = el.end], k)
                ELSE IF el # r THEN [ranges EXCEPT ![k] = el]
                ELSE InsertAfter(ranges, one, k)
            BY <1>5, <3>1, ZenonT(60) DEF AddToRanges, k
        <3>4. el = [start |-> IF r.start = p + 1 THEN p ELSE r.start,
                    end |-> IF r.end = p - 1 THEN p ELSE r.end]
            BY ZenonT(30)
        <3> HIDE DEF el
        <3>5. el.start = (IF r.start = p + 1 THEN p ELSE r.start)
              /\ el.end = (IF r.end = p - 1 THEN p ELSE r.end) /\ el \in Rng
            BY <2>4, <3>4, ZenonT(30) DEF Rng
        <3>6. el # r <=> r.start = p + 1 \/ r.end = p - 1
            BY <2>4, <3>4, <3>5, SMTT(30), Z3T(30)
        <3>7. \A j \in DOMAIN ranges : j < k => ranges[j].end + 1 < r.start
            BY <1>3, <2>2, ZenonT(30)
        <3>8. CASE el # r /\ k > 1 /\ ranges[k - 1].end + 1 = el.start
            <4> DEFINE longer == [ranges EXCEPT ![k - 1].end = el.end]
                       new == Remove(longer, k)
            <4>1. /\ k - 1 \in DOMAIN ranges /\ ranges[k - 1] \in Rng
                  /\ ranges[k - 1].end + 1 < r.start
                <5>1. k - 1 \in 1..n /\ k - 1 < k
                    BY <1>1, <2>2, <3>8, SMTT(30), Z3T(30)
                <5>2. \A j \in DOMAIN ranges : ranges[j] \in Rng
                    BY <1>1, SMTT(30), Z3T(30)
                <5>3. QED
                    BY <1>1, <3>7, <5>1, <5>2, ZenonT(60)
            <4>2. r.start = p + 1 /\ ranges[k - 1].end = p - 1 /\ el.end = r.end
                BY <1>1, <2>4, <3>2, <3>5, <3>6, <3>8, <4>1, SMTT(60), Z3T(60)
            <4>3. /\ longer \in Seq(Rng) /\ Len(longer) = n
                  /\ longer[k - 1] = [start |-> ranges[k - 1].start, end |-> r.end]
                  /\ \A j \in 1..n : j # k - 1 => longer[j] = ranges[j]
                <5>1. [ranges[k - 1] EXCEPT !.end = r.end]
                          = [start |-> ranges[k - 1].start, end |-> r.end]
                    BY <4>1, SMTT(30), Z3T(30) DEF Rng
                <5>2. [ranges[k - 1] EXCEPT !.end = r.end] \in Rng
                    BY <2>4, <4>1, ZenonT(30) DEF Rng
                <5>3. longer = [ranges EXCEPT ![k - 1] = [ranges[k - 1] EXCEPT !.end = r.end]]
                    BY <4>2, ZenonT(30)
                <5>4. QED
                    BY <1>1, <4>1, <5>1, <5>2, <5>3, SMTT(60), Z3T(60)
            <4> HIDE DEF longer
            <4>4. /\ new \in Seq(Rng) /\ Len(new) = n - 1
                  /\ \A j \in 1..(k - 1) : new[j] = longer[j]
                  /\ \A j \in k..(n - 1) : new[j] = longer[j + 1]
                <5>1. k \in 1..Len(longer)
                    BY <2>2, <4>3, Zenon
                <5>2. QED
                    BY <4>3, <5>1, Removed, ZenonT(60)
            <4> HIDE DEF new
            <4>5. /\ \A j \in 1..(k - 2) : new[j] = ranges[j]
                  /\ new[k - 1] = [start |-> ranges[k - 1].start, end |-> r.end]
                  /\ \A j \in k..(n - 1) : new[j] = ranges[j + 1]
                <5>1. k - 1 \in 1..(k - 1) /\ k > 1
                    BY <2>2, <3>8, SMTT(60), Z3T(60)
                <5>2. \A j \in 1..(k - 2) : j \in 1..(k - 1) /\ j \in 1..n /\ j # k - 1
                    BY <1>1, <2>2, SMTT(60), Z3T(60)
                <5>3. \A j \in k..(n - 1) : j + 1 \in 1..n /\ j + 1 # k - 1
                    BY <1>1, <2>2, SMTT(60), Z3T(60)
                <5>4. \A j \in 1..(k - 2) : new[j] = ranges[j]
                    BY <4>3, <4>4, <5>2, ZenonT(60)
                <5>5. new[k - 1] = [start |-> ranges[k - 1].start, end |-> r.end]
                    BY <4>3, <4>4, <5>1, ZenonT(60)
                <5>6. \A j \in k..(n - 1) : new[j] = ranges[j + 1]
                    BY <4>3, <4>4, <5>3, ZenonT(60)
                <5>7. QED
                    BY <5>4, <5>5, <5>6, ZenonT(60)
            <4>6. Ordered(new) /\ \A x \in Int : In(x, new) <=> In(x, ranges) \/ x = p
                <5>1. /\ ranges[k - 1].end = p - 1 /\ ranges[k].start = p + 1
                      /\ new[k - 1] = [start |-> ranges[k - 1].start, end |-> ranges[k].end]
                    BY <4>2, <4>5, ZenonT(60)
                <5>2. MergedAt(new, ranges, k, p)
                    BY <3>8, <4>4, <4>5, <5>1, ZenonT(60) DEF MergedAt
                <5>3. QED
                    BY <2>2, <5>2, Merged, ZenonT(60)
            <4>7. AddToRanges(p) = new
                BY <3>3, <3>8, ZenonT(60) DEF new, longer
            <4>8. QED
                BY <4>6, <4>7, ZenonT(30)
        <3>9. CASE el # r /\ ~(k > 1 /\ ranges[k - 1].end + 1 = el.start)
            <4>1. AddToRanges(p) = [ranges EXCEPT ![k] = el]
                BY <3>3, <3>9, ZenonT(60)
            <4>2. ASSUME NEW j \in DOMAIN ranges, j < k
                  PROVE  ranges[j].end + 1 < el.start
                <5>1. /\ k - 1 \in DOMAIN ranges /\ k > 1 /\ ranges[k - 1].end + 1 < r.start
                      /\ ranges[k - 1].end + 1 # el.start
                    BY <1>1, <2>2, <3>7, <3>9, <4>2, SMTT(60), Z3T(60)
                <5>2. ranges[k - 1].end + 1 < el.start
                    <6>1. ranges[k - 1].end \in Int /\ el.start \in Int
                        BY <1>1, <3>5, <5>1, ZenonT(120) DEF Rng
                    <6>2. r.start - 1 <= el.start /\ el.start <= r.start
                        BY <2>4, <3>5, SMTT(30), Z3T(30)
                    <6>3. QED
                        BY <2>4, <5>1, <6>1, <6>2, SMTT(60), Z3T(60)
                <5>3. ranges[j].end <= ranges[k - 1].end
                    <6>1. CASE j = k - 1
                        BY <1>1, <6>1, SMTT(30), Z3T(30)
                    <6>2. CASE j # k - 1
                        <7>1. j < k - 1
                            BY <1>1, <2>2, <4>2, <6>2, SMTT(60), Z3T(60)
                        <7>2. ranges[j].end + 1 < ranges[k - 1].start
                            BY <1>3, <5>1, <7>1, ZenonT(30)
                        <7>3. QED
                            BY <1>1, <1>2, <5>1, <7>2, SMTT(60), Z3T(60)
                    <6>3. QED
                        BY <6>1, <6>2, ZenonT(30)
                <5>4. QED
                    <6>1. /\ ranges[k - 1].end \in Int /\ ranges[j].end \in Int
                          /\ el.start \in Int
                        BY <1>1, <3>5, <5>1, ZenonT(30) DEF Rng
                    <6>2. QED
                        BY <5>2, <5>3, <6>1, SMTT(30), Z3T(30)
            <4>3. \A j \in DOMAIN ranges : k < j => el.end + 1 < ranges[j].start
                BY <1>1, <1>3, <2>2, <2>3, <2>4, <3>5, ZenonT(30)
            <4>4. /\ el.start <= el.end
                  /\ \A x \in Int : el.start <= x /\ x <= el.end
                                      <=> (r.start <= x /\ x <= r.end) \/ x = p
                <5>1. StretchedTo(r.start, r.end, p, el.start, el.end)
                    BY <2>4, <3>5, <3>6, <3>9, ZenonT(60) DEF StretchedTo
                <5>2. QED
                    BY <5>1, Stretched, SMTT(30), Z3T(30)
            <4>5. QED
                <5>1. /\ Ordered([ranges EXCEPT ![k] = el])
                      /\ \A x \in Int : In(x, [ranges EXCEPT ![k] = el])
                                            <=> In(x, ranges) \/ x = p
                    BY <2>2, <3>5, <4>2, <4>3, <4>4, Extended, ZenonT(60)
                <5>2. QED
                    BY <4>1, <5>1, Zenon
        <3>10. CASE el = r
            <4> DEFINE new == InsertAfter(ranges, one, k)
            <4>1. AddToRanges(p) = new
                BY <3>3, <3>10, ZenonT(60)
            <4>2. r.end + 1 < p
                BY <2>4, <3>2, <3>6, <3>10, SMTT(60), Z3T(60)
            <4>3. /\ new \in Seq(Rng) /\ Len(new) = n + 1 /\ new[k + 1] = one
                  /\ \A j \in 1..k : new[j] = ranges[j]
                  /\ \A j \in (k + 1)..n : new[j + 1] = ranges[j]
                <5>1. ranges \in Seq(Rng) /\ one \in Rng /\ k \in 1..Len(ranges)
                    BY <1>1, <2>2, Zenon
                <5>2. QED
                    BY <5>1, InsertedAfter, ZenonT(120)
            <4> HIDE DEF new
            <4>4. \A j \in 1..k : ranges[j].end + 1 < p
                <5> SUFFICES ASSUME NEW j \in 1..k
                             PROVE  ranges[j].end + 1 < p
                    BY Zenon
                <5>1. j \in 1..n /\ (j < k \/ j = k)
                    BY <1>1, <2>2, SMTT(30), Z3T(30)
                <5>2. CASE j = k
                    BY <4>2, <5>2, ZenonT(60)
                <5>3. CASE j < k
                    <6>1. ranges[j].end \in Int /\ ranges[j].end + 1 < r.start
                        BY <1>1, <3>7, <5>1, <5>3, ZenonT(60)
                    <6>2. QED
                        BY <2>4, <4>2, <6>1, SMTT(30), Z3T(30)
                <5>4. QED
                    BY <5>1, <5>2, <5>3, Zenon
            <4>5. \A j \in (k + 1)..n : p + 1 < ranges[j].start
                <5>1. \A j \in (k + 1)..n : j \in 1..n /\ k < j
                    BY <1>1, <2>2, SMTT(30), Z3T(30)
                <5>2. QED
                    BY <1>1, <2>3, <5>1, ZenonT(60)
            <4>6. k \in 0..n
                BY <1>1, <2>2, SMTT(30), Z3T(30)
            <4>7. QED
                <5>1. InsertedAt(new, ranges, k, p)
                    BY <4>3, <4>4, <4>5, ZenonT(60) DEF InsertedAt
                <5>2. Ordered(new) /\ \A x \in Int : In(x, new) <=> In(x, ranges) \/ x = p
                    BY <4>6, <5>1, Inserted, ZenonT(60)
                <5>3. QED
                    BY <4>1, <5>2, ZenonT(60)
        <3>11. QED
            BY <3>8, <3>9, <3>10, ZenonT(30)
    <2>7. QED
        BY <2>5, <2>6, ZenonT(30)
<1>6. QED
    BY <1>4, <1>5, ZenonT(30)

\* DeleteBelow takes away what is below p, and keeps the list sorted.
LEMMA Deleted ==
    ASSUME NEW rs, Ordered(rs), NEW p \in Int
    PROVE  /\ Ordered(DeleteBelow(rs, p))
           /\ \A x \in Int : In(x, DeleteBelow(rs, p)) <=> In(x, rs) /\ x >= p
<1> DEFINE n == Len(rs)
           S == {i \in DOMAIN rs : rs[i].end >= p} \cup {n + 1}
           first == Min(S)
           Cut(i) == [rs[i] EXCEPT !.start = IF p > @ THEN p ELSE @]
           new == [i \in 1..(n - first + 1) |-> Cut(first + i - 1)]
<1>1. DeleteBelow(rs, p) = new
    BY ZenonT(30) DEF DeleteBelow, Shortened
<1>2. /\ n \in Nat /\ DOMAIN rs = 1..n
      /\ \A j \in DOMAIN rs : rs[j] \in Rng
    BY DEF Ordered
<1>3. \A j \in DOMAIN rs : rs[j].start \in Int /\ rs[j].end \in Int
    BY <1>2, ZenonT(30) DEF Rng
<1>4. \A j \in DOMAIN rs : rs[j].start <= rs[j].end
    BY ZenonT(30) DEF Ordered
<1>5. \A i, j \in DOMAIN rs : i < j => rs[i].end + 1 < rs[j].start
    BY ZenonT(30) DEF Ordered
<1>6. first \in S /\ \A y \in S : first <= y
    <2>1. S \in SUBSET Nat /\ S # {}
        BY <1>2, SMTT(30), Z3T(30)
    <2>2. QED
        BY <2>1, MinSmallest, ZenonT(60)
<1> HIDE DEF first
<1>7. first \in 1..(n + 1)
    BY <1>2, <1>6, SMTT(30), Z3T(30)
<1>8. \A j \in DOMAIN rs : j < first => rs[j].end < p
    BY <1>2, <1>3, <1>6, <1>7, SMTT(60), Z3T(60)
<1>9. \A j \in DOMAIN rs : first <= j => rs[j].end >= p
    <2> SUFFICES ASSUME NEW j \in DOMAIN rs, first <= j
                 PROVE  rs[j].end >= p
        BY ZenonT(30)
    <2>1. first \in DOMAIN rs /\ rs[first].end >= p
        BY <1>2, <1>6, <1>7, SMTT(30), Z3T(30)
    <2>2. CASE first = j
        BY <2>1, <2>2, ZenonT(30)
    <2>3. CASE first < j
        <3>1. rs[first].end + 1 < rs[j].start
            BY <1>5, <2>1, <2>3, ZenonT(30)
        <3>2. QED
            BY <1>3, <1>4, <2>1, <3>1, SMTT(30), Z3T(30)
    <2>4. QED
        BY <1>2, <1>7, <2>2, <2>3, SMTT(60), Z3T(60)
<1>10. ASSUME NEW j \in DOMAIN rs
       PROVE  /\ Cut(j) \in Rng /\ Cut(j).end = rs[j].end
              /\ Cut(j).start = IF p > rs[j].start THEN p ELSE rs[j].start
    BY <1>2, <1>3, ZenonT(30) DEF Rng
<1> HIDE DEF Cut
<1>11. /\ DOMAIN new = 1..(n - first + 1)
       /\ \A i \in DOMAIN new : first + i - 1 \in DOMAIN rs /\ new[i] = Cut(first + i - 1)
    BY <1>2, <1>7, SMTT(30), Z3T(30)
<1>12. new \in Seq(Rng)
    <2>1. n - first + 1 \in Nat
        BY <1>2, <1>7, SMTT(60), Z3T(60)
    <2>2. \A i \in 1..(n - first + 1) : Cut(first + i - 1) \in Rng
        BY <1>10, <1>11, ZenonT(30)
    <2>3. QED
        BY <2>1, <2>2, SMTT(30), Z3T(30)
<1> HIDE DEF new
<1>13. ASSUME NEW i \in DOMAIN new
       PROVE  new[i].start <= new[i].end
    <2> DEFINE j == first + i - 1
    <2>1. j \in DOMAIN rs /\ new[i] = Cut(j) /\ first <= j
        BY <1>2, <1>7, <1>11, SMTT(60), Z3T(60)
    <2> HIDE DEF j
    <2>2. rs[j].end >= p /\ rs[j].start <= rs[j].end /\ rs[j].start \in Int /\ rs[j].end \in Int
        BY <1>3, <1>4, <1>9, <2>1, ZenonT(30)
    <2>3. QED
        BY <1>10, <2>1, <2>2, ZenonT(30)
<1>14. ASSUME NEW i \in DOMAIN new, NEW h \in DOMAIN new, i < h
       PROVE  new[i].end + 1 < new[h].start
    <2> DEFINE j == first + i - 1
               k == first + h - 1
    <2>1. /\ j \in DOMAIN rs /\ new[i] = Cut(j) /\ k \in DOMAIN rs /\ new[h] = Cut(k)
          /\ j < k
        BY <1>2, <1>7, <1>11, <1>14, SMTT(60), Z3T(60)
    <2> HIDE DEF j, k
    <2>2. rs[j].end + 1 < rs[k].start /\ rs[j].end \in Int /\ rs[k].start \in Int
        BY <1>3, <1>5, <2>1, ZenonT(30)
    <2>3. Cut(j).end = rs[j].end /\ Cut(k).start = IF p > rs[k].start THEN p ELSE rs[k].start
        BY <1>10, <2>1, ZenonT(30)
    <2>4. QED
        BY <2>1, <2>2, <2>3, SMTT(30), Z3T(30)
<1>15. ASSUME NEW x \in Int
       PROVE  In(x, new) <=> In(x, rs) /\ x >= p
    <2>1. ASSUME NEW i \in DOMAIN new, new[i].start <= x, x <= new[i].end
          PROVE  In(x, rs) /\ x >= p
        <3>1. PICK j \in DOMAIN rs : new[i] = Cut(j)
            BY <1>11, ZenonT(30)
        <3>2. rs[j].start \in Int /\ rs[j].end \in Int
            BY <1>3, ZenonT(30)
        <3>3. Cut(j).end = rs[j].end /\ Cut(j).start = IF p > rs[j].start THEN p ELSE rs[j].start
            BY <1>10, ZenonT(30)
        <3>4. rs[j].start <= x /\ x <= rs[j].end /\ x >= p
            BY <2>1, <3>1, <3>2, <3>3, SMTT(60), Z3T(60)
        <3>5. QED
            BY <3>4, ZenonT(30) DEF In
    <2>2. ASSUME NEW j \in DOMAIN rs, rs[j].start <= x, x <= rs[j].end, x >= p
          PROVE  In(x, new)
        <3> DEFINE i == j - first + 1
        <3>1. j \in 1..n /\ first <= j
            BY <1>2, <1>3, <1>7, <1>8, <2>2, SMTT(30), Z3T(30)
        <3>2. i \in DOMAIN new /\ first + i - 1 = j
            BY <1>2, <1>7, <1>11, <3>1, SMTT(30), Z3T(30)
        <3>3. new[i] = Cut(j)
            BY <1>11, <3>2, ZenonT(30)
        <3> HIDE DEF i
        <3>4. Cut(j).end = rs[j].end /\ Cut(j).start = IF p > rs[j].start THEN p ELSE rs[j].start
            BY <1>10, ZenonT(30)
        <3>5. new[i].start <= x /\ x <= new[i].end
            BY <2>2, <3>3, <3>4, ZenonT(30)
        <3>6. QED
            BY <3>2, <3>5, ZenonT(30) DEF In
    <2>3. QED
        BY <2>1, <2>2, ZenonT(30) DEF In
<1>16. QED
    BY <1>1, <1>12, <1>13, <1>14, <1>15, ZenonT(60) DEF Ordered

LEMMA MaxOfTwo ==
    ASSUME NEW a \in Nat, NEW b \in Nat
    PROVE  Max({a, b}) \in {a, b} /\ a <= Max({a, b}) /\ b <= Max({a, b})
<1>1. {a, b} \in SUBSET (0..(a + b)) /\ {a, b} # {} /\ a + b \in Nat
    OBVIOUS
<1>2. QED
    BY <1>1, MaxLargest, ZenonT(60)

-----------------------------------------------------------------------------
(* Every step keeps the invariant *)

LEMMA InitReceived ==
    ASSUME ReceivedInit
    PROVE  RInv
<1>1. IsFiniteSet({}) /\ Cardinality({}) = 0
    BY FS_EmptySet, ZenonT(30)
<1>2. PeerInv
    BY <1>1, SMTT(30), Z3T(30) DEF ReceivedInit, PeerInv
<1>3. Ordered(ranges) /\ \A x \in Int : ~In(x, ranges)
    BY DEF ReceivedInit, Ordered, In
<1>4. Numbers(got) = {}
    BY ZenonT(30) DEF ReceivedInit, Numbers
<1>5. AckNotEmpty /\ AckDue
    BY ZenonT(30) DEF ReceivedInit, AckNotEmpty, AckDue
<1>6. /\ ignoreBelow \in Nat /\ count \in Nat /\ tooManyRanges \in BOOLEAN
      /\ ackQueued \in BOOLEAN /\ ackAlarm \in BOOLEAN
    BY Zenon DEF ReceivedInit
<1>7. QED
    BY <1>2, <1>3, <1>4, <1>5, <1>6, ZenonT(30) DEF RInv

\* A packet of the peer is received.  Only its own number joins the ranges, and
\* what it confirms is not above its number.
LEMMA ReceivedKeeps ==
    ASSUME RInv, NEW packet \in sent, ReceivedPacket(packet)
    PROVE  RInv'
<1> DEFINE pn == packet.pn
           ignored == pn < ignoreBelow
           added == IF ignored THEN ranges ELSE AddToRanges(pn)
<1>1. /\ pn \in Nat \ {0} /\ packet.confirms \in Nat /\ packet.elicits \in BOOLEAN
      /\ packet.confirms <= pn
    BY ZenonT(30) DEF RInv, PeerInv, Packet
<1>2. /\ ~tooManyRanges /\ got' = got \cup {packet} /\ ignoreBelow \in Nat /\ count \in Nat
      /\ UNCHANGED <<lastAck, sent, largests, confirmed, acked>>
    BY ZenonT(30) DEF RInv, ReceivedPacket
<1>3. PeerInv'
    BY <1>2, ZenonT(30) DEF RInv, PeerInv
<1>4. \A x : x \in Numbers(got') <=> x \in Numbers(got) \/ x = pn
    BY <1>2, ZenonT(30) DEF Numbers
<1>5. CASE Len(ranges) >= MaxRanges /\ ~ignored
    <2>1. tooManyRanges' = TRUE /\ UNCHANGED <<ranges, ignoreBelow, ackQueued, ackAlarm, count>>
        BY <1>5, ZenonT(30) DEF ReceivedPacket
    <2>2. AckNotEmpty' /\ AckDue'
        BY <2>1, ZenonT(30) DEF RInv, AckNotEmpty, AckDue
    <2>3. \A x \in Int : In(x, ranges') => x \in Numbers(got')
        BY <1>4, <2>1, ZenonT(30) DEF RInv
    <2>4. Ordered(ranges') /\ ignoreBelow' \in Nat /\ count' \in Nat /\ tooManyRanges' \in BOOLEAN
          /\ ackQueued' \in BOOLEAN /\ ackAlarm' \in BOOLEAN
        BY <2>1, ZenonT(30) DEF RInv
    <2>5. QED
        BY <1>3, <2>1, <2>2, <2>3, <2>4, ZenonT(30) DEF RInv, Numbers
<1>6. CASE ~(Len(ranges) >= MaxRanges /\ ~ignored)
    <2>1. /\ IF ignored THEN UNCHANGED <<ackQueued, ackAlarm, count>>
             ELSE MaybeQueueAck(packet, IsMissing(pn))
          /\ ignoreBelow' = Max({ignoreBelow, packet.confirms})
          /\ ranges' = IF ignoreBelow' > ignoreBelow
                       THEN DeleteBelow(added, ignoreBelow') ELSE added
          /\ tooManyRanges' = tooManyRanges
        BY <1>6, ZenonT(30) DEF ReceivedPacket
    <2>2. /\ ignoreBelow' \in Nat /\ ignoreBelow <= ignoreBelow'
          /\ ignoreBelow' = ignoreBelow \/ ignoreBelow' <= pn
        <3>1. /\ Max({ignoreBelow, packet.confirms}) \in {ignoreBelow, packet.confirms}
              /\ ignoreBelow <= Max({ignoreBelow, packet.confirms})
            BY <1>1, <1>2, MaxOfTwo, ZenonT(60)
        <3>2. QED
            BY <1>1, <1>2, <2>1, <3>1, ZenonT(30)
    <2>3. \A x \in Int : In(x, ranges) <=> x \in Numbers(got) /\ x >= ignoreBelow
        BY <1>2, ZenonT(30) DEF RInv
    <2>4. /\ Ordered(added)
          /\ \A x \in Int : In(x, added) <=> x \in Numbers(got') /\ x >= ignoreBelow
        <3>1. CASE ignored
            <4>1. added = ranges /\ Ordered(ranges)
                BY <3>1, ZenonT(60) DEF RInv
            <4>2. QED
                BY <1>1, <1>2, <1>4, <2>3, <3>1, <4>1, SMTT(60), Z3T(60)
        <3>2. CASE ~ignored
            <4>1. added = AddToRanges(pn) /\ Ordered(ranges) /\ pn \in Int
                BY <1>1, <3>2, SMTT(30), Z3T(30) DEF RInv
            <4>2. /\ Ordered(added)
                  /\ \A x \in Int : In(x, added) <=> In(x, ranges) \/ x = pn
                BY <4>1, Added, ZenonT(60)
            <4>3. QED
                BY <1>1, <1>2, <1>4, <2>3, <3>2, <4>2, SMTT(60), Z3T(60)
        <3>3. QED
            BY <3>1, <3>2, ZenonT(30)
    <2> HIDE DEF added
    <2>5. /\ Ordered(ranges')
          /\ \A x \in Int : In(x, ranges') <=> x \in Numbers(got') /\ x >= ignoreBelow'
        <3>1. CASE ignoreBelow' > ignoreBelow
            <4>1. ranges' = DeleteBelow(added, ignoreBelow') /\ ignoreBelow' \in Int
                BY <2>1, <2>2, <3>1, SMTT(30), Z3T(30)
            <4>2. /\ Ordered(ranges')
                  /\ \A x \in Int : In(x, ranges') <=> In(x, added) /\ x >= ignoreBelow'
                BY <2>4, <4>1, Deleted, ZenonT(60)
            <4>3. \A x \in Int : x >= ignoreBelow' => x >= ignoreBelow
                BY <1>2, <2>2, SMTT(30), Z3T(30)
            <4>4. QED
                BY <2>4, <4>2, <4>3, ZenonT(60)
        <3>2. CASE ~(ignoreBelow' > ignoreBelow)
            <4>1. ranges' = added /\ ignoreBelow' = ignoreBelow
                BY <1>2, <2>1, <2>2, <3>2, SMTT(60), Z3T(60)
            <4>2. QED
                BY <2>4, <4>1, ZenonT(30)
        <3>3. QED
            BY <3>1, <3>2, ZenonT(30)
    <2>6. CASE ignored
        <3>1. UNCHANGED <<ackQueued, ackAlarm, count, ranges, ignoreBelow, tooManyRanges>>
            BY <1>1, <1>2, <2>1, <2>2, <2>6, SMTT(60), Z3T(60) DEF added
        <3>2. AckNotEmpty'
            BY <3>1, ZenonT(60) DEF RInv, AckNotEmpty
        <3>3. AckDue'
            BY <1>1, <1>2, <2>6, <3>1, SMTT(60), Z3T(60) DEF RInv, AckDue
        <3>4. /\ count' \in Nat /\ tooManyRanges' \in BOOLEAN
              /\ ackQueued' \in BOOLEAN /\ ackAlarm' \in BOOLEAN
            BY <3>1, ZenonT(60) DEF RInv
        <3>5. QED
            BY <1>3, <2>2, <2>5, <3>2, <3>3, <3>4, ZenonT(30) DEF RInv, Numbers
    <2>7. CASE ~ignored
        <3>1. MaybeQueueAck(packet, IsMissing(pn))
            BY <2>1, <2>7, ZenonT(60)
        <3>2. ackQueued \in BOOLEAN /\ ackAlarm \in BOOLEAN /\ tooManyRanges \in BOOLEAN
            BY ZenonT(60) DEF RInv
        <3>3. count' \in Nat
            BY <1>2, <3>1, SMTT(30), Z3T(30) DEF MaybeQueueAck
        <3>4. ackQueued' \in BOOLEAN /\ ackAlarm' \in BOOLEAN
            BY <3>1, <3>2, ZenonT(60) DEF MaybeQueueAck
        <3>5. In(pn, ranges')
            BY <1>1, <1>2, <1>4, <2>2, <2>5, <2>7, SMTT(60), Z3T(60)
        <3>6. AckNotEmpty'
            BY <3>5, SMTT(30), Z3T(30) DEF AckNotEmpty, In
        <3>7. ackQueued \/ ackAlarm => ackQueued' \/ ackAlarm'
            BY <3>1, <3>2, ZenonT(60) DEF MaybeQueueAck
        <3>8. packet.elicits => ackQueued' \/ ackAlarm'
            BY <3>1, <3>2, ZenonT(60) DEF MaybeQueueAck
        <3>9. AckDue'
            <4> SUFFICES ASSUME NEW q \in got', q.elicits, q.pn >= ignoreBelow', ~tooManyRanges'
                         PROVE  ackQueued' \/ ackAlarm' \/ q.pn \in acked'
                BY Zenon DEF AckDue
            <4>1. CASE q = packet
                BY <3>8, <4>1, ZenonT(60)
            <4>2. CASE q \in got
                <5>1. q.pn \in Nat
                    BY <4>2, ZenonT(60) DEF RInv, PeerInv, Packet
                <5>2. q.pn >= ignoreBelow
                    BY <1>2, <2>2, <5>1, SMTT(60), Z3T(60)
                <5>3. ackQueued \/ ackAlarm \/ q.pn \in acked
                    BY <1>2, <4>2, <5>2, ZenonT(30) DEF RInv, AckDue
                <5>4. QED
                    BY <1>2, <3>7, <5>3, ZenonT(30)
            <4>3. QED
                BY <1>2, <4>1, <4>2, ZenonT(30)
        <3>10. QED
            BY <1>3, <2>1, <2>2, <2>5, <3>2, <3>3, <3>4, <3>6, <3>9, ZenonT(30)
            DEF RInv, Numbers
    <2>8. QED
        BY <2>6, <2>7, ZenonT(30)
<1>7. QED
    BY <1>5, <1>6, ZenonT(30)

\* An ACK frame acknowledges everything that is in the ranges, which are not empty.
LEMMA AckKeeps ==
    ASSUME RInv, GetAckFrame
    PROVE  RInv'
<1> DEFINE N == Cardinality(sent)
<1>1. /\ ~tooManyRanges /\ UNCHANGED <<ranges, ignoreBelow, tooManyRanges, sent, confirmed, got>>
      /\ ackQueued' = FALSE /\ ackAlarm' = FALSE /\ count' = 0
      /\ lastAck' = PacketsIn(ranges) /\ acked' = acked \cup PacketsIn(ranges)
      /\ largests' = largests \cup {Max(PacketsIn(ranges))}
    BY Zenon DEF GetAckFrame, GetAckRanges
<1>2. Ordered(ranges) /\ ranges # <<>> /\ IsFiniteSet(sent)
    BY Zenon DEF RInv, PeerInv, GetAckFrame, AckNotEmpty
<1>3. N \in Nat
    BY <1>2, FS_CardinalityType, ZenonT(60)
<1>4. PacketsIn(ranges) \in SUBSET (1..N)
    <2> SUFFICES ASSUME NEW x \in PacketsIn(ranges)
                 PROVE  x \in 1..N
        BY ZenonT(60)
    <2>1. x \in Int /\ In(x, ranges)
        BY <1>2, CoveredIn, ZenonT(30)
    <2>2. PICK q \in got : x = q.pn
        BY <2>1, ZenonT(60) DEF RInv, Numbers
    <2>3. q.pn \in Nat \ {0} /\ q.pn <= N
        BY Zenon DEF RInv, PeerInv, Packet
    <2>4. QED
        BY <1>3, <2>2, <2>3, SMTT(30), Z3T(30)
<1>5. PacketsIn(ranges) # {}
    <2>1. 1 \in DOMAIN ranges
        BY <1>2, SMTT(30), Z3T(30) DEF Ordered
    <2>2. ranges[1] \in Rng
        BY <1>2, <2>1, SMTT(30), Z3T(30) DEF Ordered
    <2>3. ranges[1].start \in Int /\ ranges[1].start <= ranges[1].end
        BY <1>2, <2>1, <2>2, ZenonT(60) DEF Ordered, Rng
    <2>4. In(ranges[1].start, ranges)
        BY <2>1, <2>3, SMTT(30), Z3T(30) DEF In
    <2>5. QED
        BY <1>2, <2>3, <2>4, CoveredIn, ZenonT(30)
<1>6. Max(PacketsIn(ranges)) \in 1..N
    <2>1. PacketsIn(ranges) \in SUBSET (0..N)
        BY <1>3, <1>4, SMTT(30), Z3T(30)
    <2>2. Max(PacketsIn(ranges)) \in PacketsIn(ranges)
        BY <1>3, <1>5, <2>1, MaxLargest, ZenonT(60)
    <2>3. QED
        BY <1>4, <2>2, ZenonT(60)
<1>7. PeerInv'
    BY <1>1, <1>6, ZenonT(60) DEF RInv, PeerInv
<1>8. AckNotEmpty'
    BY <1>1, ZenonT(60) DEF AckNotEmpty
<1>9. AckDue'
    <2> SUFFICES ASSUME NEW q \in got', q.elicits, q.pn >= ignoreBelow'
                 PROVE  q.pn \in acked'
        BY Zenon DEF AckDue
    <2>1. q \in got /\ q.pn >= ignoreBelow
        BY <1>1, ZenonT(60)
    <2>2. q.pn \in Int /\ q.pn \in Numbers(got)
        BY <2>1, SMTT(30), Z3T(30) DEF RInv, PeerInv, Packet, Numbers
    <2>3. In(q.pn, ranges)
        BY <1>1, <2>1, <2>2, ZenonT(60) DEF RInv
    <2>4. QED
        BY <1>1, <1>2, <2>2, <2>3, CoveredIn, ZenonT(30)
<1>10. QED
    BY <1>1, <1>7, <1>8, <1>9, ZenonT(60) DEF RInv, Numbers

\* The peer learns what was acknowledged: packets it has sent.
LEMMA PeerReceivesKeeps ==
    ASSUME RInv, PeerReceivesAck
    PROVE  RInv'
<1>1. PICK largest \in largests : confirmed' = largest + 1
    BY Zenon DEF PeerReceivesAck, LowestNotConfirmedAcked
<1>2. UNCHANGED <<ranges, ignoreBelow, lastAck, ackQueued, ackAlarm, count, tooManyRanges,
                  sent, largests, acked, got>>
    BY ZenonT(60) DEF PeerReceivesAck
<1>3. IsFiniteSet(sent) /\ largests \subseteq 1..Cardinality(sent)
    BY Zenon DEF RInv, PeerInv
<1>4. Cardinality(sent) \in Nat
    BY <1>3, FS_CardinalityType, ZenonT(60)
<1>5. confirmed' \in 0..(Cardinality(sent) + 1)
    BY <1>1, <1>3, <1>4, SMTT(60), Z3T(60)
<1>6. PeerInv'
    BY <1>2, <1>5, ZenonT(30) DEF RInv, PeerInv
<1>7. AckNotEmpty' /\ AckDue'
    BY <1>2, ZenonT(30) DEF RInv, AckNotEmpty, AckDue
<1>8. QED
    BY <1>2, <1>6, <1>7, ZenonT(30) DEF RInv, Numbers

\* The peer numbers its next packet, which is above all it knows to be
\* acknowledged.
LEMMA PeerSendsKeeps ==
    ASSUME RInv, NEW elicits \in BOOLEAN, PeerSends(elicits)
    PROVE  RInv'
<1> DEFINE N == Cardinality(sent)
<1>1. PICK c \in {0, confirmed} :
         sent' = sent \cup {[pn |-> N + 1, elicits |-> elicits, confirms |-> c]}
    BY Zenon DEF PeerSends
<1> DEFINE q == [pn |-> N + 1, elicits |-> elicits, confirms |-> c]
<1>2. UNCHANGED <<ranges, ignoreBelow, lastAck, ackQueued, ackAlarm, count, tooManyRanges,
                  largests, confirmed, acked, got>>
    BY Zenon DEF PeerSends
<1>3. /\ IsFiniteSet(sent) /\ sent \subseteq Packet /\ got \subseteq sent
      /\ \A r \in sent : r.pn <= N /\ r.confirms <= r.pn
      /\ largests \subseteq 1..N /\ confirmed \in 0..(N + 1)
    BY Zenon DEF RInv, PeerInv
<1>4. N \in Nat
    BY <1>3, FS_CardinalityType, ZenonT(30)
<1>5. c \in Nat /\ c <= N + 1
    BY <1>3, <1>4, SMTT(60), Z3T(60)
<1>6. q \in Packet /\ q.pn = N + 1 /\ q.confirms = c
    BY <1>4, <1>5, SMTT(60), Z3T(60) DEF Packet
<1> HIDE DEF q
<1>7. q \notin sent
    BY <1>3, <1>4, <1>6, SMTT(60), Z3T(60)
<1>8. IsFiniteSet(sent') /\ Cardinality(sent') = N + 1
    <2>1. sent' = sent \cup {q}
        BY <1>1, ZenonT(30) DEF q
    <2>2. QED
        BY <1>3, <1>7, <2>1, FS_AddElement, ZenonT(30)
<1>9. ASSUME NEW r \in sent'
      PROVE  r \in Packet /\ r.pn <= N + 1 /\ r.confirms <= r.pn
    <2>1. CASE r \in sent
        <3>1. r \in Packet /\ r.pn <= N /\ r.confirms <= r.pn
            BY <1>3, <2>1, ZenonT(30)
        <3>2. r.pn \in Nat
            BY <3>1, ZenonT(30) DEF Packet
        <3>3. QED
            BY <1>4, <3>1, <3>2, SMTT(30), Z3T(30)
    <2>2. CASE r = q
        BY <1>4, <1>5, <1>6, <2>2, SMTT(60), Z3T(60)
    <2>3. QED
        BY <1>1, <2>1, <2>2, ZenonT(30) DEF q
<1>10. got' \subseteq sent'
    BY <1>1, <1>2, <1>3, ZenonT(30)
<1>11. largests' \subseteq 1..(N + 1) /\ confirmed' \in 0..((N + 1) + 1)
    BY <1>2, <1>3, <1>4, SMTT(60), Z3T(60)
<1>12. PeerInv'
    BY <1>8, <1>9, <1>10, <1>11, ZenonT(30) DEF PeerInv
<1>13. AckNotEmpty' /\ AckDue'
    BY <1>2, ZenonT(30) DEF RInv, AckNotEmpty, AckDue
<1>14. QED
    BY <1>2, <1>12, <1>13, ZenonT(30) DEF RInv, Numbers

\* Nothing of the receiver changes.
LEMMA StutterReceived ==
    ASSUME RInv, UNCHANGED receivedVars
    PROVE  RInv'
<1>1. PeerInv' /\ AckNotEmpty' /\ AckDue'
    BY ZenonT(30) DEF RInv, receivedVars, PeerInv, AckNotEmpty, AckDue
<1>2. QED
    BY <1>1, ZenonT(30) DEF RInv, receivedVars, Numbers

\* The inductive invariant holds in every reachable state, for every limit on
\* ranges, every threshold and every number of packets.
THEOREM ReceivedInvariance == ReceivedSpec => []RInv
<1>1. ReceivedInit => RInv
    BY InitReceived, ZenonT(30)
<1>2. RInv /\ [ReceivedNext]_receivedVars => RInv'
    BY ReceivedKeeps, AckKeeps, PeerReceivesKeeps, PeerSendsKeeps, StutterReceived, ZenonT(60)
       DEF ReceivedNext
<1>3. QED
    BY <1>1, <1>2, PTL DEF ReceivedSpec

\* receivedPacketHistory, which only ever extends, merges, inserts and cuts
\* ranges, has exactly the packets that were received and are not below the limit,
\* sorted and without adjacent ranges.
THEOREM RangesAreExact == ReceivedSpec => []RangesExact
<1>1. ASSUME RInv
      PROVE  RangesExact
    <2>1. Ordered(ranges) /\ tooManyRanges \in BOOLEAN
        BY <1>1, ZenonT(30) DEF RInv
    <2>2. \A i \in DOMAIN ranges : ranges[i].start <= ranges[i].end
        BY <2>1, Zenon DEF Ordered
    <2>3. ASSUME NEW i \in 1..(Len(ranges) - 1)
          PROVE  ranges[i].end + 1 < ranges[i + 1].start
        <3>1. i \in DOMAIN ranges /\ i + 1 \in DOMAIN ranges /\ i < i + 1
            BY <2>1, SMTT(30), Z3T(30) DEF Ordered
        <3>2. QED
            BY <2>1, <3>1, ZenonT(60) DEF Ordered
    <2>4. ASSUME ~tooManyRanges
          PROVE  PacketsIn(ranges) = {pn \in Numbers(got) : pn >= ignoreBelow}
        <3>1. \A x \in Int : In(x, ranges) <=> x \in Numbers(got) /\ x >= ignoreBelow
            BY <1>1, <2>4, ZenonT(30) DEF RInv
        <3>2. Numbers(got) \subseteq Int
            BY <1>1, SMTT(30), Z3T(30) DEF RInv, PeerInv, Packet, Numbers
        <3>3. \A x : x \in PacketsIn(ranges) <=> x \in Int /\ In(x, ranges)
            BY <2>1, CoveredIn, Zenon
        <3>4. QED
            BY <3>1, <3>2, <3>3, ZenonT(30)
    <2>5. QED
        BY <2>2, <2>3, <2>4, ZenonT(30) DEF RangesExact
<1>2. QED
    BY <1>1, ReceivedInvariance, PTL

\* GetAckFrame never builds a frame without ranges: the packet whose ACK frame
\* made IgnoreBelow delete ranges is itself in a range that stays.
THEOREM AcksAreNotEmpty == ReceivedSpec => []AckNotEmpty
<1>1. RInv => AckNotEmpty
    BY ZenonT(30) DEF RInv
<1>2. QED
    BY <1>1, ReceivedInvariance, PTL

\* maybeQueueAck forgets no packet: until GetAckFrame acknowledges it, an ACK is
\* queued or the ack alarm is set, whatever is received in between.
THEOREM AcksAreDue == ReceivedSpec => []AckDue
<1>1. RInv => AckDue
    BY Zenon DEF RInv
<1>2. QED
    BY <1>1, ReceivedInvariance, PTL

=============================================================================
