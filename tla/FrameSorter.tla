----------------------------- MODULE FrameSorter -----------------------------
(***************************************************************************)
(* frameSorter: reassembly of the STREAM or CRYPTO frames of one stream.   *)
(* Frames arrive in any order, duplicated, and cut at other places when    *)
(* the peer retransmits, and Pop returns the stream's bytes in order.      *)
(*                                                                         *)
(* The byte at offset i of the stream is the number i, so that data cut at *)
(* the wrong place shows in what is delivered.                             *)
(***************************************************************************)
EXTENDS Integers, Sequences, FiniteSetsExt, Functions

CONSTANTS
    Length,   \* bound: the length of the stream
    MaxGaps   \* MaxStreamFrameSorterGaps

ASSUME SorterAssumption == Length \in Nat \ {0} /\ MaxGaps \in Nat \ {0}

VARIABLES
    gaps,        \* ByteIntervalList: the intervals [start, end) not yet received
    queue,       \* offset -> data
    readPos,
    finalOffset,
    received,    \* history: the offsets of all bytes that were pushed
    delivered,   \* history: what Pop returned
    err          \* the error that push returned, or "none"

vars == <<gaps, queue, readPos, finalOffset, received, delivered, err>>

MaxByteCount == Length + 1
NoData == [offset \in {} |-> <<>>]

\* The bytes of the stream from offset start up to offset end.
Data(start, end) == [i \in 1..(end - start) |-> start + i - 1]

-----------------------------------------------------------------------------
\* The data of a frame that begins where a queued one begins is cut.
Begin(offset) ==
    IF offset \in DOMAIN queue THEN offset + Len(queue[offset]) ELSE offset

\* "skip all gaps that are before this stream frame": the index of the gap the
\* loop stops at.
FirstGap(start, end) ==
    {i \in DOMAIN gaps : end <= gaps[i].start \/ start <= gaps[i].end}

\* "find the highest gaps whose Start lies before the end of the frame": the
\* indices the loop may stop at.
EndGap(gap, end) ==
    {i \in gap..Len(gaps) :
        \/ end < gaps[i].end
        \/ i < Len(gaps) /\ end <= gaps[i + 1].start}

\* Mutant of Remaining: the gap before the bytes is forgotten.
RemainingAfter(gap, endGap, start, end) ==
    IF end < gaps[endGap].end THEN <<[start |-> end, end |-> gaps[endGap].end]>> ELSE <<>>

\* The gaps that are left of gaps gap to endGap by the bytes start to end.
Remaining(gap, endGap, start, end) ==
    (IF start # gaps[gap].start THEN <<[start |-> gaps[gap].start, end |-> start]>> ELSE <<>>)
    \o
    (IF end < gaps[endGap].end THEN <<[start |-> end, end |-> gaps[endGap].end]>> ELSE <<>>)

\* Mutant of Covered: the loop runs once too often.
CoveredNext(gap, endGap) == {gaps[i].end : i \in gap..endGap}

\* "delete queued frames completely covered by the current frame": the offsets
\* at which the loop deletes.
Covered(gap, endGap) == {gaps[i].end : i \in gap..(endGap - 1)}

\* The part of a frame's data that fills the gap: data[start-begin:], and then
\* data[:end-start].
CutData(begin, limit, start, end) ==
    SubSeq(Data(begin, limit), start - begin + 1, end - begin)

Fill(gap, endGap, begin, limit) ==
    LET start == IF begin < gaps[gap].start THEN gaps[gap].start ELSE begin
        end   == IF limit > gaps[endGap].end THEN gaps[endGap].end ELSE limit
        kept  == Restrict(queue, DOMAIN queue \ Covered(gap, endGap))
    IN  /\ gaps' = SubSeq(gaps, 1, gap - 1)
                   \o Remaining(gap, endGap, start, end)
                   \o SubSeq(gaps, endGap + 1, Len(gaps))
        /\ IF Len(gaps') > MaxGaps
           THEN err' = "too many gaps" /\ queue' = kept
           ELSE /\ queue' = [o \in DOMAIN kept \cup {start} |->
                                IF o = start THEN CutData(begin, limit, start, end)
                                ELSE kept[o]]
                /\ UNCHANGED err

Ignore == UNCHANGED <<gaps, queue, err>>

Bug == err' = "BUG" /\ UNCHANGED <<gaps, queue>>

FinalOffset(limit, fin) == IF fin THEN limit ELSE finalOffset

\* Push, for the bytes from offset up to limit.
Push(offset, limit, fin) ==
    LET begin == Begin(offset)
        first == FirstGap(begin, limit)
        gap   == Min(first)
        last  == EndGap(gap, limit)
    IN  /\ err = "none"
        /\ finalOffset' = FinalOffset(limit, fin)
        /\ received' = received \cup (offset..(limit - 1))
        /\ IF offset = limit \/ limit <= begin THEN Ignore
           ELSE IF first = {} THEN Bug
           ELSE IF limit <= gaps[gap].start THEN Ignore
           ELSE IF last = {} THEN Bug
           ELSE Fill(gap, Min(last), begin, limit)
        /\ UNCHANGED <<readPos, delivered>>

Pop ==
    /\ err = "none"
    /\ readPos \in DOMAIN queue
    /\ queue' = Restrict(queue, DOMAIN queue \ {readPos})
    /\ readPos' = readPos + Len(queue[readPos])
    /\ delivered' = delivered \o queue[readPos]
    /\ UNCHANGED <<gaps, finalOffset, received, err>>

HasMoreData == DOMAIN queue # {}

-----------------------------------------------------------------------------
Init ==
    /\ gaps = <<[start |-> 0, end |-> MaxByteCount]>>
    /\ queue = NoData
    /\ readPos = 0
    /\ finalOffset = MaxByteCount
    /\ received = {}
    /\ delivered = <<>>
    /\ err = "none"

\* The peer's frames: any part of the stream, the last one with the FIN bit.
Next ==
    \/ \E offset \in 0..Length : \E limit \in offset..Length :
          \E fin \in {FALSE, limit = Length} :
              (offset < limit \/ fin) /\ Push(offset, limit, fin)
    \/ Pop

Spec == Init /\ [][Next]_vars

\* Whoever reads the stream goes on reading.
FairSpec == Spec /\ WF_vars(Pop)

Stream == INSTANCE ByteStream
          WITH arrived <- received, output <- delivered, failed <- err # "none"

-----------------------------------------------------------------------------
\* Type invariant.
TypeOK ==
    /\ gaps \in Seq([start : 0..MaxByteCount, end : 0..MaxByteCount])
    /\ DOMAIN queue \subseteq 0..Length
    /\ \A o \in DOMAIN queue : queue[o] \in Seq(0..Length)
    /\ readPos \in 0..Length
    /\ finalOffset \in 0..MaxByteCount
    /\ received \subseteq 0..Length
    /\ delivered \in Seq(0..Length)
    /\ err \in {"none", "BUG", "too many gaps"}

\* The gap list is sorted, without empty or adjacent gaps, and holds exactly the
\* offsets that were not received: push merges, cuts and splits gaps right, and
\* never reports one of its two BUG errors.
GapsExact ==
    /\ err # "BUG"
    /\ \A i \in DOMAIN gaps : gaps[i].start < gaps[i].end
    /\ \A i \in 1..(Len(gaps) - 1) : gaps[i].end < gaps[i + 1].start
    /\ UNION {gaps[i].start..(gaps[i].end - 1) : i \in DOMAIN gaps}
         = (0..Length) \ received

\* The sorter implements ByteStream: Pop returns the stream from its beginning,
\* each byte once, though queued frames overlap; and no received byte is lost,
\* with Pop the reader gets in the end every byte that arrived with all bytes
\* before it.
InOrder == Stream!FairSpec

\* "HasMoreData says if there is any more data queued at *any* offset": what is
\* queued is still to be read.
MoreDataIsUnread == HasMoreData => \E o \in received : o >= readPos

====
