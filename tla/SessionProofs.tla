---------------------------- MODULE SessionProofs ----------------------------
(***************************************************************************)
(* Three parts of a session, each for every value of its constants: the    *)
(* stream maps (StreamsMap), one stream that is written to and the framer  *)
(* (SendStream), and the scheduler of the paths (Scheduler).  They share   *)
(* no state, and each has its section.                                     *)
(*                                                                         *)
(* The stream limits hold for every limit above zero, any number of        *)
(* goroutines that open and accept, and any number of streams, when        *)
(* GetOrOpenStream is called by the run loop alone.  incomingItemsMap      *)
(* never computes how many streams are open and allowed: it only adjusts   *)
(* maxStream.  That its limits hold rests on the budget: the streams that  *)
(* are open, and those the peer may still open, are together at most       *)
(* MaxNumStreams.                                                          *)
(***************************************************************************)
EXTENDS StreamsMap, SendStream, Scheduler, Sums

-----------------------------------------------------------------------------
(* StreamsMap *)

\* The stream IDs of this type and initiator, and the one before the first.
Aligned(x) == x \in Int /\ \E k \in Int : x = First + 4 * k

\* incomingItemsMap: the streams it knows are among those it has passed, and the
\* budget is kept.
InInv ==
    /\ in \in [streams : SUBSET Int, toAccept : Int, toOpen : Int, max : Int, closed : BOOLEAN]
    /\ IsFiniteSet(in.streams)
    /\ Aligned(in.toOpen) /\ Aligned(in.max) /\ First <= in.toOpen
    /\ \A id \in in.streams : id < in.toOpen
    /\ in.toOpen <= in.max + 4
    /\ 4 * Cardinality(in.streams) + in.max + 4 - in.toOpen <= 4 * MaxNumStreams

\* No limit that was announced is above the one that is enforced.
FramesInv == \A n \in frames : n \in Nat \ {0} /\ First + 4 * (n - 1) <= in.max

\* outgoingItemsMap respects the limit it was told.
OutInv ==
    /\ out \in [next : Int, max : Int, set : BOOLEAN, blocked : BOOLEAN, closed : BOOLEAN]
    /\ Aligned(out.next)
    /\ out.set => out.max <= in.max
    /\ out.next <= in.max + 4

\* The run loop, between the two locks of GetOrOpenStream.
CallInv ==
    /\ DOMAIN call = {"run"}
    /\ call["run"] # None =>
          Aligned(call["run"]) /\ in.toOpen <= call["run"] /\ call["run"] <= in.max

LimitInv == InInv /\ FramesInv /\ OutInv /\ CallInv /\ err = "none"

\* One run loop, and a limit that allows a stream at all.
RunLoopOnly == Callers = {"run"} /\ MaxNumStreams > 0

USE DEF None

\* IDs are four apart.
LEMMA FourApart ==
    ASSUME NEW x, NEW y, Aligned(x), Aligned(y), x < y
    PROVE  x + 4 <= y
<1>1. PICK j \in Int : x = First + 4 * j
    BY Zenon DEF Aligned
<1>2. PICK k \in Int : y = First + 4 * k
    BY Zenon DEF Aligned
<1>3. First \in Int
    BY StreamsAssumption
<1>4. QED
    BY <1>1, <1>2, <1>3, SMTT(30), Z3T(30)

\* The n-th ID after an ID is one.
LEMMA AlignedPlus ==
    ASSUME NEW x, Aligned(x), NEW n \in Int
    PROVE  Aligned(x + 4 * n)
<1>1. PICK j \in Int : x = First + 4 * j
    BY Zenon DEF Aligned
<1>2. First \in Int
    BY StreamsAssumption
<1>3. x + 4 * n = First + 4 * (j + n) /\ j + n \in Int
    BY <1>1, <1>2, SMTT(30), Z3T(30)
<1>4. QED
    BY <1>2, <1>3 DEF Aligned

\* StreamNum and MaxStreamID are inverse: what a MAX_STREAMS frame says is
\* understood.
LEMMA NumOfMax ==
    ASSUME NEW x, Aligned(x), x >= First
    PROVE  StreamNum(x) \in Nat \ {0} /\ First + 4 * (StreamNum(x) - 1) = x
<1>1. PICK k \in Int : x = First + 4 * k
    BY Zenon DEF Aligned
<1>2. First \in 0..3 /\ k \in Nat
    BY <1>1, StreamsAssumption
<1>3. x \div 4 = k
    BY <1>1, <1>2
<1>4. QED
    BY <1>1, <1>2, <1>3 DEF StreamNum

LEMMA InitLimit ==
    ASSUME Init, RunLoopOnly
    PROVE  LimitInv
<1> USE StreamsAssumption
<1>1. First \in Int /\ MaxNumStreams \in Nat \ {0}
    BY DEF RunLoopOnly
<1>2. Aligned(First)
    <2>1. First = First + 4 * 0
        BY <1>1
    <2>2. QED
        BY <1>1, <2>1 DEF Aligned
<1>3. MaxStreamID(MaxNumStreams) = First + 4 * (MaxNumStreams - 1)
    BY <1>1, ZenonT(30) DEF MaxStreamID
<1>4. Aligned(First + 4 * (MaxNumStreams - 1))
    <2>1. MaxNumStreams - 1 \in Int
        BY <1>1
    <2>2. QED
        BY <1>2, <2>1, AlignedPlus, Zenon
<1>5. IsFiniteSet({}) /\ Cardinality({}) = 0
    BY FS_EmptySet, Zenon
<1>6. InInv
    BY <1>1, <1>2, <1>3, <1>4, <1>5, SMTT(30), Z3T(30) DEF Init, InInv
<1>7. FramesInv /\ OutInv
    BY <1>1, <1>2, <1>3, SMTT(30), Z3T(30) DEF Init, FramesInv, OutInv
<1>8. CallInv /\ err = "none"
    BY Zenon DEF Init, CallInv, RunLoopOnly
<1>9. QED
    BY <1>6, <1>7, <1>8, ZenonT(30) DEF LimitInv

\* openStreamImpl, in OpenStream and OpenStreamSync.
LEMMA OpenKeepsLimit ==
    ASSUME LimitInv, OpenNext \/ TooManyOpenStreams \/ UNCHANGED out,
           UNCHANGED <<in, call, frames, err>>
    PROVE  LimitInv'
<1>1. InInv' /\ FramesInv' /\ CallInv' /\ err' = "none"
    BY Zenon DEF LimitInv, InInv, FramesInv, CallInv
<1>2. OutInv'
    <2>1. CASE OpenNext
        <3>1. /\ out'.next = out.next + 4 /\ out'.max = out.max /\ out'.set = out.set
              /\ out.set /\ out.next <= out.max
            BY <2>1, Zenon DEF OpenNext, CanOpen, LimitInv, OutInv
        <3>2. Aligned(out.next + 4 * 1)
            <4>1. Aligned(out.next) /\ 1 \in Int
                BY DEF LimitInv, OutInv
            <4>2. QED
                BY <4>1, AlignedPlus, Zenon
        <3>3. out.next \in Int /\ in.max \in Int
            BY Zenon DEF LimitInv, OutInv, InInv, Aligned
        <3>4. Aligned(out'.next)
            <4>1. out.next + 4 * 1 = out'.next
                BY <3>1, <3>3
            <4>2. QED
                BY <3>2, <4>1, Zenon
        <3>5. out' \in [next : Int, max : Int, set : BOOLEAN, blocked : BOOLEAN,
                        closed : BOOLEAN]
            <4>1. out.next + 4 \in Int
                BY <3>3
            <4>2. out' = [out EXCEPT !.next = out.next + 4]
                BY <2>1, Zenon DEF OpenNext
            <4>3. QED
                BY <4>1, <4>2, Zenon DEF LimitInv, OutInv
        <3>6. QED
            BY <3>1, <3>3, <3>4, <3>5, SMTT(30), Z3T(30) DEF LimitInv, OutInv
    <2>2. CASE TooManyOpenStreams
        <3>1. out'.next = out.next /\ out'.max = out.max /\ out'.set = out.set
            BY <2>2 DEF TooManyOpenStreams
        <3>2. QED
            BY <2>2, <3>1, Zenon DEF TooManyOpenStreams, LimitInv, OutInv
    <2>3. CASE UNCHANGED out
        BY <2>3, ZenonT(30) DEF LimitInv, OutInv
    <2>4. QED
        BY <2>1, <2>2, <2>3, ZenonT(30)
<1>3. QED
    BY <1>1, <1>2, ZenonT(30) DEF LimitInv

\* MAX_STREAMS frames in any order.
LEMMA SetMaxKeepsLimit ==
    ASSUME LimitInv, NEW n \in frames, SetMaxStream(n)
    PROVE  LimitInv'
<1>1. UNCHANGED <<in, call, frames, err>>
    BY Zenon DEF SetMaxStream
<1>2. InInv' /\ FramesInv' /\ CallInv' /\ err' = "none"
    BY <1>1, ZenonT(30) DEF LimitInv, InInv, FramesInv, CallInv
<1>3. /\ out'.next = out.next /\ out'.max = MaxStreamID(n) /\ out'.set = TRUE
    BY ZenonT(30) DEF SetMaxStream, LimitInv, OutInv
<1>4. First \in Int /\ n \in Nat \ {0} /\ First + 4 * (n - 1) <= in.max
    BY StreamsAssumption DEF LimitInv, FramesInv
<1>5. out'.max \in Int /\ out'.max <= in.max
    BY <1>3, <1>4 DEF MaxStreamID
<1>6. OutInv'
    <2>1. out' \in [next : Int, max : Int, set : BOOLEAN, blocked : BOOLEAN,
                    closed : BOOLEAN]
        BY <1>3, <1>5, Zenon DEF SetMaxStream, LimitInv, OutInv
    <2>2. QED
        BY <1>1, <1>3, <1>5, <2>1, ZenonT(30) DEF LimitInv, OutInv
<1>7. QED
    BY <1>2, <1>6, ZenonT(30) DEF LimitInv

\* GetOrOpenStream under the read lock: the peer is within its limit.
LEMMA CheckKeepsLimit ==
    ASSUME LimitInv, NEW c \in Callers, NEW id \in IDs, CheckStream(c, id), RunLoopOnly
    PROVE  LimitInv'
<1>1. UNCHANGED <<out, in, frames>> /\ c = "run"
    BY ZenonT(30) DEF CheckStream, RunLoopOnly
<1>2. InInv' /\ FramesInv' /\ OutInv'
    BY <1>1, ZenonT(30) DEF LimitInv, InInv, FramesInv, OutInv
<1>3. Aligned(id)
    <2>1. PICK k \in 0..MaxOpened - 1 : id = First + 4 * k
        BY ZenonT(30) DEF IDs
    <2>2. First \in Int /\ k \in Int /\ id \in Int
        BY <2>1, StreamsAssumption
    <2>3. QED
        BY <2>1, <2>2, ZenonT(30) DEF Aligned
<1>4. id + 4 <= out.next
    <2>1. id < out.next /\ Aligned(out.next)
        BY ZenonT(30) DEF CheckStream, LimitInv, OutInv
    <2>2. QED
        BY <1>3, <2>1, FourApart, Zenon
<1>5. id \in Int /\ in.max \in Int /\ out.next \in Int /\ out.next <= in.max + 4
    BY <1>3, ZenonT(30) DEF LimitInv, OutInv, InInv, Aligned
<1>6. id <= in.max /\ ~AboveLimit(id)
    BY <1>4, <1>5, SMTT(30), Z3T(30) DEF AboveLimit
<1>7. err' = "none" /\ id >= in.toOpen /\ call' = [call EXCEPT !["run"] = id]
    BY <1>1, <1>6, ZenonT(30) DEF CheckStream, LimitInv
<1>8. CallInv'
    <2>1. DOMAIN call' = {"run"} /\ call'["run"] = id
        BY <1>7, ZenonT(30) DEF LimitInv, CallInv
    <2>2. in.toOpen <= id
        BY <1>5, <1>7, ZenonT(30) DEF LimitInv, InInv, Aligned
    <2>3. QED
        BY <1>1, <1>3, <1>6, <2>1, <2>2, ZenonT(30) DEF CallInv
<1>9. QED
    BY <1>2, <1>7, <1>8, ZenonT(30) DEF LimitInv

\* The IDs that GetOrOpenStream passes: as many as there are from
\* nextStreamToOpen to the one that was asked for.
LEMMA NewStreamsCount ==
    ASSUME LimitInv, call["run"] # None
    PROVE  LET new == NewStreams("run") IN
           /\ IsFiniteSet(new)
           /\ 4 * Cardinality(new) <= call["run"] + 4 - in.toOpen
           /\ \A id \in new : id \in Int /\ in.toOpen <= id /\ id <= call["run"]
<1> DEFINE new == NewStreams("run")
<1>1. /\ Aligned(call["run"]) /\ Aligned(in.toOpen) /\ in.toOpen <= call["run"]
    BY ZenonT(30) DEF LimitInv, CallInv, InInv
<1>2. PICK j \in Int : call["run"] = First + 4 * j
    BY <1>1, ZenonT(30) DEF Aligned
<1>3. PICK i \in Int : in.toOpen = First + 4 * i
    BY <1>1, ZenonT(30) DEF Aligned
<1>4. First \in Int
    BY StreamsAssumption
<1>5. j - i \in Nat /\ call["run"] - in.toOpen = 4 * (j - i)
    BY <1>1, <1>2, <1>3, <1>4, SMTT(30), Z3T(30)
<1>6. (call["run"] - in.toOpen) \div 4 = j - i
    BY <1>5
<1>7. new = {in.toOpen + 4 * k : k \in 0..(j - i)}
    BY <1>6, Zenon DEF NewStreams
<1>8. IsFiniteSet(0..(j - i)) /\ Cardinality(0..(j - i)) = j - i + 1
    <2>1. 0 \in Int /\ j - i \in Int /\ ~(0 > j - i)
        BY <1>5
    <2>2. IsFiniteSet(0..(j - i))
        BY <2>1, FS_Interval, Zenon
    <2>3. Cardinality(0..(j - i)) = IF 0 > j - i THEN 0 ELSE (j - i) - 0 + 1
        BY <2>1, FS_Interval, Zenon
    <2>4. QED
        BY <1>5, <2>1, <2>2, <2>3, SMTT(30), Z3T(30)
<1>9. IsFiniteSet(new) /\ Cardinality(new) <= Cardinality(0..(j - i))
    <2> DEFINE f == [k \in 0..(j - i) |-> in.toOpen + 4 * k]
    <2>1. new = {f[k] : k \in 0..(j - i)}
        BY <1>7, ZenonT(30)
    <2>2. f \in Surjection(0..(j - i), new)
        BY <1>7, ZenonT(30) DEF Surjection
    <2>3. QED
        BY <1>8, <2>2, FS_Surjection, ZenonT(30)
<1>10. 4 * Cardinality(new) <= call["run"] + 4 - in.toOpen
    <2>1. Cardinality(new) \in Nat
        BY <1>9, FS_CardinalityType, ZenonT(30)
    <2>2. QED
        BY <1>2, <1>3, <1>4, <1>8, <1>9, <2>1, SMTT(30), Z3T(30)
<1>11. \A id \in new : id \in Int /\ in.toOpen <= id /\ id <= call["run"]
    BY <1>2, <1>3, <1>4, <1>7, SMTT(30), Z3T(30)
<1>12. QED
    BY <1>9, <1>10, <1>11, ZenonT(30)

\* GetOrOpenStream under the write lock: what was allowed is open now.
LEMMA OpenUpToKeepsLimit ==
    ASSUME LimitInv, NEW c \in Callers, OpenUpTo(c), RunLoopOnly
    PROVE  LimitInv'
<1> DEFINE new == NewStreams("run")
           id == call["run"]
<1>1. c = "run" /\ id # None /\ UNCHANGED <<out, frames, err>>
    BY Zenon DEF OpenUpTo, RunLoopOnly
<1>2. /\ IsFiniteSet(new)
      /\ 4 * Cardinality(new) <= id + 4 - in.toOpen
      /\ \A x \in new : x \in Int /\ in.toOpen <= x /\ x <= id
    BY <1>1, NewStreamsCount, ZenonT(30)
<1>3. Aligned(id) /\ id \in Int /\ in.toOpen <= id /\ id <= in.max
    BY <1>1, ZenonT(30) DEF LimitInv, CallInv, Aligned
<1>4. in' = [in EXCEPT !.streams = in.streams \cup new, !.toOpen = id + 4]
    BY <1>1, ZenonT(30) DEF OpenUpTo
<1>5. /\ in'.streams = in.streams \cup new /\ in'.toOpen = id + 4 /\ in'.max = in.max
      /\ in' \in [streams : SUBSET Int, toAccept : Int, toOpen : Int, max : Int,
                  closed : BOOLEAN]
    <2>1. in.streams \cup new \in SUBSET Int /\ id + 4 \in Int
        BY <1>2, <1>3, SMTT(30), Z3T(30) DEF LimitInv, InInv
    <2>2. QED
        BY <1>4, <2>1, ZenonT(60) DEF LimitInv, InInv
<1>6. /\ IsFiniteSet(in'.streams)
      /\ Cardinality(in'.streams) \in Nat
      /\ Cardinality(in'.streams) <= Cardinality(in.streams) + Cardinality(new)
    <2>1. IsFiniteSet(in.streams) /\ IsFiniteSet(in.streams \cap new)
        BY <1>2, FS_Intersection, Zenon DEF LimitInv, InInv
    <2>2. /\ IsFiniteSet(in.streams \cup new)
          /\ Cardinality(in.streams \cup new)
                = Cardinality(in.streams) + Cardinality(new) - Cardinality(in.streams \cap new)
        BY <1>2, <2>1, FS_Union, Zenon
    <2>3. /\ Cardinality(in.streams) \in Nat /\ Cardinality(new) \in Nat
          /\ Cardinality(in.streams \cap new) \in Nat
          /\ Cardinality(in.streams \cup new) \in Nat
        BY <1>2, <2>1, <2>2, FS_CardinalityType, Zenon
    <2>4. QED
        BY <1>5, <2>2, <2>3, SMTT(30), Z3T(30)
<1>7. Aligned(in'.toOpen)
    <2>1. Aligned(id + 4 * 1)
        <3>1. 1 \in Int
            OBVIOUS
        <3>2. QED
            BY <1>3, <3>1, AlignedPlus, Zenon
    <2>2. id + 4 * 1 = in'.toOpen
        BY <1>3, <1>5, SMTT(30), Z3T(30)
    <2>3. QED
        BY <2>1, <2>2, Zenon
<1>8. InInv'
    <2>1. /\ in.toOpen \in Int /\ in.max \in Int /\ First \in Int /\ First <= in.toOpen
          /\ MaxNumStreams \in Int /\ Cardinality(in.streams) \in Nat
          /\ Cardinality(new) \in Nat
          /\ 4 * Cardinality(in.streams) + in.max + 4 - in.toOpen <= 4 * MaxNumStreams
        BY <1>2, StreamsAssumption, FS_CardinalityType, SMTT(30), Z3T(30) DEF LimitInv, InInv
    <2>2. \A x \in in'.streams : x < in'.toOpen
        <3>1. \A x \in in.streams : x \in Int /\ x < in.toOpen
            BY ZenonT(30) DEF LimitInv, InInv
        <3>2. QED
            BY <1>2, <1>3, <1>5, <2>1, <3>1, SMTT(30), Z3T(30)
    <2>3. First <= in'.toOpen /\ in'.toOpen <= in'.max + 4
        BY <1>3, <1>5, <2>1, SMTT(30), Z3T(30)
    <2>4. 4 * Cardinality(in'.streams) + in'.max + 4 - in'.toOpen <= 4 * MaxNumStreams
        BY <1>2, <1>3, <1>5, <1>6, <2>1, SMTT(30), Z3T(30)
    <2>5. Aligned(in'.max)
        BY <1>5, ZenonT(30) DEF LimitInv, InInv
    <2>6. QED
        BY <1>5, <1>6, <1>7, <2>2, <2>3, <2>4, <2>5, ZenonT(60) DEF InInv
<1>9. FramesInv' /\ OutInv'
    BY <1>1, <1>5, ZenonT(30) DEF LimitInv, FramesInv, OutInv
<1>10. CallInv'
    BY <1>1, ZenonT(30) DEF OpenUpTo, LimitInv, CallInv
<1>11. QED
    BY <1>1, <1>8, <1>9, <1>10, Zenon DEF LimitInv

\* DeleteStream: the limit moves by the streams that may be opened again, and
\* never back.
LEMMA DeleteKeepsLimit ==
    ASSUME LimitInv, NEW id \in in.streams, DeleteStream(id)
    PROVE  LimitInv'
<1> DEFINE left == in.streams \ {id}
           max == MaxAllowed(left)
<1>1. UNCHANGED <<out, call, err>>
    BY ZenonT(30) DEF DeleteStream
<1>2. IsFiniteSet(left) /\ Cardinality(left) = Cardinality(in.streams) - 1
    <2>1. IsFiniteSet(in.streams)
        BY ZenonT(30) DEF LimitInv, InInv
    <2>2. QED
        BY <2>1, FS_RemoveElement, ZenonT(30)
<1>3. Cardinality(left) \in Nat /\ Cardinality(in.streams) \in Nat
    <2>1. IsFiniteSet(in.streams)
        BY Zenon DEF LimitInv, InInv
    <2>2. QED
        BY <1>2, <2>1, FS_CardinalityType, ZenonT(60)
<1>4. /\ in.toOpen \in Int /\ in.max \in Int /\ First \in Int /\ First <= in.toOpen
      /\ MaxNumStreams \in Nat /\ in.toOpen <= in.max + 4
      /\ 4 * Cardinality(in.streams) + in.max + 4 - in.toOpen <= 4 * MaxNumStreams
    BY StreamsAssumption, SMTT(30), Z3T(30) DEF LimitInv, InInv
<1>5. MaxNumStreams > Cardinality(left)
    BY <1>2, <1>3, <1>4, SMTT(30), Z3T(30)
<1>6. in' = [in EXCEPT !.streams = left, !.max = max] /\ frames' = frames \cup {StreamNum(max)}
    BY <1>5, ZenonT(30) DEF DeleteStream, Announce
<1>7. /\ max = in.toOpen + 4 * (MaxNumStreams - Cardinality(left) - 1)
      /\ MaxNumStreams - Cardinality(left) - 1 \in Nat
      /\ max \in Int /\ max >= in.max /\ max >= in.toOpen
    BY <1>2, <1>3, <1>4, <1>5, SMTT(30), Z3T(30) DEF MaxAllowed
<1>8. Aligned(max)
    <2>1. Aligned(in.toOpen) /\ MaxNumStreams - Cardinality(left) - 1 \in Int
        BY <1>7 DEF LimitInv, InInv
    <2>2. Aligned(in.toOpen + 4 * (MaxNumStreams - Cardinality(left) - 1))
        BY <2>1, AlignedPlus, Zenon
    <2>3. QED
        BY <1>7, <2>2, Zenon
<1>9. /\ in'.streams = left /\ in'.max = max /\ in'.toOpen = in.toOpen
      /\ in' \in [streams : SUBSET Int, toAccept : Int, toOpen : Int, max : Int,
                  closed : BOOLEAN]
    BY <1>6, <1>7, ZenonT(60) DEF LimitInv, InInv
<1>10. InInv'
    <2>1. Aligned(in'.toOpen) /\ \A x \in in'.streams : x < in'.toOpen
        BY <1>9, ZenonT(30) DEF LimitInv, InInv
    <2>2. 4 * Cardinality(left) + max + 4 - in.toOpen <= 4 * MaxNumStreams
        BY <1>3, <1>4, <1>7, SMTT(30), Z3T(30)
    <2>3. QED
        BY <1>2, <1>4, <1>7, <1>8, <1>9, <2>1, <2>2, SMTT(60), Z3T(60) DEF InInv
<1>11. FramesInv'
    <2>1. StreamNum(max) \in Nat \ {0} /\ First + 4 * (StreamNum(max) - 1) = max
        <3>1. max >= First
            BY <1>4, <1>7, SMTT(60), Z3T(60)
        <3>2. QED
            BY <1>8, <3>1, NumOfMax, ZenonT(60)
    <2>2. \A n \in frames : n \in Nat \ {0} /\ First + 4 * (n - 1) <= max
        BY <1>4, <1>7, SMTT(60), Z3T(60) DEF LimitInv, FramesInv
    <2>3. First + 4 * (StreamNum(max) - 1) <= max
        BY <1>7, <2>1, SMTT(30), Z3T(30)
    <2>4. \A n \in frames' : n \in frames \/ n = StreamNum(max)
        BY <1>6, Zenon
    <2>5. \A n \in frames' : n \in Nat \ {0} /\ First + 4 * (n - 1) <= max
        BY <2>1, <2>2, <2>3, <2>4, ZenonT(60)
    <2>6. QED
        BY <1>9, <2>5, Zenon DEF FramesInv
<1>12. OutInv'
    BY <1>1, <1>4, <1>7, <1>9, SMTT(60), Z3T(60) DEF LimitInv, OutInv
<1>13. CallInv'
    BY <1>1, <1>4, <1>7, <1>9, SMTT(60), Z3T(60) DEF LimitInv, CallInv, Aligned
<1>14. QED
    BY <1>1, <1>10, <1>11, <1>12, <1>13, ZenonT(30) DEF LimitInv

\* The inductive step, action by action.
LEMMA NextKeepsLimit ==
    ASSUME LimitInv, [Next]_vars, RunLoopOnly
    PROVE  LimitInv'
<1>1. CASE OpenStream
    BY <1>1, OpenKeepsLimit, ZenonT(30) DEF OpenStream
<1>2. ASSUME NEW o \in Openers, OpenStreamSync(o)
      PROVE  LimitInv'
    <2>1. OpenNext \/ TooManyOpenStreams \/ UNCHANGED out
        BY <1>2, ZenonT(30) DEF OpenStreamSync
    <2>2. UNCHANGED <<in, call, frames, err>>
        BY <1>2, ZenonT(30) DEF OpenStreamSync
    <2>3. QED
        BY <2>1, <2>2, OpenKeepsLimit, ZenonT(30)
<1>3. ASSUME NEW n \in frames, SetMaxStream(n)
      PROVE  LimitInv'
    BY <1>3, SetMaxKeepsLimit, ZenonT(30)
<1>4. CASE CloseOutgoing
    <2>1. out' = [out EXCEPT !.closed = TRUE] /\ UNCHANGED <<in, call, frames, err>>
        BY <1>4, ZenonT(30) DEF CloseOutgoing
    <2>2. OutInv'
        BY <2>1, Zenon DEF LimitInv, OutInv
    <2>3. QED
        BY <2>1, <2>2, ZenonT(30) DEF LimitInv, InInv, FramesInv, CallInv
<1>5. ASSUME NEW a \in Acceptors, AcceptStream(a)
      PROVE  LimitInv'
    <2>1. /\ in' = [in EXCEPT !.toAccept = in.toAccept + 4] \/ UNCHANGED in
          /\ UNCHANGED <<out, call, frames, err>>
        BY <1>5, ZenonT(30) DEF AcceptStream, NextToAccept
    <2>2. InInv' /\ in'.max = in.max /\ in'.toOpen = in.toOpen
        BY <2>1 DEF LimitInv, InInv
    <2>3. QED
        BY <2>1, <2>2, ZenonT(30) DEF LimitInv, OutInv, FramesInv, CallInv
<1>6. ASSUME NEW c \in Callers, NEW id \in IDs, CheckStream(c, id)
      PROVE  LimitInv'
    BY <1>6, CheckKeepsLimit, Zenon
<1>7. ASSUME NEW c \in Callers, OpenUpTo(c)
      PROVE  LimitInv'
    BY <1>7, OpenUpToKeepsLimit, ZenonT(30)
<1>8. ASSUME NEW id \in in.streams, DeleteStream(id)
      PROVE  LimitInv'
    BY <1>8, DeleteKeepsLimit, ZenonT(30)
<1>9. CASE CloseIncoming
    <2>1. in' = [in EXCEPT !.closed = TRUE] /\ UNCHANGED <<out, call, frames, err>>
        BY <1>9, ZenonT(30) DEF CloseIncoming
    <2>2. InInv' /\ in'.max = in.max /\ in'.toOpen = in.toOpen
        BY <2>1, Zenon DEF LimitInv, InInv
    <2>3. QED
        BY <2>1, <2>2, ZenonT(30) DEF LimitInv, OutInv, FramesInv, CallInv
<1>10. CASE UNCHANGED vars
    BY <1>10, ZenonT(30) DEF vars, LimitInv, InInv, OutInv, FramesInv, CallInv
<1>11. QED
    BY <1>1, <1>2, <1>3, <1>4, <1>5, <1>6, <1>7, <1>8, <1>9, <1>10, ZenonT(30)
       DEF Next, Opener, Acceptor

\* The budget and what goes with it, in every reachable state.
THEOREM LimitInvariance == ASSUME RunLoopOnly PROVE Spec => []LimitInv
<1>1. Init => LimitInv
    BY InitLimit, ZenonT(30)
<1>2. LimitInv /\ [Next]_vars => LimitInv'
    BY NextKeepsLimit, ZenonT(30)
<1>3. QED
    BY <1>1, <1>2, PTL DEF Spec

\* A peer that runs this code is never told that it opened too many streams,
\* however MAX_STREAMS frames are delayed, repeated and reordered.
THEOREM PeerRespectsLimit == ASSUME RunLoopOnly PROVE Spec => []LimitRespected
<1>1. LimitInv => LimitRespected
    BY Zenon DEF LimitInv, LimitRespected
<1>2. QED
    BY <1>1, LimitInvariance, PTL

\* Never more than MaxIncoming(Uni)Streams streams are open at once.
THEOREM StreamsAreLimited == ASSUME RunLoopOnly PROVE Spec => []ConcurrentLimit
<1>1. ASSUME LimitInv
      PROVE  ConcurrentLimit
    <2>1. /\ Cardinality(in.streams) \in Nat /\ in.toOpen \in Int /\ in.max \in Int
          /\ MaxNumStreams \in Nat
        BY <1>1, FS_CardinalityType, StreamsAssumption, ZenonT(30) DEF LimitInv, InInv
    <2>2. QED
        BY <1>1, <2>1, SMTT(60), Z3T(60) DEF LimitInv, InInv, ConcurrentLimit
<1>2. QED
    BY <1>1, LimitInvariance, PTL

-----------------------------------------------------------------------------
(* Wake-ups.  A goroutine waits in OpenStreamSync only while the limit is    *)
(* reached.  In AcceptStream it may wait while streams are there to accept,  *)
(* and then there are at least as many goroutines awake as there are such    *)
(* streams: GetOrOpenStream signals once for each stream it creates.         *)

Available == {id \in in.streams : in.toAccept <= id}
Woken == {a \in Acceptors : acceptor[a] = "woken"}

WakeInv ==
    /\ opener \in [Openers -> Thread] /\ acceptor \in [Acceptors -> Thread]
    /\ Waiting(opener) # {} => ~CanOpen /\ ~out.closed
    /\ Waiting(acceptor) # {} =>
          /\ ~in.closed
          /\ in.toAccept \in in.streams => Cardinality(Available) <= Cardinality(Woken)

LEMMA InitWake ==
    ASSUME Init
    PROVE  WakeInv
<1>1. opener \in [Openers -> Thread] /\ acceptor \in [Acceptors -> Thread]
    BY Zenon DEF Init, Thread
<1>2. Waiting(opener) = {} /\ Waiting(acceptor) = {}
    BY Zenon DEF Init, Waiting
<1>3. QED
    BY <1>1, <1>2, ZenonT(30) DEF WakeInv

\* cond.Broadcast leaves nobody waiting.
LEMMA BroadcastWakesAll ==
    ASSUME NEW T, NEW threads \in [T -> Thread]
    PROVE  Broadcast(threads) \in [T -> Thread] /\ Waiting(Broadcast(threads)) = {}
BY Zenon DEF Broadcast, Waiting, Thread

\* The steps of the opening endpoint.
LEMMA OpenerKeepsWake ==
    ASSUME LimitInv, WakeInv, Opener
    PROVE  WakeInv'
<1>1. UNCHANGED <<in, acceptor>>
    BY Zenon DEF Opener, OpenStream, OpenStreamSync, SetMaxStream, CloseOutgoing
<1>2. /\ acceptor' \in [Acceptors -> Thread]
      /\ Waiting(acceptor') # {} =>
            /\ ~in'.closed
            /\ in'.toAccept \in in'.streams => Cardinality(Available') <= Cardinality(Woken')
    BY <1>1, ZenonT(30) DEF WakeInv, Available, Woken
<1>3. /\ opener' \in [Openers -> Thread]
      /\ Waiting(opener') # {} => ~CanOpen' /\ ~out'.closed
    <2>1. ASSUME OpenNext, UNCHANGED opener \/ \E o \in Openers :
                     opener[o] # "waiting" /\ opener' = [opener EXCEPT ![o] = "idle"]
          PROVE  opener' \in [Openers -> Thread] /\ Waiting(opener') = {}
        <3>1. Waiting(opener) = {}
            BY <2>1, ZenonT(30) DEF OpenNext, WakeInv
        <3>2. QED
            BY <2>1, <3>1, ZenonT(30) DEF Waiting, WakeInv, Thread
    <2>2. ASSUME TooManyOpenStreams, UNCHANGED opener \/ \E o \in Openers :
                     opener' = [opener EXCEPT ![o] = "waiting"]
          PROVE  opener' \in [Openers -> Thread] /\ ~CanOpen' /\ ~out'.closed
        <3>1. out'.next = out.next /\ out'.max = out.max /\ out'.set = out.set
              /\ out'.closed = out.closed
            BY <2>2 DEF TooManyOpenStreams
        <3>2. ~CanOpen' /\ ~out'.closed
            BY <2>2, <3>1, Zenon DEF TooManyOpenStreams, CanOpen
        <3>3. QED
            BY <2>2, <3>2, ZenonT(30) DEF WakeInv, Thread
    <2>3. CASE OpenStream
        BY <2>1, <2>2, <2>3, ZenonT(30) DEF OpenStream
    <2>4. ASSUME NEW o \in Openers, OpenStreamSync(o)
          PROVE  /\ opener' \in [Openers -> Thread]
                 /\ Waiting(opener') # {} => ~CanOpen' /\ ~out'.closed
        <3>1. CASE OpenNext /\ opener' = [opener EXCEPT ![o] = "idle"]
            BY <2>1, <2>4, <3>1, Zenon DEF OpenStreamSync
        <3>2. CASE TooManyOpenStreams /\ opener' = [opener EXCEPT ![o] = "waiting"]
            BY <2>2, <3>2, Zenon
        <3>3. CASE out.closed /\ opener' = [opener EXCEPT ![o] = "idle"]
            <4>1. Waiting(opener) = {}
                BY <3>3, ZenonT(30) DEF WakeInv
            <4>2. QED
                BY <3>3, <4>1, ZenonT(30) DEF Waiting, WakeInv, Thread
        <3>4. QED
            BY <2>4, <3>1, <3>2, <3>3, ZenonT(30) DEF OpenStreamSync
    <2>5. CASE CloseOutgoing \/ \E n \in frames : SetMaxStream(n)
        <3>1. opener' = Broadcast(opener)
            BY <2>5, Zenon DEF CloseOutgoing, SetMaxStream
        <3>2. QED
            BY <3>1, BroadcastWakesAll, Zenon DEF WakeInv
    <2>6. QED
        BY <2>3, <2>4, <2>5, ZenonT(30) DEF Opener
<1>4. QED
    BY <1>2, <1>3, ZenonT(30) DEF WakeInv

\* Both sets are finite.
LEMMA WakeFinite ==
    ASSUME LimitInv
    PROVE  /\ IsFiniteSet(Available) /\ Cardinality(Available) \in Nat
           /\ IsFiniteSet(Woken) /\ Cardinality(Woken) \in Nat
<1>1. IsFiniteSet(in.streams) /\ Available \subseteq in.streams
    BY ZenonT(30) DEF LimitInv, InInv, Available
<1>2. IsFiniteSet(Acceptors) /\ Woken \subseteq Acceptors
    BY StreamsAssumption, ZenonT(30) DEF Woken
<1>3. IsFiniteSet(Available) /\ IsFiniteSet(Woken)
    BY <1>1, <1>2, FS_Subset, Zenon
<1>4. QED
    BY <1>3, FS_CardinalityType, Zenon

\* AcceptStream takes one stream, and at most one goroutine goes back to sleep or
\* returns.
LEMMA AcceptKeepsWake ==
    ASSUME LimitInv, WakeInv, NEW a \in Acceptors, AcceptStream(a)
    PROVE  WakeInv'
<1>1. UNCHANGED <<out, opener>>
    BY ZenonT(30) DEF AcceptStream
<1>2. /\ opener' \in [Openers -> Thread]
      /\ Waiting(opener') # {} => ~CanOpen' /\ ~out'.closed
    BY <1>1, ZenonT(30) DEF WakeInv, CanOpen
<1>3. acceptor' \in [Acceptors -> Thread]
    BY ZenonT(30) DEF AcceptStream, WakeInv, Thread
<1>4. CASE in.closed /\ acceptor' = [acceptor EXCEPT ![a] = "idle"] /\ UNCHANGED in
    <2>1. Waiting(acceptor) = {}
        BY <1>4, ZenonT(30) DEF WakeInv
    <2>2. Waiting(acceptor') = {}
        BY <1>4, <2>1, ZenonT(30) DEF Waiting, WakeInv
    <2>3. QED
        BY <1>2, <1>3, <2>2, ZenonT(30) DEF WakeInv
<1>5. CASE /\ ~in.closed /\ in.toAccept \in in.streams
           /\ acceptor' = [acceptor EXCEPT ![a] = "idle"]
           /\ in' = [in EXCEPT !.toAccept = NextToAccept]
    <2>1. Waiting(acceptor') # {} => Waiting(acceptor) # {}
        BY <1>5, ZenonT(30) DEF Waiting, WakeInv
    <2>2. /\ in'.streams = in.streams /\ in'.toAccept = in.toAccept + 4
          /\ in'.closed = in.closed /\ in.toAccept \in Int
        BY <1>5, ZenonT(30) DEF NextToAccept, LimitInv, InInv
    <2>3. Available' \subseteq Available \ {in.toAccept} /\ in.toAccept \in Available
        <3>1. \A id \in in.streams : id \in Int
            BY ZenonT(30) DEF LimitInv, InInv
        <3>2. QED
            BY <1>5, <2>2, <3>1, SMTT(30), Z3T(30) DEF Available
    <2>4. Cardinality(Available') \in Nat /\ Cardinality(Available') <= Cardinality(Available) - 1
        <3>1. IsFiniteSet(Available) /\ Cardinality(Available) \in Nat
            BY WakeFinite, ZenonT(30)
        <3>2. /\ IsFiniteSet(Available \ {in.toAccept})
              /\ Cardinality(Available \ {in.toAccept}) = Cardinality(Available) - 1
            BY <2>3, <3>1, FS_RemoveElement, Zenon
        <3>3. /\ IsFiniteSet(Available')
              /\ Cardinality(Available') <= Cardinality(Available \ {in.toAccept})
            BY <2>3, <3>2, FS_Subset, Zenon
        <3>4. Cardinality(Available') \in Nat
            BY <3>3, FS_CardinalityType, Zenon
        <3>5. QED
            BY <3>1, <3>2, <3>3, <3>4, ZenonT(30)
    <2>5. Woken \ {a} \subseteq Woken'
        BY <1>5, ZenonT(30) DEF Woken, WakeInv
    <2>6. Cardinality(Woken') \in Nat /\ Cardinality(Woken') >= Cardinality(Woken) - 1
        <3>1. IsFiniteSet(Woken) /\ Cardinality(Woken) \in Nat
            BY WakeFinite, ZenonT(30)
        <3>2. /\ IsFiniteSet(Woken \ {a})
              /\ Cardinality(Woken \ {a}) =
                    IF a \in Woken THEN Cardinality(Woken) - 1 ELSE Cardinality(Woken)
            BY <3>1, FS_RemoveElement, ZenonT(30)
        <3>3. IsFiniteSet(Woken') /\ Cardinality(Woken') \in Nat
            <4>1. Woken' \subseteq Acceptors /\ IsFiniteSet(Acceptors)
                BY StreamsAssumption, ZenonT(30) DEF Woken
            <4>2. IsFiniteSet(Woken')
                BY <4>1, FS_Subset, Zenon
            <4>3. QED
                BY <4>2, FS_CardinalityType, Zenon
        <3>4. Cardinality(Woken \ {a}) <= Cardinality(Woken')
            BY <2>5, <3>3, FS_Subset, ZenonT(60)
        <3>5. QED
            BY <3>1, <3>2, <3>3, <3>4, SMTT(30), Z3T(30)
    <2>7. Waiting(acceptor') # {} => Cardinality(Available') <= Cardinality(Woken')
        <3>1. Cardinality(Available) \in Nat /\ Cardinality(Woken) \in Nat
            BY WakeFinite, ZenonT(30)
        <3>2. Waiting(acceptor') # {} => Cardinality(Available) <= Cardinality(Woken)
            BY <1>5, <2>1, Zenon DEF WakeInv
        <3>3. QED
            BY <2>4, <2>6, <3>1, <3>2, SMTT(30), Z3T(30)
    <2>8. QED
        BY <1>2, <1>3, <1>5, <2>2, <2>7, ZenonT(60) DEF WakeInv
<1>6. CASE /\ ~in.closed /\ in.toAccept \notin in.streams
           /\ acceptor' = [acceptor EXCEPT ![a] = "waiting"] /\ UNCHANGED in
    BY <1>2, <1>3, <1>6, ZenonT(30) DEF WakeInv
<1>7. QED
    BY <1>4, <1>5, <1>6, ZenonT(30) DEF AcceptStream

\* GetOrOpenStream signals once for each new stream, or wakes everybody.
LEMMA OpenUpToKeepsWake ==
    ASSUME LimitInv, WakeInv, NEW c \in Callers, OpenUpTo(c), RunLoopOnly
    PROVE  WakeInv'
<1> DEFINE new == NewStreams("run")
<1>1. c = "run" /\ call["run"] # None /\ UNCHANGED <<out, opener>>
    BY Zenon DEF OpenUpTo, RunLoopOnly
<1>2. /\ opener' \in [Openers -> Thread]
      /\ Waiting(opener') # {} => ~CanOpen' /\ ~out'.closed
    BY <1>1, Zenon DEF WakeInv, CanOpen
<1>3. PICK w \in SUBSET Waiting(acceptor) :
         /\ \/ Cardinality(w) = Cardinality(new)
            \/ w = Waiting(acceptor) /\ Cardinality(w) < Cardinality(new)
         /\ acceptor' = [t \in DOMAIN acceptor |-> IF t \in w THEN "woken" ELSE acceptor[t]]
    <2>1. acceptor' \in Signal(acceptor, Cardinality(new))
        BY <1>1, Zenon DEF OpenUpTo
    <2> DEFINE ws == {w \in SUBSET Waiting(acceptor) :
                         \/ Cardinality(w) = Cardinality(new)
                         \/ w = Waiting(acceptor) /\ Cardinality(w) < Cardinality(new)}
               woken(w) == [t \in DOMAIN acceptor |-> IF t \in w THEN "woken" ELSE acceptor[t]]
    <2>2. acceptor' \in {woken(w) : w \in ws}
        BY <2>1, Zenon DEF Signal
    <2>3. PICK w \in ws : acceptor' = woken(w)
        BY <2>2, Zenon
    <2>4. QED
        BY <2>3, Zenon
<1>4. DOMAIN acceptor = Acceptors /\ acceptor' \in [Acceptors -> Thread]
    BY <1>3, ZenonT(30) DEF WakeInv, Thread
<1>5. Waiting(acceptor') = Waiting(acceptor) \ w
    BY <1>3, <1>4, ZenonT(30) DEF Waiting
<1>6. Woken' = Woken \cup w
    BY <1>3, <1>4, ZenonT(30) DEF Woken, Waiting
<1>7. Woken \cap w = {}
    BY <1>4, ZenonT(30) DEF Woken, Waiting
<1>8. /\ IsFiniteSet(new) /\ Cardinality(new) \in Nat
      /\ \A id \in new : id \in Int /\ in.toOpen <= id
    BY <1>1, NewStreamsCount, FS_CardinalityType, ZenonT(30)
<1>9. /\ in'.streams = in.streams \cup new /\ in'.toAccept = in.toAccept
      /\ in'.closed = in.closed
    BY <1>1, ZenonT(30) DEF OpenUpTo, LimitInv, InInv
<1>10. SUFFICES ASSUME Waiting(acceptor') # {}
                PROVE  /\ ~in'.closed
                       /\ in'.toAccept \in in'.streams =>
                             Cardinality(Available') <= Cardinality(Woken')
    BY <1>2, <1>4, ZenonT(30) DEF WakeInv
<1>11. Waiting(acceptor) # {} /\ w # Waiting(acceptor) /\ Cardinality(w) = Cardinality(new)
    BY <1>3, <1>5, <1>10, ZenonT(30)
<1>12. ~in'.closed
    BY <1>9, <1>11, ZenonT(30) DEF WakeInv
<1>13. ASSUME in'.toAccept \in in'.streams
       PROVE  Cardinality(Available') <= Cardinality(Woken')
    <2>1. /\ IsFiniteSet(Available) /\ Cardinality(Available) \in Nat
          /\ IsFiniteSet(Woken) /\ Cardinality(Woken) \in Nat
        BY WakeFinite, ZenonT(30)
    <2>2. Cardinality(Available) <= Cardinality(Woken)
        <3>1. CASE in.toAccept \in in.streams
            BY <1>11, <3>1, ZenonT(30) DEF WakeInv
        <3>2. CASE in.toAccept \notin in.streams
            <4>1. in.toOpen <= in.toAccept /\ in.toOpen \in Int /\ in.toAccept \in Int
                BY <1>8, <1>9, <1>13, <3>2, ZenonT(30) DEF LimitInv, InInv
            <4>2. \A id \in in.streams : id \in Int /\ id < in.toOpen
                BY ZenonT(30) DEF LimitInv, InInv
            <4>3. Available = {}
                BY <4>1, <4>2, SMTT(30), Z3T(30) DEF Available
            <4>4. Cardinality({}) = 0
                BY FS_EmptySet, ZenonT(30)
            <4>5. QED
                BY <2>1, <4>3, <4>4, SMTT(30), Z3T(30)
        <3>3. QED
            BY <3>1, <3>2, ZenonT(30)
    <2>3. Cardinality(Woken') = Cardinality(Woken) + Cardinality(new)
        <3>1. w \subseteq Acceptors /\ IsFiniteSet(Acceptors)
            BY <1>4, StreamsAssumption, ZenonT(30) DEF Waiting
        <3>2. IsFiniteSet(w)
            BY <3>1, FS_Subset, Zenon
        <3>3. Cardinality(Woken \cup w)
                  = Cardinality(Woken) + Cardinality(w) - Cardinality(Woken \cap w)
            BY <2>1, <3>2, FS_Union, ZenonT(60)
        <3>4. Cardinality(Woken \cap w) = 0
            BY <1>7, FS_EmptySet, ZenonT(30)
        <3>5. QED
            BY <1>6, <1>8, <1>11, <2>1, <3>3, <3>4, SMTT(60), Z3T(60)
    <2>4. Cardinality(Available') \in Nat
          /\ Cardinality(Available') <= Cardinality(Available) + Cardinality(new)
        <3>1. Available' \subseteq Available \cup new
            BY <1>9, ZenonT(30) DEF Available
        <3>2. /\ IsFiniteSet(Available \cup new) /\ IsFiniteSet(Available \cap new)
              /\ Cardinality(Available \cup new) =
                    Cardinality(Available) + Cardinality(new) - Cardinality(Available \cap new)
            BY <1>8, <2>1, FS_Union, FS_Intersection, ZenonT(60)
        <3>3. /\ IsFiniteSet(Available')
              /\ Cardinality(Available') <= Cardinality(Available \cup new)
            BY <3>1, <3>2, FS_Subset, ZenonT(60)
        <3>4. Cardinality(Available') \in Nat /\ Cardinality(Available \cap new) \in Nat
              /\ Cardinality(Available \cup new) \in Nat
            BY <3>2, <3>3, FS_CardinalityType, Zenon
        <3>5. QED
            BY <1>8, <2>1, <3>2, <3>3, <3>4, SMTT(60), Z3T(60)
    <2>5. QED
        BY <1>8, <2>1, <2>2, <2>3, <2>4, SMTT(30), Z3T(30)
<1>14. QED
    BY <1>12, <1>13, Zenon

\* DeleteStream takes away a stream, and wakes nobody.
LEMMA DeleteKeepsWake ==
    ASSUME LimitInv, WakeInv, NEW id \in in.streams, DeleteStream(id)
    PROVE  WakeInv'
<1>1. /\ UNCHANGED <<out, opener, acceptor>>
      /\ in'.streams = in.streams \ {id} /\ in'.toAccept = in.toAccept
      /\ in'.closed = in.closed
    BY Zenon DEF DeleteStream, LimitInv, InInv
<1>2. Woken' = Woken /\ Available' \subseteq Available
    BY <1>1, ZenonT(30) DEF Woken, Available
<1>3. /\ Cardinality(Available') \in Nat /\ Cardinality(Available') <= Cardinality(Available)
      /\ Cardinality(Available) \in Nat /\ Cardinality(Woken) \in Nat
    <2>1. /\ IsFiniteSet(Available) /\ Cardinality(Available) \in Nat
          /\ Cardinality(Woken) \in Nat
        BY WakeFinite, ZenonT(30)
    <2>2. IsFiniteSet(Available') /\ Cardinality(Available') <= Cardinality(Available)
        BY <1>2, <2>1, FS_Subset, ZenonT(60)
    <2>3. QED
        BY <2>1, <2>2, FS_CardinalityType, Zenon
<1>4. Waiting(acceptor') # {} =>
         /\ ~in'.closed
         /\ in'.toAccept \in in'.streams => Cardinality(Available') <= Cardinality(Woken')
    BY <1>1, <1>2, <1>3, SMTT(30), Z3T(30) DEF WakeInv
<1>5. QED
    BY <1>1, <1>4, ZenonT(30) DEF WakeInv, CanOpen

\* The inductive step.
LEMMA NextKeepsWake ==
    ASSUME LimitInv, WakeInv, [Next]_vars, RunLoopOnly
    PROVE  WakeInv'
<1>1. CASE Opener
    BY <1>1, OpenerKeepsWake, ZenonT(30)
<1>2. ASSUME NEW a \in Acceptors, AcceptStream(a)
      PROVE  WakeInv'
    BY <1>2, AcceptKeepsWake, ZenonT(30)
<1>3. ASSUME NEW c \in Callers, OpenUpTo(c)
      PROVE  WakeInv'
    BY <1>3, OpenUpToKeepsWake, ZenonT(30)
<1>4. ASSUME NEW id \in in.streams, DeleteStream(id)
      PROVE  WakeInv'
    BY <1>4, DeleteKeepsWake, ZenonT(30)
<1>5. CASE CloseIncoming
    <2>1. UNCHANGED <<out, opener>> /\ acceptor' = Broadcast(acceptor)
        BY <1>5, ZenonT(30) DEF CloseIncoming
    <2>2. acceptor' \in [Acceptors -> Thread] /\ Waiting(acceptor') = {}
        BY <2>1, BroadcastWakesAll, ZenonT(30) DEF WakeInv
    <2>3. QED
        BY <2>1, <2>2, ZenonT(30) DEF WakeInv, CanOpen
<1>6. CASE UNCHANGED <<out, in, opener, acceptor>>
    BY <1>6, ZenonT(30) DEF WakeInv, CanOpen, Available, Woken
<1>7. QED
    BY <1>1, <1>2, <1>3, <1>4, <1>5, <1>6, ZenonT(60) DEF Next, Acceptor, CheckStream, vars

\* No wake-up is lost, for any number of goroutines: whenever OpenStreamSync or
\* AcceptStream could return to somebody who waits, somebody has been woken.
THEOREM NoWakeupIsLost == ASSUME RunLoopOnly PROVE Spec => []NoLostWakeup
<1>1. Init => WakeInv
    BY InitWake, ZenonT(30)
<1>2. LimitInv /\ WakeInv /\ [Next]_vars => WakeInv'
    BY NextKeepsWake, ZenonT(30)
<1>3. ASSUME LimitInv, WakeInv
      PROVE  NoLostWakeup
    <2>1. ASSUME Waiting(acceptor) # {}, in.closed \/ in.toAccept \in in.streams
          PROVE  \E a \in Acceptors : acceptor[a] = "woken"
        <3>1. in.toAccept \in in.streams /\ Cardinality(Available) <= Cardinality(Woken)
            BY <1>3, <2>1, ZenonT(30) DEF WakeInv
        <3>2. in.toAccept \in Available
            BY <1>3, <3>1, SMTT(30), Z3T(30) DEF Available, LimitInv, InInv
        <3>3. /\ IsFiniteSet(Available) /\ Cardinality(Available) \in Nat
              /\ IsFiniteSet(Woken) /\ Cardinality(Woken) \in Nat
            BY <1>3, WakeFinite, Zenon
        <3>4. Cardinality(Available) # 0
            BY <3>2, <3>3, FS_EmptySet, ZenonT(30)
        <3>5. Cardinality(Woken) # 0
            BY <3>1, <3>3, <3>4, SMTT(30), Z3T(30)
        <3>6. Woken # {}
            BY <3>5, FS_EmptySet, ZenonT(30)
        <3>7. QED
            BY <3>6, ZenonT(30) DEF Woken
    <2>2. ~(Waiting(opener) # {} /\ (out.closed \/ CanOpen))
        BY <1>3, ZenonT(30) DEF WakeInv
    <2>3. QED
        BY <2>1, <2>2, ZenonT(30) DEF NoLostWakeup
<1>4. QED
    BY <1>1, <1>2, <1>3, LimitInvariance, PTL DEF Spec

-----------------------------------------------------------------------------
(* SendStream *)

\* The mutex is held by whoever is inside, so that the run loop changes the data
\* only while the application is idle or waits.  Until its last byte is taken, the
\* stream of a Write that waits is active.
SendInv ==
    /\ app \in {"idle", "add", "loop", "unlocked", "chan", "select", "relock", "close", "panicked"}
    /\ app \in {"add", "loop", "close"} => mutex = "app"
    /\ setter \in {"set", "drain"} => mutex = "setter"
    /\ data \in Nat
    /\ active \in BOOLEAN /\ finished \in BOOLEAN /\ finSent \in BOOLEAN /\ writeChan \in BOOLEAN
    /\ data > 0 => app \notin {"idle", "close"}
    /\ data > 0 /\ app # "add" => active
    /\ app \in {"unlocked", "chan", "select"} /\ data = 0 => writeChan
    /\ app = "add" => data > 0
    /\ finished => app \in {"idle", "close"}
    /\ finished /\ ~finSent /\ app # "close" => active

LEMMA SendInvKept == SendInv /\ [SendNext]_sendVars => SendInv'
<1> SUFFICES ASSUME SendInv, [SendNext]_sendVars PROVE SendInv'
    BY ZenonT(60)
<1>1. CASE WriteLock
    BY <1>1 DEF SendInv, WriteLock
<1>2. CASE Close
    BY <1>2, Zenon DEF SendInv, Close
<1>3. CASE SetWriteDeadline
    BY <1>3, Zenon DEF SendInv, SetWriteDeadline
<1>4. CASE AddActiveStream
    BY <1>4, ZenonT(30) DEF SendInv, AddActiveStream
<1>5. CASE WriteLoop
    BY <1>5 DEF SendInv, WriteLoop
<1>6. CASE WriteSelect \/ WriteWake
    <2>1. CASE WriteSelect
        BY <2>1, ZenonT(30) DEF SendInv, WriteSelect
    <2>2. CASE WriteWake
        BY <2>2, ZenonT(30) DEF SendInv, WriteWake
    <2>3. QED
        BY <1>6, <2>1, <2>2, Zenon
<1>7. CASE WriteRelock
    BY <1>7, ZenonT(30) DEF SendInv, WriteRelock
<1>8. CASE StopTimer \/ DrainTimer
    BY <1>8, SMTT(30), Z3T(30) DEF SendInv, StopTimer, DrainTimer
<1>9. CASE DeadlinePasses \/ TimerFires
    BY <1>9, SMTT(30), Z3T(30) DEF SendInv, DeadlinePasses, TimerFires
<1>10. CASE AppendStreamFrames \/ UnlockFramer
    BY <1>10, SMTT(30), Z3T(30) DEF SendInv, AppendStreamFrames, UnlockFramer
<1>11. CASE PopStreamFrame
    BY <1>11, SMTT(30), Z3T(30) DEF SendInv, PopStreamFrame, Lengths, SignalWrite
<1>12. CASE UNCHANGED sendVars
    BY <1>12, ZenonT(30) DEF SendInv, sendVars
<1>13. QED
    BY <1>1, <1>2, <1>3, <1>4, <1>5, <1>6, <1>7, <1>8, <1>9, <1>10, <1>11, <1>12, ZenonT(30)
    DEF SendNext, AppWaits, SetterWaits, RunLoop, Clock

\* Neither a Write that waits nor a FIN is forgotten, for writes of any length and
\* any interleaving of Write, Close, SetWriteDeadline and the run loop
\* (Write, popStreamFrame, AddActiveStream).
THEOREM WritesAreNotForgotten == SendSpec => []NothingForgotten
<1>1. SendInit => SendInv
  <2> SUFFICES ASSUME SendInit PROVE SendInv
    BY Zenon
  <2>1. data \in Nat /\ ~(data > 0)
    BY SMTT(30), Z3T(30) DEF SendInit
  <2>2. QED
    BY <2>1, Zenon DEF SendInit, SendInv
<1>2. SendInv => NothingForgotten
    BY SMTT(30), Z3T(30) DEF SendInv, NothingForgotten
<1>3. QED
    BY <1>1, <1>2, SendInvKept, PTL DEF SendSpec

-----------------------------------------------------------------------------
(* Scheduler *)

\* What is assumed of the constants.  Path zero, which has an ID of its own, is not
\* one of the paths that addRemoteAddress makes.
SchedulerConstants ==
    /\ IsFiniteSet(Locals) /\ MaxWeight \in Nat
    /\ PathZero \notin Locals \X Remotes

\* A sequence is a function on its indices.
LEMMA Indexed ==
    ASSUME NEW S, NEW s \in Seq(S)
    PROVE  Len(s) \in Nat /\ DOMAIN s = 1..Len(s) /\ \A i \in 1..Len(s) : s[i] \in S
OBVIOUS

\* Whatever the order, addRemoteAddress makes one path from every local address of
\* the IP version.
LEMMA NewPathsOnce ==
    ASSUME SchedulerConstants, NEW r \in Remotes, NEW new \in NewPaths(r)
    PROVE  /\ new \in Seq(Locals \X {r})
           /\ \A i, j \in 1..Len(new) : new[i] = new[j] => i = j
           /\ \A l \in Locals : IsSameVersion(l, r) =>
                 \E i \in 1..Len(new) : new[i] = <<l, r>>
<1> DEFINE S == SameVersion(r)
           n == Cardinality(S)
<1>1. PICK ls \in Bijection(1..n, S) : new = [i \in 1..n |-> <<ls[i], r>>]
    BY Zenon DEF NewPaths
<1>2. n \in Nat
    <2>1. S \subseteq Locals
        BY ZenonT(30) DEF SameVersion
    <2> HIDE DEF S
    <2>2. QED
        BY <2>1, FS_Subset, FS_CardinalityType, ZenonT(60) DEF SchedulerConstants
<1>3. /\ ls \in [1..n -> S] /\ \A i, j \in 1..n : ls[i] = ls[j] => i = j
      /\ \A l \in S : \E i \in 1..n : ls[i] = l
    BY <1>1, ZenonT(30) DEF Bijection, Injection, Surjection, IsInjective
<1>4. \A l : l \in S <=> l \in Locals /\ IsSameVersion(l, r)
    BY ZenonT(30) DEF SameVersion
<1> HIDE DEF S, n
<1>5. new \in Seq(Locals \X {r}) /\ Len(new) = n
    BY <1>1, <1>2, <1>3, <1>4, SMTT(30), Z3T(30)
<1>6. QED
    BY <1>1, <1>3, <1>4, <1>5, ZenonT(30)

\* A pointer in a path was allocated before the one in an ADDR_MOD frame that is
\* being handled, so that Path.contains is never true; an ID in pathIds belongs to
\* an address that is known, or that was withdrawn.
SchedulerInv ==
    /\ allocated \in Nat
    /\ paths \in [DOMAIN paths -> [obj : 0..allocated, weight : Int]]
    /\ pathIds \in Seq({PathZero} \cup Locals \X Remotes)
    /\ \A i \in DOMAIN pathIds :
          pathIds[i] = PathZero \/ pathIds[i][2] \in remoteAddrs \cup withdrawn
    /\ FullMesh
    /\ OncePerRound

\* An address whose ADDR_MOD frame is handled first: its paths are new, and are
\* the only ones with the address, but for those of an earlier life of it.
LEMMA AddRemoteAddressKept ==
    ASSUME SchedulerConstants, SchedulerInv, NEW r \in Remotes, AddRemoteAddress(r)
    PROVE  SchedulerInv'
<1> DEFINE n == Len(pathIds)
<1>1. CASE UNCHANGED <<paths, pathIds, remoteAddrs>>
  <2>1. allocated' = allocated + 2 /\ withdrawn' = withdrawn
    BY ZenonT(30) DEF AddRemoteAddress
  <2>2. allocated' \in Nat /\ 0..allocated \subseteq 0..allocated'
    BY <2>1, SMTT(30), Z3T(30) DEF SchedulerInv
  <2>3. QED
    BY <1>1, <2>1, <2>2, ZenonT(30) DEF SchedulerInv, FullMesh, OncePerRound
<1>2. CASE ~UNCHANGED <<paths, pathIds, remoteAddrs>>
  <2> DEFINE path == [obj |-> allocated + 2, weight |-> MaxWeight]
  <2>1. PICK new \in NewPaths(r) :
            /\ r \notin remoteAddrs
            /\ remoteAddrs' = remoteAddrs \cup {r}
            /\ paths' = [p \in DOMAIN paths \cup Range(new) |->
                            IF p \in Range(new) THEN path ELSE paths[p]]
            /\ pathIds' = pathIds \o new
            /\ allocated' = allocated + 2 /\ withdrawn' = withdrawn
    BY <1>2, Zenon DEF AddRemoteAddress, Known
  <2> DEFINE k == Len(new)
  <2>2. /\ new \in Seq(Locals \X {r})
        /\ \A i, j \in 1..k : new[i] = new[j] => i = j
        /\ \A l \in Locals : IsSameVersion(l, r) => \E i \in 1..k : new[i] = <<l, r>>
    BY NewPathsOnce, ZenonT(30)
  <2>3. /\ k \in Nat /\ DOMAIN new = 1..k
        /\ \A i \in 1..k : new[i] \in Locals \X {r}
        /\ \A i \in 1..k : new[i][2] = r /\ new[i] # PathZero
    <3>1. k \in Nat /\ DOMAIN new = 1..k /\ \A i \in 1..k : new[i] \in Locals \X {r}
      BY <2>2, Indexed, Zenon
    <3>2. \A x \in Locals \X {r} : x \in Locals \X Remotes /\ x[2] = r
      BY ZenonT(30)
    <3>3. QED
      BY <3>1, <3>2, ZenonT(60) DEF SchedulerConstants
  <2>4. n \in Nat /\ DOMAIN pathIds = 1..n
    BY SMTT(30), Z3T(30) DEF SchedulerInv
  <2>5. pathIds' \in Seq({PathZero} \cup Locals \X Remotes)
    BY <2>1, <2>2, SMTT(30), Z3T(30) DEF SchedulerInv
  <2>6. /\ DOMAIN pathIds' = 1..(n + k)
        /\ \A i \in 1..n : pathIds'[i] = pathIds[i]
        /\ \A i \in (n + 1)..(n + k) : i - n \in 1..k /\ pathIds'[i] = new[i - n]
    BY <2>1, <2>2, <2>3, <2>4, SMTT(30), Z3T(30) DEF SchedulerInv
  <2>7. Range(pathIds') = Range(pathIds) \cup Range(new)
    <3>1. \A i \in 1..k : n + i \in (n + 1)..(n + k) /\ n + i - n = i
      BY <2>3, <2>4, SMTT(30), Z3T(30)
    <3>2. \A i \in 1..(n + k) : i \in 1..n \/ i \in (n + 1)..(n + k)
      BY <2>3, <2>4, SMTT(30), Z3T(30)
    <3>3. \A i \in 1..k : pathIds'[n + i] = new[i] /\ n + i \in 1..(n + k)
      BY <2>3, <2>4, <2>6, <3>1, SMTT(30), Z3T(30)
    <3>4. 1..n \subseteq 1..(n + k)
      BY <2>3, <2>4, SMTT(30), Z3T(30)
    <3>5. Range(pathIds) \subseteq Range(pathIds')
      BY <2>4, <2>6, <3>4, ZenonT(30) DEF Range
    <3>6. Range(new) \subseteq Range(pathIds')
      <4>1. \A i \in 1..k : \E j \in DOMAIN pathIds' : pathIds'[j] = new[i]
        BY <2>6, <3>3, ZenonT(30)
      <4>2. QED
        BY <2>3, <4>1, SMTT(30), Z3T(30) DEF Range
    <3>7. \A x : x \in Range(pathIds') => x \in Range(pathIds) \/ x \in Range(new)
      BY <2>3, <2>4, <2>6, <3>2, SMTT(30), Z3T(30) DEF Range
    <3>8. QED
      BY <3>5, <3>6, <3>7, ZenonT(30)
  <2>8. allocated' \in Nat /\ paths' \in [DOMAIN paths' -> [obj : 0..allocated', weight : Int]]
    <3>1. /\ allocated' \in Nat /\ allocated + 2 \in 0..allocated' /\ MaxWeight \in Int
          /\ 0..allocated \subseteq 0..allocated'
      BY <2>1, SMTT(30), Z3T(30) DEF SchedulerInv, SchedulerConstants
    <3>2. path \in [obj : 0..allocated', weight : Int]
      BY <3>1, Zenon
    <3>3. \A p \in DOMAIN paths : paths[p] \in [obj : 0..allocated', weight : Int]
      BY <3>1, ZenonT(30) DEF SchedulerInv
    <3> HIDE DEF path
    <3>4. QED
      BY <2>1, <3>1, <3>2, <3>3, ZenonT(30)
  <2>9. \A i \in DOMAIN pathIds' :
            pathIds'[i] = PathZero \/ pathIds'[i][2] \in (remoteAddrs \cup withdrawn)'
    <3> SUFFICES ASSUME NEW i \in 1..(n + k)
                 PROVE  pathIds'[i] = PathZero \/ pathIds'[i][2] \in (remoteAddrs \cup withdrawn)'
      BY <2>6, ZenonT(30)
    <3>1. CASE i \in 1..n
      BY <2>1, <2>4, <2>6, <3>1, ZenonT(120) DEF SchedulerInv
    <3>2. CASE i \in (n + 1)..(n + k)
      BY <2>1, <2>3, <2>6, <3>2, SMTT(30), Z3T(30)
    <3>3. i \in 1..n \/ i \in (n + 1)..(n + k)
      <4> HIDE DEF n, k
      <4>1. QED
        BY <2>3, <2>4, SMTT(30), Z3T(30)
    <3>4. QED
      BY <3>1, <3>2, <3>3, ZenonT(60)
  <2>10. FullMesh'
    <3>1. DOMAIN paths' = DOMAIN paths \cup Range(new)
      BY <2>1, ZenonT(30)
    <3>2. ASSUME NEW l \in Locals, NEW q \in remoteAddrs', IsSameVersion(l, q)
          PROVE  <<l, q>> \in DOMAIN paths'
      <4>1. CASE q = r
        <5>1. PICK i \in DOMAIN new : new[i] = <<l, r>>
          BY <2>2, <2>3, <3>2, <4>1, ZenonT(30)
        <5>2. <<l, r>> \in Range(new)
          BY <5>1, ZenonT(30) DEF Range
        <5>3. QED
          BY <3>1, <4>1, <5>2, ZenonT(60)
      <4>2. CASE q # r
        BY <2>1, <3>1, <3>2, <4>2, ZenonT(30) DEF SchedulerInv, FullMesh
      <4>3. QED
        BY <4>1, <4>2, ZenonT(30)
    <3>3. DOMAIN paths' \subseteq Range(pathIds')
      BY <2>7, <3>1, ZenonT(30) DEF SchedulerInv, FullMesh
    <3>4. QED
      BY <3>2, <3>3, ZenonT(30) DEF FullMesh, IsSameVersion
  <2>11. OncePerRound'
    <3>0. ASSUME NEW i \in 1..n, NEW j \in (n + 1)..(n + k), pathIds'[i] = pathIds'[j]
          PROVE  pathIds'[i][2] \in withdrawn' /\ pathIds'[j][2] \in withdrawn'
      <4>1. pathIds[i] = new[j - n] /\ j - n \in 1..k
        BY <2>6, <3>0, ZenonT(30)
      <4>2. pathIds[i] # PathZero /\ pathIds[i][2] = r
        BY <2>3, <4>1, ZenonT(30)
      <4>3. r \in withdrawn
        BY <2>1, <2>4, <4>2, ZenonT(30) DEF SchedulerInv
      <4>4. pathIds'[i] = pathIds[i] /\ withdrawn' = withdrawn
        BY <2>1, <2>6, ZenonT(60)
      <4>5. QED
        BY <3>0, <4>2, <4>3, <4>4, ZenonT(60)
    <3> SUFFICES ASSUME NEW i \in 1..(n + k), NEW j \in 1..(n + k), pathIds'[i] = pathIds'[j]
                 PROVE  i = j \/ pathIds'[i][2] \in withdrawn'
      BY <2>6, ZenonT(30) DEF OncePerRound
    <3>1. CASE i \in 1..n /\ j \in 1..n
      BY <2>1, <2>4, <2>6, <3>1, ZenonT(30) DEF SchedulerInv, OncePerRound
    <3>2. CASE i \in (n + 1)..(n + k) /\ j \in (n + 1)..(n + k)
      <4>1. new[i - n] = new[j - n] /\ i - n \in 1..k /\ j - n \in 1..k
        BY <2>6, <3>2, ZenonT(30)
      <4>2. i - n = j - n
        BY <2>2, <4>1, ZenonT(30)
      <4>3. QED
        BY <2>3, <2>4, <4>2, SMTT(30), Z3T(30)
    <3>3. CASE i \in 1..n /\ j \in (n + 1)..(n + k)
      BY <3>0, <3>3, ZenonT(30)
    <3>4. CASE i \in (n + 1)..(n + k) /\ j \in 1..n
      BY <3>0, <3>4, ZenonT(30)
    <3>5. QED
      BY <2>3, <2>4, <3>1, <3>2, <3>3, <3>4, SMTT(30), Z3T(30)
  <2>12. QED
    BY <2>5, <2>8, <2>9, <2>10, <2>11, ZenonT(60) DEF SchedulerInv
<1>3. QED
    BY <1>1, <1>2, ZenonT(30)

\* Path.contains compares pointers, so that no path is removed.
LEMMA RemoveAddressKept ==
    ASSUME SchedulerInv, NEW r \in Remotes, RemoveAddress(r)
    PROVE  SchedulerInv'
<1>1. \A p \in DOMAIN paths : ~PathContains(p, allocated + 1)
    BY DEF SchedulerInv, PathContains
<1>2. paths' = [p \in DOMAIN paths |-> paths[p]]
    BY <1>1, ZenonT(30) DEF RemoveAddress
<1>3. paths' = paths
    BY <1>2, ZenonT(30) DEF SchedulerInv
<1>4. /\ allocated' = allocated + 1 /\ pathIds' = pathIds
      /\ withdrawn' = withdrawn \cup {r} /\ remoteAddrs' = remoteAddrs \ {r}
    BY ZenonT(30) DEF RemoveAddress
<1>5. allocated' \in Nat /\ 0..allocated \subseteq 0..allocated'
    BY <1>4, SMTT(30), Z3T(30) DEF SchedulerInv
<1>6. paths' \in [DOMAIN paths' -> [obj : 0..allocated', weight : Int]]
    BY <1>3, <1>5, ZenonT(60) DEF SchedulerInv
<1>7. QED
    BY <1>3, <1>4, <1>5, <1>6, ZenonT(30)
    DEF SchedulerInv, FullMesh, OncePerRound, IsSameVersion

LEMMA WeighPathKept ==
    ASSUME SchedulerConstants, SchedulerInv, NEW p, WeighPath(p)
    PROVE  SchedulerInv'
<1>1. PICK weight \in NewWeights(paths[p].weight) :
          paths' = [paths EXCEPT ![p].weight = weight]
    BY Zenon DEF WeighPath
<1>2. UNCHANGED <<allocated, pathIds, remoteAddrs, withdrawn>>
    BY ZenonT(30) DEF WeighPath
<1>3. DOMAIN paths' = DOMAIN paths
    BY <1>1, ZenonT(30) DEF SchedulerInv
<1>4. paths' \in [DOMAIN paths' -> [obj : 0..allocated', weight : Int]]
  <2>1. CASE p \in DOMAIN paths
    <3>1. paths[p] \in [obj : 0..allocated, weight : Int]
      BY <2>1, ZenonT(30) DEF SchedulerInv
    <3>2. weight \in Int
      BY <1>1, <3>1, SMTT(30), Z3T(30) DEF NewWeights
    <3>3. [paths[p] EXCEPT !.weight = weight] \in [obj : 0..allocated, weight : Int]
      BY <3>1, <3>2, Zenon
    <3> DEFINE path == [paths[p] EXCEPT !.weight = weight]
    <3>4. paths' = [paths EXCEPT ![p] = path]
      BY <1>1, ZenonT(30)
    <3> HIDE DEF path
    <3>5. QED
      BY <1>2, <3>3, <3>4, ZenonT(30) DEF SchedulerInv, path
  <2>2. CASE p \notin DOMAIN paths
    <3>1. paths \in [DOMAIN paths -> [obj : 0..allocated, weight : Int]]
      BY Zenon DEF SchedulerInv
    <3> DEFINE T == [obj : 0..allocated, weight : Int]
    <3> HIDE DEF T
    <3>2. paths' \in [DOMAIN paths -> T]
      BY <1>1, <2>2, <3>1, ZenonT(30) DEF T
    <3>3. QED
      BY <1>2, <1>3, <3>2, ZenonT(30) DEF T
  <2>3. QED
    BY <2>1, <2>2, ZenonT(30)
<1>5. QED
    BY <1>2, <1>3, <1>4, ZenonT(30)
    DEF SchedulerInv, FullMesh, OncePerRound, IsSameVersion

LEMMA SchedulerInvKept ==
    ASSUME SchedulerConstants
    PROVE  SchedulerInv /\ [SchedulerNext]_schedulerVars => SchedulerInv'
<1> SUFFICES ASSUME SchedulerInv, [SchedulerNext]_schedulerVars PROVE SchedulerInv'
    BY Zenon
<1>1. ASSUME UNCHANGED <<paths, pathIds, remoteAddrs, allocated, withdrawn>>
      PROVE  SchedulerInv'
    BY <1>1, ZenonT(30) DEF SchedulerInv, FullMesh, OncePerRound, IsSameVersion
<1>2. QED
    BY <1>1, AddRemoteAddressKept, RemoveAddressKept, WeighPathKept, ZenonT(60)
    DEF SchedulerNext, schedulerVars, SetSession, Activate, ModeSelectionTimer,
        MeasurePaths, StartWrite, WriteRoundRobin, WriteWeighted,
        RemoteAddr, StartWeighing, StartSumming, StopSumming,
        AddWeight

LEMMA SchedulerInvHolds ==
    ASSUME SchedulerConstants
    PROVE  SchedulerSpec => []SchedulerInv
<1>1. SchedulerInit => SchedulerInv
  <2> SUFFICES ASSUME SchedulerInit PROVE SchedulerInv
    BY Zenon
  <2>1. [obj |-> 0, weight |-> MaxWeight] \in [obj : 0..0, weight : Int]
    BY SMTT(30), Z3T(30) DEF SchedulerConstants
  <2>2. paths \in [DOMAIN paths -> [obj : 0..allocated, weight : Int]]
    BY <2>1, ZenonT(30) DEF SchedulerInit
  <2>3. pathIds = <<PathZero>> /\ remoteAddrs = {} /\ DOMAIN paths = {PathZero}
    BY ZenonT(30) DEF SchedulerInit
  <2>4. FullMesh /\ OncePerRound
    BY <2>3, SMTT(30), Z3T(30) DEF FullMesh, OncePerRound, Range
  <2>5. QED
    BY <2>2, <2>3, <2>4, SMTT(30), Z3T(30) DEF SchedulerInv, SchedulerInit
<1>2. QED
    BY <1>1, SchedulerInvKept, PTL DEF SchedulerSpec

\* Every local address has a path to every remote one of its IP version that the
\* scheduler knows, and round robin reaches every path, for any number of addresses
\* and of ADDR_MOD frames, known or withdrawn (addRemoteAddress, removeAddress).
THEOREM MeshIsFull ==
    ASSUME SchedulerConstants
    PROVE  SchedulerSpec => []FullMesh
<1>1. SchedulerInv => FullMesh
    BY ZenonT(30) DEF SchedulerInv
<1>2. QED
    BY <1>1, SchedulerInvHolds, PTL

\* No path is in pathIds twice, unless its address was withdrawn and announced
\* again: duplicates of an ADDR_MOD frame change nothing (containsBlocking).
THEOREM PathsOncePerRound ==
    ASSUME SchedulerConstants
    PROVE  SchedulerSpec => []OncePerRound
<1>1. SchedulerInv => OncePerRound
    BY Zenon DEF SchedulerInv
<1>2. QED
    BY <1>1, SchedulerInvHolds, PTL

\* The sum that Weights is, for paths given as a function.
WeightSum(q, S) == SumFunctionOnSet([p \in S |-> q[p].weight], S)

\* More paths and greater weights have a greater sum.
LEMMA WeightsGrow ==
    ASSUME NEW q, NEW r, NEW T, IsFiniteSet(T), NEW S \in SUBSET T,
           \A p \in S : q[p].weight \in Int /\ q[p].weight <= r[p].weight,
           \A p \in T : r[p].weight \in Nat
    PROVE  WeightSum(q, S) <= WeightSum(r, T) /\ WeightSum(q, S) \in Int /\ WeightSum(r, T) \in Int
<1> DEFINE f == [p \in S |-> q[p].weight]
           g == [p \in S |-> r[p].weight]
           h == [p \in T |-> r[p].weight]
           U == T \ S
<1>1. IsFiniteSet(S) /\ IsFiniteSet(U)
    BY FS_Subset, ZenonT(30)
<1>2. \A p \in S : f[p] = q[p].weight /\ g[p] = r[p].weight /\ g[p] = h[p]
    BY Zenon
<1>3. \A p \in T : h[p] = r[p].weight /\ h[p] \in Nat
    BY Zenon
<1>4. \A p \in U : h[p] \in Nat
    BY <1>3, Zenon
<1>5. \A p \in T : h[p] \in Int
    BY <1>3, SMTT(30), Z3T(30)
<1>6. \A p \in S : f[p] \in Int /\ g[p] \in Int /\ f[p] <= g[p]
    BY <1>2, <1>5, Zenon
<1>7. WeightSum(q, S) = SumFunctionOnSet(f, S) /\ WeightSum(r, T) = SumFunctionOnSet(h, T)
    BY Zenon DEF WeightSum
<1> HIDE DEF f, g, h
<1>8. SumFunctionOnSet(f, S) <= SumFunctionOnSet(g, S)
    BY <1>1, <1>6, SumAtMost, ZenonT(30)
<1>9. SumFunctionOnSet(g, S) = SumFunctionOnSet(h, S)
    BY <1>1, <1>2, SumSame, ZenonT(30)
<1>10. SumFunctionOnSet(f, S) \in Int
    BY <1>1, <1>6, SumInt, ZenonT(30)
<1>11. /\ SumFunctionOnSet(h, T) = SumFunctionOnSet(h, S) + SumFunctionOnSet(h, U)
       /\ SumFunctionOnSet(h, T) \in Int /\ SumFunctionOnSet(h, S) \in Int
    BY <1>5, SumSplit, ZenonT(30)
<1>12. SumFunctionOnSet(h, U) \in Nat
    BY <1>1, <1>4, SumNat, ZenonT(30)
<1> HIDE DEF U
<1>13. QED
    BY <1>7, <1>8, <1>9, <1>10, <1>11, <1>12, SMTT(30), Z3T(30)

\* A path's part in the sum.
LEMMA WeightsWithout ==
    ASSUME NEW q, NEW T, IsFiniteSet(T), \A p \in T : q[p].weight \in Int, NEW p \in T
    PROVE  /\ WeightSum(q, T) = q[p].weight + WeightSum(q, T \ {p})
           /\ WeightSum(q, T) \in Int /\ WeightSum(q, T \ {p}) \in Int
<1> DEFINE h == [t \in T |-> q[t].weight]
           U == T \ {p}
           f == [t \in U |-> q[t].weight]
<1>1. IsFiniteSet(U)
    BY FS_Subset, ZenonT(30)
<1>2. /\ \A t \in T : h[t] \in Int
      /\ \A t \in U : f[t] = h[t]
      /\ h[p] = q[p].weight
    BY Zenon
<1>3. WeightSum(q, T) = SumFunctionOnSet(h, T) /\ WeightSum(q, U) = SumFunctionOnSet(f, U)
    BY Zenon DEF WeightSum
<1> HIDE DEF h, f
<1>4. /\ SumFunctionOnSet(h, T) = h[p] + SumFunctionOnSet(h, U)
      /\ SumFunctionOnSet(h, T) \in Int /\ SumFunctionOnSet(h, U) \in Int
    BY <1>2, SumRemove, ZenonT(30)
<1>5. SumFunctionOnSet(f, U) = SumFunctionOnSet(h, U)
    BY <1>1, <1>2, SumSame, ZenonT(30)
<1>6. QED
    BY <1>2, <1>3, <1>4, <1>5, ZenonT(30)

\* What totalPathWeight is worth in each of the phases of weighPathsRunner.
TotalInv ==
    /\ total \in Nat
    /\ IsFiniteSet(DOMAIN paths) /\ PathZero \in DOMAIN paths
    /\ \A p \in DOMAIN paths : paths[p].weight \in 1..MaxWeight
    /\ runner \in [pc : {"sleep", "weigh", "sum"}, todo : SUBSET DOMAIN paths]
    /\ runner.pc = "sleep" => total <= Weights(DOMAIN paths)
    /\ runner.pc = "weigh" =>
          total <= Weights(DOMAIN paths) + Cardinality(DOMAIN paths \ runner.todo)
    /\ runner.pc = "sum" => total <= Weights(DOMAIN paths \ runner.todo)
    /\ total = 0 => runner.pc = "sum" /\ PathZero \in runner.todo

\* More paths, of greater weights, none of which sumUpWeights has passed by.
LEMMA MorePathsKeepTotal ==
    ASSUME TotalInv, total' = total, runner'.pc = runner.pc,
           runner' \in [pc : {"sleep", "weigh", "sum"}, todo : SUBSET DOMAIN paths'],
           DOMAIN paths \subseteq DOMAIN paths', IsFiniteSet(DOMAIN paths'),
           DOMAIN paths \ runner.todo \subseteq DOMAIN paths' \ runner'.todo,
           PathZero \in runner.todo => PathZero \in runner'.todo,
           \A p \in DOMAIN paths' : paths'[p].weight \in 1..MaxWeight,
           \A p \in DOMAIN paths : paths[p].weight <= paths'[p].weight
    PROVE  TotalInv'
<1> DEFINE D == DOMAIN paths
           E == DOMAIN paths'
           S == D \ runner.todo
           T == E \ runner'.todo
<1>1. MaxWeight \in Nat
    BY SchedulerAssumption
<1>2. /\ \A p \in D : paths[p].weight \in Int
      /\ \A p \in E : paths'[p].weight \in Nat
    BY <1>1, SMTT(30), Z3T(30) DEF TotalInv
<1>3. D \in SUBSET E /\ S \in SUBSET T /\ S \subseteq D /\ T \in SUBSET E
    BY Zenon
<1>4. IsFiniteSet(T) /\ IsFiniteSet(S) /\ Cardinality(S) <= Cardinality(T)
    BY <1>3, FS_Subset, ZenonT(60)
<1>5. Cardinality(S) \in Nat /\ Cardinality(T) \in Nat
    BY <1>4, FS_CardinalityType, ZenonT(60)
<1>6. Weights(D) = WeightSum(paths, D) /\ Weights(S) = WeightSum(paths, S)
    BY Zenon DEF Weights, WeightSum
<1>7. Weights(D)' = WeightSum(paths', E) /\ Weights(S)' = WeightSum(paths', T)
    BY Zenon DEF Weights, WeightSum
<1>8. /\ WeightSum(paths, D) <= WeightSum(paths', E)
      /\ WeightSum(paths, D) \in Int /\ WeightSum(paths', E) \in Int
    BY <1>2, <1>3, WeightsGrow, ZenonT(60)
<1>9. /\ WeightSum(paths, S) <= WeightSum(paths', T)
      /\ WeightSum(paths, S) \in Int /\ WeightSum(paths', T) \in Int
    BY <1>2, <1>3, <1>4, WeightsGrow, ZenonT(60)
<1>10. /\ total \in Nat
       /\ runner.pc = "sleep" => total <= Weights(D)
       /\ runner.pc = "weigh" => total <= Weights(D) + Cardinality(S)
       /\ runner.pc = "sum" => total <= Weights(S)
    BY Zenon DEF TotalInv
<1> HIDE DEF D, E, S, T
<1>11. /\ runner.pc = "sleep" => total <= WeightSum(paths', E)
       /\ runner.pc = "weigh" => total <= WeightSum(paths', E) + Cardinality(T)
       /\ runner.pc = "sum" => total <= WeightSum(paths', T)
    BY <1>4, <1>5, <1>6, <1>8, <1>9, <1>10, SMTT(30), Z3T(30)
<1>12. QED
    BY <1>7, <1>11, ZenonT(60) DEF TotalInv, D, E, S, T

LEMMA AddRemoteAddressTotal ==
    ASSUME SchedulerConstants, TotalInv, NEW r \in Remotes, AddRemoteAddress(r)
    PROVE  TotalInv'
<1>1. CASE UNCHANGED <<paths, runner>>
  <2>1. total' = total
    BY Zenon DEF AddRemoteAddress
  <2>2. QED
    BY <1>1, <2>1, ZenonT(60) DEF TotalInv, Weights
<1>2. CASE ~UNCHANGED <<paths, runner>>
  <2> DEFINE path == [obj |-> allocated + 2, weight |-> MaxWeight]
  <2>1. PICK new \in NewPaths(r) :
            /\ paths' = [p \in DOMAIN paths \cup Range(new) |->
                            IF p \in Range(new) THEN path ELSE paths[p]]
            /\ \E seen \in IF runner.pc = "sleep" THEN {{}}
                           ELSE SUBSET (Range(new) \ DOMAIN paths) :
                  runner' = [runner EXCEPT !.todo = @ \cup seen]
    BY <1>2, Zenon DEF AddRemoteAddress
  <2>2. PICK seen \in SUBSET (Range(new) \ DOMAIN paths) :
            runner' = [runner EXCEPT !.todo = @ \cup seen]
    BY <2>1, ZenonT(30)
  <2>3. total' = total
    BY Zenon DEF AddRemoteAddress
  <2>4. path.weight = MaxWeight /\ MaxWeight \in 1..MaxWeight
        /\ \A w \in 1..MaxWeight : w <= MaxWeight /\ w <= w
    BY SchedulerAssumption, SMTT(30), Z3T(30)
  <2> HIDE DEF path
  <2>5. DOMAIN paths' = DOMAIN paths \cup Range(new)
    BY <2>1, Zenon
  <2>6. \A p \in DOMAIN paths' : paths'[p].weight \in 1..MaxWeight
    BY <2>1, <2>4, ZenonT(30) DEF TotalInv
  <2>7. \A p \in DOMAIN paths : paths[p].weight <= paths'[p].weight
    BY <2>1, <2>4, <2>5, ZenonT(30) DEF TotalInv
  <2>8. IsFiniteSet(DOMAIN paths')
    <3>1. IsFiniteSet(Locals \X {r})
      BY FS_Product, FS_Singleton, ZenonT(30) DEF SchedulerConstants
    <3>2. Range(new) \subseteq Locals \X {r}
      <4>1. new \in Seq(Locals \X {r})
        BY NewPathsOnce, Zenon
      <4>2. \A i \in DOMAIN new : new[i] \in Locals \X {r}
        BY <4>1, SMTT(30), Z3T(30)
      <4>3. QED
        BY <4>2, ZenonT(30) DEF Range
    <3>3. IsFiniteSet(Range(new)) /\ IsFiniteSet(DOMAIN paths)
      BY <3>1, <3>2, FS_Subset, ZenonT(30) DEF TotalInv
    <3>4. IsFiniteSet(DOMAIN paths \cup Range(new))
      BY <3>3, FS_Union, ZenonT(30)
    <3>5. QED
      BY <2>5, <3>4, Zenon
  <2>9. /\ runner'.pc = runner.pc /\ runner'.todo = runner.todo \cup seen
        /\ runner' \in [pc : {"sleep", "weigh", "sum"}, todo : SUBSET DOMAIN paths']
    BY <2>2, <2>5, SMTT(30), Z3T(30) DEF TotalInv
  <2>10. /\ DOMAIN paths \subseteq DOMAIN paths'
         /\ DOMAIN paths \ runner.todo \subseteq DOMAIN paths' \ runner'.todo
         /\ PathZero \in runner.todo => PathZero \in runner'.todo
    BY <2>2, <2>5, <2>9, ZenonT(30)
  <2>11. QED
    BY <2>3, <2>6, <2>7, <2>8, <2>9, <2>10, MorePathsKeepTotal, ZenonT(60)
<1>3. QED
    BY <1>1, <1>2, ZenonT(30)

\* weighPath takes one from a weight at most, and leaves the path behind.
LEMMA WeighPathTotal ==
    ASSUME SchedulerInv, TotalInv, NEW p, WeighPath(p)
    PROVE  TotalInv'
<1> DEFINE D == DOMAIN paths
           S == D \ runner.todo
           U == D \ {p}
<1>1. PICK weight \in NewWeights(paths[p].weight) : paths' = [paths EXCEPT ![p].weight = weight]
    BY Zenon DEF WeighPath
<1>2. /\ runner.pc = "weigh" /\ p \in runner.todo /\ total' = total
      /\ runner' = [runner EXCEPT !.todo = runner.todo \ {p}]
    BY ZenonT(30) DEF WeighPath
<1>3. p \in D
    BY <1>2 DEF TotalInv
<1>4. MaxWeight \in Nat
    BY SchedulerAssumption
<1>5. weight \in 1..MaxWeight /\ paths[p].weight <= weight + 1 /\ weight \in Int
  <2>1. paths[p].weight \in 1..MaxWeight
    BY <1>3, Zenon DEF TotalInv
  <2>2. QED
    BY <1>1, <1>4, <2>1, SMTT(30), Z3T(30) DEF NewWeights
<1>6. DOMAIN paths' = D /\ \A t \in U : paths'[t] = paths[t]
    BY <1>1, ZenonT(30)
<1>7. paths'[p].weight = weight
  <2>1. paths'[p] = [paths[p] EXCEPT !.weight = weight]
    BY <1>1, <1>3, ZenonT(30) DEF SchedulerInv
  <2>2. paths[p] \in [obj : 0..allocated, weight : Int]
    BY <1>3, Zenon DEF SchedulerInv
  <2>3. QED
    BY <2>1, <2>2, SMTT(30), Z3T(30)
<1>8. \A t \in D : paths[t].weight \in 1..MaxWeight /\ paths'[t].weight \in 1..MaxWeight
    BY <1>5, <1>6, <1>7, ZenonT(30) DEF TotalInv
<1>9. \A t \in D : paths[t].weight \in Nat /\ paths'[t].weight \in Nat
                   /\ paths[t].weight \in Int /\ paths'[t].weight \in Int
    BY <1>4, <1>8, SMTT(30), Z3T(30)
<1>10. IsFiniteSet(D) /\ IsFiniteSet(U) /\ IsFiniteSet(S)
    BY FS_Subset, ZenonT(60) DEF TotalInv
<1>11. /\ WeightSum(paths, D) = paths[p].weight + WeightSum(paths, U)
       /\ WeightSum(paths, D) \in Int /\ WeightSum(paths, U) \in Int
    BY <1>3, <1>9, <1>10, WeightsWithout, ZenonT(60)
<1>12. /\ WeightSum(paths', D) = weight + WeightSum(paths', U)
       /\ WeightSum(paths', D) \in Int /\ WeightSum(paths', U) \in Int
  <2>1. \A t \in D : paths'[t].weight \in Int
    BY <1>9, Zenon
  <2>2. /\ WeightSum(paths', D) = paths'[p].weight + WeightSum(paths', U)
        /\ WeightSum(paths', D) \in Int /\ WeightSum(paths', U) \in Int
    BY <1>3, <1>10, <2>1, WeightsWithout, ZenonT(60)
  <2>3. QED
    BY <1>7, <2>2, Zenon
<1>13. WeightSum(paths, U) <= WeightSum(paths', U)
  <2>1. \A t \in U : paths[t].weight \in Int /\ paths[t].weight <= paths'[t].weight
    BY <1>6, <1>9, SMTT(30), Z3T(30)
  <2>2. U \in SUBSET U /\ \A t \in U : paths'[t].weight \in Nat
    BY <1>9, Zenon
  <2>3. QED
    BY <1>10, <2>1, <2>2, WeightsGrow, ZenonT(60)
<1>14. runner'.pc = "weigh" /\ runner'.todo = runner.todo \ {p}
       /\ runner' \in [pc : {"sleep", "weigh", "sum"}, todo : SUBSET D]
    BY <1>2, SMTT(30), Z3T(30) DEF TotalInv
<1>15. Cardinality(D \ runner'.todo) = Cardinality(S) + 1 /\ Cardinality(S) \in Nat
  <2>1. D \ runner'.todo = S \cup {p} /\ p \notin S
    BY <1>2, <1>3, <1>14, ZenonT(30)
  <2>2. QED
    BY <1>10, <2>1, FS_AddElement, FS_CardinalityType, ZenonT(60)
<1>16. /\ Weights(D) = WeightSum(paths, D) /\ Weights(D)' = WeightSum(paths', D)
    BY <1>6, Zenon DEF Weights, WeightSum
<1>17. total \in Nat /\ total <= WeightSum(paths, D) + Cardinality(S) /\ total # 0
    BY <1>2, <1>16, ZenonT(30) DEF TotalInv
<1>18. paths[p].weight \in Int
    BY <1>3, <1>9, Zenon
<1> HIDE DEF D, S, U
<1>19. total <= WeightSum(paths', D) + Cardinality(D \ runner'.todo)
    BY <1>5, <1>11, <1>12, <1>13, <1>15, <1>17, <1>18, SMTT(30), Z3T(30)
<1>20. DOMAIN paths' = D /\ IsFiniteSet(D) /\ PathZero \in D
    BY <1>6, Zenon DEF TotalInv, D
<1>21. QED
    BY <1>2, <1>8, <1>14, <1>16, <1>17, <1>19, <1>20, ZenonT(60) DEF TotalInv, D

\* sumUpWeights, path by path.
LEMMA AddWeightTotal ==
    ASSUME TotalInv, NEW p, AddWeight(p)
    PROVE  TotalInv'
<1> DEFINE D == DOMAIN paths
           S == D \ runner.todo
           T == S \cup {p}
<1>1. /\ runner.pc = "sum" /\ p \in runner.todo /\ paths' = paths
      /\ runner' = [runner EXCEPT !.todo = runner.todo \ {p}]
      /\ total' = total + paths[p].weight
    BY ZenonT(30) DEF AddWeight
<1>2. p \in D /\ T \subseteq D /\ T \ {p} = S /\ p \in T
    BY <1>1 DEF TotalInv
<1>3. runner'.pc = "sum" /\ runner'.todo = runner.todo \ {p}
      /\ runner' \in [pc : {"sleep", "weigh", "sum"}, todo : SUBSET D]
    BY <1>1, SMTT(30), Z3T(30) DEF TotalInv
<1>4. D \ runner'.todo = T
    BY <1>1, <1>2, <1>3, ZenonT(30)
<1>5. IsFiniteSet(T) /\ \A t \in T : paths[t].weight \in Int
  <2>1. IsFiniteSet(T)
    BY <1>2, FS_Subset, ZenonT(30) DEF TotalInv
  <2>2. MaxWeight \in Nat
    BY SchedulerAssumption
  <2>3. \A t \in T : paths[t].weight \in 1..MaxWeight
    BY <1>2, Zenon DEF TotalInv
  <2>4. QED
    BY <2>1, <2>2, <2>3, SMTT(30), Z3T(30)
<1>6. /\ WeightSum(paths, T) = paths[p].weight + WeightSum(paths, S)
      /\ WeightSum(paths, T) \in Int /\ WeightSum(paths, S) \in Int
  <2>1. /\ WeightSum(paths, T) = paths[p].weight + WeightSum(paths, T \ {p})
        /\ WeightSum(paths, T) \in Int /\ WeightSum(paths, T \ {p}) \in Int
    <3>1. p \in T
      BY <1>2, Zenon
    <3> HIDE DEF T
    <3>2. QED
      BY <1>5, <3>1, WeightsWithout, ZenonT(60)
  <2>2. QED
    BY <1>2, <2>1, Zenon
<1>7. Weights(S) = WeightSum(paths, S) /\ Weights(D \ runner.todo)' = WeightSum(paths, T)
    BY <1>1, <1>4, Zenon DEF Weights, WeightSum
<1>8. total \in Nat /\ total <= WeightSum(paths, S)
    BY <1>1, <1>7, ZenonT(30) DEF TotalInv
<1>9. paths[p].weight \in 1..MaxWeight /\ MaxWeight \in Nat
    BY <1>2, SchedulerAssumption DEF TotalInv
<1>10. total' <= WeightSum(paths, T) /\ total' \in Nat /\ total' # 0
  <2> DEFINE w == paths[p].weight
             x == WeightSum(paths, S)
             y == WeightSum(paths, T)
  <2> HIDE DEF w, x, y
  <2>1. total' = total + w /\ y = w + x /\ x \in Int /\ w \in 1..MaxWeight /\ MaxWeight \in Nat
        /\ total \in Nat /\ total <= x
    BY <1>1, <1>6, <1>8, <1>9, Zenon DEF w, x, y
  <2>2. total' <= y /\ total' \in Nat /\ total' # 0
    BY <2>1, SMTT(30), Z3T(30)
  <2>3. QED
    BY <2>2, Zenon DEF y
<1>11. QED
    BY <1>1, <1>3, <1>7, <1>10, ZenonT(60) DEF TotalInv

LEMMA StartSummingTotal ==
    ASSUME TotalInv, StartSumming
    PROVE  TotalInv'
<1>1. /\ paths' = paths /\ total' = 0
      /\ runner' = [pc |-> "sum", todo |-> DOMAIN paths]
    BY Zenon DEF StartSumming
<1>2. /\ runner'.pc = "sum" /\ runner'.todo = DOMAIN paths
      /\ runner' \in [pc : {"sleep", "weigh", "sum"}, todo : SUBSET DOMAIN paths]
    BY <1>1, SMTT(30), Z3T(30)
<1>3. Weights(DOMAIN paths \ runner.todo)' = 0
  <2>1. (DOMAIN paths \ runner.todo)' = {}
    BY <1>1, <1>2, Zenon
  <2>2. QED
    BY <2>1, SumEmpty, ZenonT(30) DEF Weights
<1>4. 0 \in Nat /\ 0 <= 0
    OBVIOUS
<1>5. QED
    BY <1>1, <1>2, <1>3, <1>4, ZenonT(60) DEF TotalInv

\* The other steps of weighPathsRunner: the loops start and end.
LEMMA RunnerTotal ==
    ASSUME TotalInv, StartWeighing \/ StopSumming
    PROVE  TotalInv'
<1>1. paths' = paths /\ total' = total
    BY Zenon DEF StartWeighing, StopSumming
<1>2. Weights(DOMAIN paths)' = Weights(DOMAIN paths)
    BY <1>1, Zenon DEF Weights
<1>3. CASE StartWeighing
  <2>1. runner.pc = "sleep" /\ runner' = [pc |-> "weigh", todo |-> DOMAIN paths]
    BY <1>3, Zenon DEF StartWeighing
  <2>2. /\ runner'.pc = "weigh" /\ runner'.todo = DOMAIN paths
        /\ runner' \in [pc : {"sleep", "weigh", "sum"}, todo : SUBSET DOMAIN paths]
    BY <2>1, SMTT(30), Z3T(30)
  <2>3. Cardinality((DOMAIN paths \ runner.todo)') = 0
    <3>1. (DOMAIN paths \ runner.todo)' = {}
      BY <1>1, <2>2, Zenon
    <3>2. QED
      BY <3>1, FS_EmptySet, ZenonT(30)
  <2>4. total <= Weights(DOMAIN paths) /\ total # 0
    BY <2>1, Zenon DEF TotalInv
  <2>5. Weights(DOMAIN paths) + 0 = Weights(DOMAIN paths)
    <3>1. \A p \in DOMAIN paths : paths[p].weight \in Int
      BY SchedulerAssumption, SMTT(30), Z3T(30) DEF TotalInv
    <3>2. Weights(DOMAIN paths) \in Int
      BY <3>1, WeightsWithout, ZenonT(60) DEF TotalInv, Weights, WeightSum
    <3>3. QED
      BY <3>2, SMTT(30), Z3T(30)
  <2>6. QED
    BY <1>1, <1>2, <2>2, <2>3, <2>4, <2>5, ZenonT(60) DEF TotalInv
<1>4. CASE StopSumming
  <2>1. runner.pc = "sum" /\ runner.todo = {} /\ runner' = Idle
    BY <1>4, Zenon DEF StopSumming
  <2>2. /\ runner'.pc = "sleep" /\ runner'.todo = {}
        /\ runner' \in [pc : {"sleep", "weigh", "sum"}, todo : SUBSET DOMAIN paths]
    BY <2>1, SMTT(30), Z3T(30) DEF Idle
  <2>3. DOMAIN paths \ runner.todo = DOMAIN paths
    BY <2>1, Zenon
  <2>4. total <= Weights(DOMAIN paths) /\ total # 0
    BY <2>1, <2>3, ZenonT(30) DEF TotalInv
  <2>5. QED
    BY <1>1, <1>2, <2>2, <2>4, ZenonT(60) DEF TotalInv
<1>5. QED
    BY <1>3, <1>4, Zenon

LEMMA TotalInvKept ==
    ASSUME SchedulerConstants, SchedulerInv, TotalInv, [SchedulerNext]_schedulerVars
    PROVE  TotalInv'
<1>1. ASSUME UNCHANGED <<paths, total, runner>>
      PROVE  TotalInv'
    BY <1>1, ZenonT(60) DEF TotalInv, Weights
<1>2. ASSUME NEW r \in Remotes, RemoveAddress(r)
      PROVE  TotalInv'
  <2> DEFINE gone == {p \in DOMAIN paths : PathContains(p, allocated + 1)}
  <2>1. gone = {}
    BY DEF SchedulerInv, PathContains
  <2>2. /\ paths' = [p \in DOMAIN paths \ gone |-> paths[p]]
        /\ runner' = [runner EXCEPT !.todo = runner.todo \ gone]
        /\ total' = total
    BY <1>2, Zenon DEF RemoveAddress
  <2>3. paths' = paths
    BY <2>1, <2>2, ZenonT(30) DEF SchedulerInv
  <2>4. runner' = runner
    <3>1. runner.todo \ gone = runner.todo
      BY <2>1, Zenon
    <3>2. runner' = [runner EXCEPT !.todo = runner.todo]
      BY <2>2, <3>1, Zenon
    <3>3. QED
      BY <3>2, SMTT(30), Z3T(30) DEF TotalInv
  <2>5. QED
    BY <1>1, <2>2, <2>3, <2>4, Zenon
<1>3. QED
    BY <1>1, <1>2, AddRemoteAddressTotal, WeighPathTotal, AddWeightTotal,
       StartSummingTotal, RunnerTotal, ZenonT(60)
    DEF SchedulerNext, schedulerVars, SetSession, Activate, ModeSelectionTimer,
        MeasurePaths, StartWrite, WriteRoundRobin, WriteWeighted, RemoteAddr

LEMMA InitTotal ==
    ASSUME SchedulerInit
    PROVE  TotalInv
<1>1. DOMAIN paths = {PathZero} /\ paths[PathZero] = [obj |-> 0, weight |-> MaxWeight]
      /\ total = MaxWeight /\ runner = Idle
    BY ZenonT(30) DEF SchedulerInit
<1>2. paths[PathZero].weight = MaxWeight /\ MaxWeight \in 1..MaxWeight /\ MaxWeight \in Nat
      /\ MaxWeight \in Int /\ MaxWeight # 0 /\ MaxWeight <= MaxWeight + 0 /\ MaxWeight + 0 = MaxWeight
    BY <1>1, SchedulerAssumption, SMTT(30), Z3T(30)
<1>3. IsFiniteSet({PathZero})
    BY FS_Singleton, Zenon
<1>4. Weights(DOMAIN paths) = MaxWeight
  <2>1. WeightSum(paths, {PathZero}) = MaxWeight + WeightSum(paths, {PathZero} \ {PathZero})
    BY <1>2, <1>3, WeightsWithout, ZenonT(30)
  <2>2. WeightSum(paths, {PathZero} \ {PathZero}) = 0
    <3>1. {PathZero} \ {PathZero} = {}
      BY Zenon
    <3>2. QED
      BY <3>1, SumEmpty, ZenonT(30) DEF WeightSum
  <2>3. QED
    BY <1>1, <1>2, <2>1, <2>2, ZenonT(30) DEF Weights, WeightSum
<1>5. /\ runner.pc = "sleep"
      /\ runner \in [pc : {"sleep", "weigh", "sum"}, todo : SUBSET DOMAIN paths]
    BY <1>1, SMTT(30), Z3T(30) DEF Idle
<1>6. MaxWeight <= MaxWeight
    BY <1>2
<1>7. QED
    BY <1>1, <1>2, <1>3, <1>4, <1>5, <1>6, ZenonT(30) DEF TotalInv

\* For any number of paths and any weights, the total that getWeightedPath draws
\* from exceeds the sum of the weights by one per path at most, and is 0 only while
\* sumUpWeights has not come to any path yet (weighPathsRunner, addRemoteAddress).
THEOREM TotalIsRecent ==
    ASSUME SchedulerConstants
    PROVE  SchedulerSpec => []StaleTotal
<1>1. SchedulerInit => TotalInv
    BY InitTotal, Zenon
<1>2. SchedulerInv /\ TotalInv /\ [SchedulerNext]_schedulerVars => TotalInv'
    BY TotalInvKept, Zenon
<1>3. ASSUME TotalInv
      PROVE  StaleTotal
  <2> DEFINE D == DOMAIN paths
             S == D \ runner.todo
             n == Weights(D)
             m == Weights(S)
  <2>1. /\ IsFiniteSet(D) /\ S \in SUBSET D /\ IsFiniteSet(S)
        /\ Cardinality(S) <= Cardinality(D)
        /\ Cardinality(D) \in Nat /\ Cardinality(S) \in Nat
    BY <1>3, FS_Subset, FS_CardinalityType, ZenonT(60) DEF TotalInv
  <2>2. \A p \in D : /\ paths[p].weight \in Int /\ paths[p].weight \in Nat
                     /\ paths[p].weight <= paths[p].weight
    BY <1>3, SchedulerAssumption, SMTT(30), Z3T(30) DEF TotalInv
  <2>3. m <= n /\ m \in Int /\ n \in Int
    BY <2>1, <2>2, WeightsGrow, ZenonT(60) DEF Weights, WeightSum
  <2>4. /\ total \in Nat /\ runner.pc \in {"sleep", "weigh", "sum"}
        /\ runner.pc = "sleep" => total <= n
        /\ runner.pc = "weigh" => total <= n + Cardinality(S)
        /\ runner.pc = "sum" => total <= m
    BY <1>3, ZenonT(30) DEF TotalInv
  <2> HIDE DEF D, S, n, m
  <2>5. total <= n + Cardinality(D)
    BY <2>1, <2>3, <2>4, SMTT(30), Z3T(30)
  <2>6. total = 0 => runner.pc = "sum" /\ runner.todo # {}
    BY <1>3, Zenon DEF TotalInv
  <2>7. QED
    BY <2>5, <2>6, Zenon DEF StaleTotal, n, D
<1>4. QED
    BY <1>1, <1>2, <1>3, SchedulerInvHolds, PTL DEF SchedulerSpec

=============================================================================
