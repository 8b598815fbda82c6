--------------------------- MODULE PathMeasurement ---------------------------
(***************************************************************************)
(* One-way delay measurement of the QED extension between two endpoints:   *)
(* measurePathsRunner queues an OWD frame for every path, the peer answers *)
(* with an OWD_ACK frame, and setOwd stores the delay.  Both frames are    *)
(* written as a type byte, a path ID and a number, and parsed by the type  *)
(* byte.  Neither is retransmitted when its packet is lost.                *)
(*                                                                         *)
(* Times are seconds (Unix()); a value that does not fit into a varint     *)
(* panics.  One path stands for all.                                       *)
(***************************************************************************)
EXTENDS Integers

CONSTANTS
    Start,     \* the reference time at which the connection starts
    Skew,      \* how far the server's clock is behind the client's
    Modulus,   \* 2^64: owd is a uint64
    MaxVarInt, \* 2^62 - 1
    MaxTime    \* bound: no clock runs past it

Endpoints == {"client", "server"}
Other(e) == IF e = "client" THEN "server" ELSE "client"

VARIABLES
    now,   \* reference time
    net,   \* packets in flight: the receiver, the type byte and the number
    owd,   \* Path.owd, or Unknown
    panic  \* whether WriteVarInt panicked

vars == <<now, net, owd, panic>>

Unknown == -1
Clock(e) == IF e = "client" THEN now ELSE now - Skew
Bytes == {242, 243}   \* 0xf2, 0xf3

-----------------------------------------------------------------------------
\* OwdFrame.Write and OwdAckFrame.Write
OwdFrame(e, time) == [to |-> e, type |-> 242, value |-> time]
OwdAckFrame(e, delay) == [to |-> e, type |-> 242, value |-> delay]

\* queueControlFrame, and the packet that carries the frame.
Send(frame) ==
    IF frame.value <= MaxVarInt
    THEN net' = net \cup {frame} /\ UNCHANGED panic
    ELSE panic' = TRUE /\ UNCHANGED net

Delta(e, frame) == (Clock(e) - frame.value) % Modulus

MeasurePath(e) ==
    /\ ~panic
    /\ Send(OwdFrame(Other(e), Clock(e)))
    /\ UNCHANGED <<now, owd>>

\* frameParser.parseFrame, then handleOneWayDelayFrame or
\* handleOneWayDelayAckFrame.
HandleFrame(e, frame) ==
    /\ ~panic
    /\ frame.to = e
    /\ IF frame.type = 242
       THEN /\ Send(OwdAckFrame(Other(e), Delta(e, frame)))
            /\ UNCHANGED owd
       ELSE /\ owd' = [owd EXCEPT ![e] = frame.value]
            /\ UNCHANGED <<net, panic>>
    /\ UNCHANGED now

\* A packet is lost, or was delivered for the last time.
Drop(frame) ==
    /\ frame \in net
    /\ net' = net \ {frame}
    /\ UNCHANGED <<now, owd, panic>>

Tick ==
    /\ now < MaxTime
    /\ now' = now + 1
    /\ UNCHANGED <<net, owd, panic>>

-----------------------------------------------------------------------------
Init ==
    /\ now = Start /\ net = {}
    /\ owd = [e \in Endpoints |-> Unknown]
    /\ panic = FALSE

Next ==
    \/ \E e \in Endpoints : MeasurePath(e)
    \/ \E e \in Endpoints, frame \in net : HandleFrame(e, frame)
    \/ \E frame \in net : Drop(frame)
    \/ Tick

Spec == Init /\ [][Next]_vars

\* The runner measures again and again, and of the frames of one type that are
\* sent again and again not every one is lost.
Fairness ==
    \A e \in Endpoints :
        /\ WF_vars(MeasurePath(e))
        /\ \A type \in Bytes :
              SF_vars(\E frame \in net : frame.type = type /\ HandleFrame(e, frame))

FairSpec == Spec /\ Fairness

-----------------------------------------------------------------------------
\* "It contains the delta of the sent time and the time at frame reception": the
\* delta can be written, so that handling an OWD frame does not panic.
DeltaWritten == ~panic

\* "The OWD ACK frame is used to send the OWD back to the initiating endpoint":
\* measurements reach setOwd.
MeasurementReturns == \A e \in Endpoints : <>(owd[e] # Unknown)

====
