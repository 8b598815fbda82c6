------------------------------ MODULE MCStream ------------------------------
(* Instances of Stream for TLC.                                            *)
EXTENDS Stream, TLC

CONSTANTS s1, s2

\* s1 is cancelled by both ends, s2 by the reader.
ByBoth == s1 :> {"write", "read"} @@ s2 :> {"read"}
Writing == [s \in Streams |-> {"write"}]

OneAndTwo == s1 :> 1 @@ s2 :> 2
One == [s \in Streams |-> 1]
Two == [s \in Streams |-> 2]

=============================================================================
