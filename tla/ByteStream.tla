----------------------------- MODULE ByteStream -----------------------------
(***************************************************************************)
(* What reassembly promises to the reader of a stream, whatever is kept to *)
(* get there: bytes arrive in any order and any number of times, and the   *)
(* reader gets them in the order of the stream, each once, none before it  *)
(* arrived, and every one in the end unless the connection fails.          *)
(***************************************************************************)
EXTENDS Integers, Sequences

CONSTANT Length   \* the length of the stream; the byte at offset i is i

VARIABLES
    arrived,  \* the offsets of the bytes that arrived
    output,   \* what the reader got
    failed

abstract == <<arrived, output, failed>>

Init == arrived = {} /\ output = <<>> /\ failed = FALSE

Arrive ==
    /\ ~failed
    /\ \E offset, limit \in 0..Length : arrived' = arrived \cup (offset..(limit - 1))
    /\ failed' \in BOOLEAN
    /\ UNCHANGED output

Deliver ==
    /\ ~failed
    /\ \E limit \in (Len(output) + 1)..Length :
          /\ Len(output)..(limit - 1) \subseteq arrived
          /\ output' = [i \in 1..limit |-> i - 1]
    /\ UNCHANGED <<arrived, failed>>

Spec == Init /\ [][Arrive \/ Deliver]_abstract

FairSpec == Spec /\ WF_abstract(Deliver)

=============================================================================
