-------------------------------- MODULE Fifo --------------------------------
(* A bounded queue of bytes: what a pipe promises to writers and readers.   *)
EXTENDS Integers, Sequences

CONSTANTS Bytes, Cap

VARIABLE q

Init == q = <<>>

Put(ch) == Len(q) < Cap /\ q' = Append(q, ch)
Get == q # <<>> /\ q' = Tail(q)

Next == Get \/ \E ch \in Bytes : Put(ch)

Spec == Init /\ [][Next]_q
=============================================================================
