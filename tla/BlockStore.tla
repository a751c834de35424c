------------------------------ MODULE BlockStore ------------------------------
(***************************************************************************)
(* What the buffer cache promises its callers (the interface comment of    *)
(* kernel/bio.c): a disk block is in use by one process at a time, and     *)
(* what the next one finds in it is what the last one left there.          *)
(***************************************************************************)
CONSTANTS Procs, Blocks, Vals, None

VARIABLES content,   \* what a block holds
          owner      \* the process that has the block between bread and brelse

vars == <<content, owner>>

Init ==
  /\ content \in [Blocks -> Vals]
  /\ owner = [k \in Blocks |-> None]

Acquire(p, k) ==
  /\ owner[k] = None
  /\ owner' = [owner EXCEPT ![k] = p]
  /\ UNCHANGED content

Write(p, k, v) ==
  /\ owner[k] = p
  /\ content' = [content EXCEPT ![k] = v]
  /\ UNCHANGED owner

Release(p, k) ==
  /\ owner[k] = p
  /\ owner' = [owner EXCEPT ![k] = None]
  /\ UNCHANGED content

Next ==
  \E p \in Procs, k \in Blocks :
    \/ Acquire(p, k)
    \/ \E v \in Vals : Write(p, k, v)
    \/ Release(p, k)

Spec == Init /\ [][Next]_vars
=============================================================================
