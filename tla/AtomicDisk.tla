----------------------------- MODULE AtomicDisk -----------------------------
(***************************************************************************)
(* What the logging layer (kernel/log.c) promises the file system: a set   *)
(* of blocks that processes update inside operations, and whose durable    *)
(* content only ever moves from one state in which no operation is in      *)
(* progress to a later such state, all at once.  A crash falls back to the *)
(* durable content.                                                        *)
(***************************************************************************)
CONSTANTS Procs,    \* processes that run file-system calls
          Blocks,   \* home blocks of the file system
          Vals      \* contents of a block

VARIABLES durable,  \* what a reboot would find
          current,  \* what bread() returns now
          active    \* processes between begin_op() and end_op()

vars == <<durable, current, active>>

Init ==
  /\ durable \in [Blocks -> Vals]
  /\ current = durable
  /\ active = {}

Begin(p) ==
  /\ active' = active \union {p}
  /\ UNCHANGED <<durable, current>>

Write(p, b, v) ==
  /\ p \in active
  /\ current' = [current EXCEPT ![b] = v]
  /\ UNCHANGED <<durable, active>>

End(p) ==
  /\ p \in active
  /\ active' = active \ {p}
  /\ UNCHANGED <<durable, current>>

\* All updates of all finished operations become durable in one step, and
\* never while an operation is half done.
Commit ==
  /\ active = {}
  /\ durable' = current
  /\ UNCHANGED <<current, active>>

Crash ==
  /\ current' = durable
  /\ active' = {}
  /\ UNCHANGED durable

Next ==
  \/ \E p \in Procs : Begin(p) \/ End(p)
  \/ \E p \in Procs, b \in Blocks, v \in Vals : Write(p, b, v)
  \/ Commit
  \/ Crash

Spec == Init /\ [][Next]_vars
=============================================================================
