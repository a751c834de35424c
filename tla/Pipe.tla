-------------------------------- MODULE Pipe --------------------------------
(***************************************************************************)
(* A pipe (kernel/pipe.c) between processes that share its two ends, with  *)
(* the fileclose() of the last reference to an end (kernel/file.c) and     *)
(* kill() (kernel/proc.c).  pi->lock is explicit, because kill() does not  *)
(* take it: a process can be killed in the middle of a call.               *)
(***************************************************************************)
EXTENDS Integers, Sequences, FiniteSets

CONSTANTS Writers, Readers,  \* processes with the write end, the read end open
          Bytes,             \* byte values
          PIPESIZE,          \* size of pi->data
          UINT,              \* nread and nwrite are counted modulo UINT (2^32)
          MaxN,              \* longest read or write
          None               \* pi->lock is free

ASSUME PipeConstants ==
  /\ PIPESIZE \in Nat \ {0} /\ UINT \in Nat /\ MaxN \in Nat
  /\ UINT > PIPESIZE /\ UINT % PIPESIZE = 0
  /\ Writers \intersect Readers = {} /\ None \notin Writers \union Readers

Procs == Writers \union Readers

VARIABLES nread, nwrite, data, readopen, writeopen,  \* struct pipe
          lock,    \* holder of pi->lock
          freed,   \* 1 once the page has gone back to kfree()
          ends,    \* processes that still have their end open
          killed,  \* p->killed
          pc,      \* where a process is
          i, n     \* bytes moved and bytes asked for, of its call

pipe == <<nread, nwrite, data, readopen, writeopen>>
vars == <<nread, nwrite, data, readopen, writeopen, lock, freed, ends, killed,
          pc, i, n>>

Asleep == {"w_asleep", "r_asleep"}
InCall == {"w_lock", "w_test", "w_body", "r_lock", "r_test", "r_wait", "r_copy"}
PCs == Asleep \union InCall \union {"user", "closing", "gone"}

\* A bug: the test compares nwrite with PIPESIZE modulo nothing.
FullNoWrap == nwrite = nread + PIPESIZE
Full == nwrite = (nread + PIPESIZE) % UINT
Empty == nread = nwrite

\* wakeup(&pi->nread) and wakeup(&pi->nwrite): the sleepers of f run again.
WakeReaders(f) == [p \in Procs |-> IF f[p] = "r_asleep" THEN "r_lock" ELSE f[p]]
WakeWriters(f) == [p \in Procs |-> IF f[p] = "w_asleep" THEN "w_lock" ELSE f[p]]

Call(p, l) ==
  /\ pc[p] = "user" /\ killed[p] = 0 /\ p \in ends
  /\ \E k \in 0 .. MaxN : n' = [n EXCEPT ![p] = k]
  /\ i' = [i EXCEPT ![p] = 0]
  /\ pc' = [pc EXCEPT ![p] = l]
  /\ UNCHANGED <<pipe, lock, freed, ends, killed>>

Lock(p, from, to) ==
  /\ pc[p] = from
  /\ lock = None
  /\ lock' = p
  /\ pc' = [pc EXCEPT ![p] = to]
  /\ UNCHANGED <<pipe, freed, ends, killed, i, n>>

\* The call returns f to user code, releasing pi->lock.
Return(p, f) ==
  /\ lock' = None
  /\ pc' = [f EXCEPT ![p] = "user"]
  /\ i' = [i EXCEPT ![p] = 0] /\ n' = [n EXCEPT ![p] = 0]
  /\ UNCHANGED <<freed, ends, killed>>

Stay(p, l) ==
  /\ pc' = [pc EXCEPT ![p] = l]
  /\ UNCHANGED <<lock, freed, ends, killed, n>>

-----------------------------------------------------------------------------
(* pipewrite                                                               *)

WriteTest(p) ==
  /\ pc[p] = "w_test" /\ i[p] < n[p]
  /\ readopen = 1 /\ killed[p] = 0
  /\ Stay(p, "w_body")
  /\ UNCHANGED <<pipe, i>>

WriteFails(p) ==
  /\ pc[p] = "w_test" /\ i[p] < n[p]
  /\ readopen = 0 \/ killed[p] = 1
  /\ Return(p, pc)
  /\ UNCHANGED pipe

WriteSleep(p) ==
  /\ pc[p] = "w_body" /\ Full
  /\ pc' = [WakeReaders(pc) EXCEPT ![p] = "w_asleep"]
  /\ lock' = None
  /\ UNCHANGED <<pipe, freed, ends, killed, i, n>>

WriteByte(p, ch) ==
  /\ pc[p] = "w_body" /\ ~Full
  /\ data' = [data EXCEPT ![nwrite % PIPESIZE] = ch]
  /\ nwrite' = (nwrite + 1) % UINT
  /\ i' = [i EXCEPT ![p] = @ + 1]
  /\ Stay(p, "w_test")
  /\ UNCHANGED <<nread, readopen, writeopen>>

\* A bug: no wakeup(&pi->nread).
WriteDoneQuietly(p) ==
  /\ \/ pc[p] = "w_test" /\ i[p] = n[p]
     \/ pc[p] = "w_body" /\ ~Full
  /\ Return(p, pc)
  /\ UNCHANGED pipe

\* All bytes are written, or copyin() of the next one fails.
WriteDone(p) ==
  /\ \/ pc[p] = "w_test" /\ i[p] = n[p]
     \/ pc[p] = "w_body" /\ ~Full
  /\ Return(p, WakeReaders(pc))
  /\ UNCHANGED pipe

-----------------------------------------------------------------------------
(* piperead                                                                *)

ReadTest(p) ==
  /\ pc[p] = "r_test"
  /\ Empty /\ writeopen = 1 => killed[p] = 0
  /\ Stay(p, IF Empty /\ writeopen = 1 THEN "r_wait" ELSE "r_copy")
  /\ UNCHANGED <<pipe, i>>

ReadFails(p) ==
  /\ pc[p] = "r_test"
  /\ Empty /\ writeopen = 1 /\ killed[p] = 1
  /\ Return(p, pc)
  /\ UNCHANGED pipe

ReadSleep(p) ==
  /\ pc[p] = "r_wait"
  /\ pc' = [pc EXCEPT ![p] = "r_asleep"]
  /\ lock' = None
  /\ UNCHANGED <<pipe, freed, ends, killed, i, n>>

\* A byte leaves the pipe; if copyout() then fails, the call is over.
ReadByte(p) ==
  /\ pc[p] = "r_copy" /\ i[p] < n[p] /\ ~Empty
  /\ nread' = (nread + 1) % UINT
  /\ \/ /\ i' = [i EXCEPT ![p] = @ + 1]
        /\ Stay(p, "r_copy")
     \/ Return(p, WakeWriters(pc))
  /\ UNCHANGED <<nwrite, data, readopen, writeopen>>

ReadDone(p) ==
  /\ pc[p] = "r_copy" /\ (i[p] = n[p] \/ Empty)
  /\ Return(p, WakeWriters(pc))
  /\ UNCHANGED pipe

-----------------------------------------------------------------------------
(* kill(), fileclose() and pipeclose()                                     *)

Kill(p) ==
  /\ killed[p] = 0 /\ pc[p] \notin {"closing", "gone"}
  /\ killed' = [killed EXCEPT ![p] = 1]
  /\ pc' = [pc EXCEPT ![p] = IF @ = "w_asleep" THEN "w_lock"
                             ELSE IF @ = "r_asleep" THEN "r_lock" ELSE @]
  /\ UNCHANGED <<pipe, lock, freed, ends, i, n>>

\* p closes its end, or exits; the last one to do so calls pipeclose().
Close(p) ==
  LET side == IF p \in Writers THEN Writers ELSE Readers IN
  /\ pc[p] = "user" /\ p \in ends
  /\ ends' = ends \ {p}
  /\ pc' = [pc EXCEPT ![p] = IF ends \intersect side = {p} THEN "closing"
                                                          ELSE "gone"]
  /\ UNCHANGED <<pipe, lock, freed, killed, i, n>>

\* A bug: the wakeups are on the wrong channels.
PipeCloseSwapped(p) ==
  /\ pc[p] = "closing" /\ lock = None
  /\ \/ /\ p \in Writers
        /\ writeopen' = 0 /\ UNCHANGED readopen
        /\ pc' = [WakeWriters(pc) EXCEPT ![p] = "gone"]
     \/ /\ p \in Readers
        /\ readopen' = 0 /\ UNCHANGED writeopen
        /\ pc' = [WakeReaders(pc) EXCEPT ![p] = "gone"]
  /\ freed' = IF readopen = 0 \/ writeopen = 0 THEN 1 ELSE freed
  /\ UNCHANGED <<nread, nwrite, data, lock, ends, killed, i, n>>

PipeClose(p) ==
  /\ pc[p] = "closing" /\ lock = None
  /\ \/ /\ p \in Writers
        /\ writeopen' = 0 /\ UNCHANGED readopen
        /\ pc' = [WakeReaders(pc) EXCEPT ![p] = "gone"]
        /\ freed' = IF readopen = 0 THEN 1 ELSE freed
     \/ /\ p \in Readers
        /\ readopen' = 0 /\ UNCHANGED writeopen
        /\ pc' = [WakeWriters(pc) EXCEPT ![p] = "gone"]
        /\ freed' = IF writeopen = 0 THEN 1 ELSE freed
  /\ UNCHANGED <<nread, nwrite, data, lock, ends, killed, i, n>>
-----------------------------------------------------------------------------
\* pipealloc(); then fork() has shared the ends out.
Init ==
  /\ nread = 0 /\ nwrite = 0
  /\ \E ch \in Bytes : data = [k \in 0 .. PIPESIZE - 1 |-> ch]
  /\ readopen = 1 /\ writeopen = 1
  /\ lock = None /\ freed = 0
  /\ ends = Procs
  /\ killed = [p \in Procs |-> 0]
  /\ pc = [p \in Procs |-> "user"]
  /\ i = [p \in Procs |-> 0] /\ n = [p \in Procs |-> 0]

\* What a process does inside pipewrite, piperead or pipeclose.
Step(p) ==
  \/ Lock(p, "w_lock", "w_test")
  \/ WriteTest(p) \/ WriteFails(p) \/ WriteSleep(p) \/ WriteDone(p)
  \/ \E ch \in Bytes : WriteByte(p, ch)
  \/ Lock(p, "r_lock", "r_test")
  \/ ReadTest(p) \/ ReadFails(p) \/ ReadSleep(p) \/ ReadByte(p) \/ ReadDone(p)
  \/ PipeClose(p)

Next ==
  \/ \E p \in Writers : Call(p, "w_lock")
  \/ \E p \in Readers : Call(p, "r_lock")
  \/ \E p \in Procs : Step(p) \/ Kill(p) \/ Close(p)

Spec == Init /\ [][Next]_vars

\* A process inside the kernel goes on, and gets pi->lock in the end.
FairSpec == Spec /\ \A p \in Procs : SF_vars(Step(p))

-----------------------------------------------------------------------------
TypeOK ==
  /\ nread \in 0 .. UINT - 1 /\ nwrite \in 0 .. UINT - 1
  /\ data \in [0 .. PIPESIZE - 1 -> Bytes]
  /\ readopen \in {0, 1} /\ writeopen \in {0, 1} /\ freed \in {0, 1}
  /\ lock \in Procs \union {None}
  /\ ends \subseteq Procs
  /\ killed \in [Procs -> {0, 1}]
  /\ pc \in [Procs -> PCs]
  /\ i \in [Procs -> 0 .. MaxN] /\ n \in [Procs -> 0 .. MaxN]

Count == (nwrite + UINT - nread) % UINT

F == INSTANCE Fifo
       WITH q <- [k \in 1 .. Count |-> data[(nread + k - 1) % PIPESIZE]],
            Cap <- PIPESIZE

(* Bytes come out once, in the order they went in, also when nread and     *)
(* nwrite wrap around and several writers and readers share the pipe.      *)
ImplementsFifo == F!Spec

(* Nobody sleeps who could go on: a sleeping writer's pipe is full and has *)
(* a reader, a sleeping reader's pipe is empty and has a writer.  The one  *)
(* exception is what a killed writer leaves behind: pipewrite() then       *)
(* returns without wakeup(&pi->nread).  And the page of the pipe is freed  *)
(* only when nobody is left who could call on it.                          *)
SleepersMustWait ==
  /\ TypeOK
  /\ lock = None =>
       \A p \in Procs :
         /\ pc[p] = "w_asleep" => Full /\ readopen = 1
         /\ pc[p] = "r_asleep" => /\ writeopen = 1
                                  /\ Empty \/ \E w \in Writers : killed[w] = 1
  /\ freed = 1 => /\ ends = {} /\ lock = None
                  /\ \A p \in Procs : pc[p] = "gone"

(* Once the last writer has let go of its end, each read that is under     *)
(* way returns, asleep or not, and so does each write once the last reader *)
(* has; and the close itself comes to its end.  This is the wakeup of      *)
(* pipeclose(), and that nobody goes back to sleep after it.               *)
CloseUnblocks ==
  \A p \in Procs :
    /\ p \in Readers /\ pc[p] \in InCall \union Asleep /\ ends \intersect Writers = {}
         ~> pc[p] = "user"
    /\ p \in Writers /\ pc[p] \in InCall \union Asleep /\ ends \intersect Readers = {}
         ~> pc[p] = "user"
    /\ pc[p] = "closing" ~> pc[p] = "gone"
=============================================================================
