------------------------------- MODULE Bcache -------------------------------
(***************************************************************************)
(* The buffer cache of kernel/bio.c over the sleep-locks of                *)
(* kernel/sleeplock.c, as bread, bwrite, log_write and install_trans use   *)
(* it.  A section under bcache.lock, or under a sleep-lock's spinlock, is  *)
(* one step; between them other processes run.                             *)
(***************************************************************************)
EXTENDS Integers, Sequences, FiniteSets

CONSTANTS Procs,     \* processes that use the cache, one buffer at a time
          Blocks,    \* disk blocks
          Vals,      \* contents of a block
          None,      \* no block, no process
          NBUF,      \* number of buffers
          LogMax     \* most buffers the log may keep pinned

Bufs == 1 .. NBUF

ASSUME BcacheConstants ==
  /\ NBUF \in Nat \ {0} /\ LogMax \in Nat
  /\ IsFiniteSet(Procs)
  /\ None \notin Blocks \union Procs

VARIABLES blockno,   \* b->blockno
          valid,     \* b->valid
          refcnt,    \* b->refcnt
          data,      \* b->data
          locked,    \* the holder of b->lock
          lru,       \* the list of buffers, most recently used first
          disk,      \* the disk, behind virtio_disk_rw
          pinned,    \* buffers the log has pinned and not yet installed
          pc,        \* where a process is in bread ... brelse
          cur,       \* the buffer it is about; 0 if none
          panicked   \* bget ran out of buffers, with bcache.lock held

procs == <<pc, cur>>
vars == <<blockno, valid, refcnt, data, locked, lru, disk, pinned, pc, cur,
          panicked>>

PCs == {"idle", "locking", "asleep", "reading", "holding", "bunpin", "unref"}

\* A bug: the lookup passes over buffers nobody uses.
CachedInUse(k) == {b \in Bufs : blockno[b] = k /\ refcnt[b] > 0}
Cached(k) == {b \in Bufs : blockno[b] = k}
Unused == {i \in 1 .. Len(lru) : refcnt[lru[i]] = 0}
LeastRecent(b) == \E i \in Unused : b = lru[i] /\ \A j \in Unused : j <= i

\* The list with b unlinked and put back at its head.
MoveToFront(b) ==
  LET i == CHOOSE j \in 1 .. Len(lru) : lru[j] = b
  IN [j \in 1 .. Len(lru) |-> IF j = 1 THEN b
                             ELSE IF j <= i THEN lru[j - 1] ELSE lru[j]]

-----------------------------------------------------------------------------
(* bget                                                                    *)

BgetHit(p, k) ==
  /\ pc[p] = "idle" /\ panicked = 0
  /\ \E b \in Cached(k) :
       /\ refcnt' = [refcnt EXCEPT ![b] = @ + 1]
       /\ cur' = [cur EXCEPT ![p] = b]
  /\ pc' = [pc EXCEPT ![p] = "locking"]
  /\ UNCHANGED <<blockno, valid, data, locked, lru, disk, pinned, panicked>>

\* A bug: valid is not reset.
BgetMissStale(p, k) ==
  /\ pc[p] = "idle" /\ panicked = 0
  /\ Cached(k) = {} /\ Unused # {}
  /\ \E b \in Bufs :
       /\ LeastRecent(b)
       /\ blockno' = [blockno EXCEPT ![b] = k]
       /\ refcnt' = [refcnt EXCEPT ![b] = 1]
       /\ cur' = [cur EXCEPT ![p] = b]
  /\ pc' = [pc EXCEPT ![p] = "locking"]
  /\ UNCHANGED <<valid, data, locked, lru, disk, pinned, panicked>>

BgetMiss(p, k) ==
  /\ pc[p] = "idle" /\ panicked = 0
  /\ Cached(k) = {} /\ Unused # {}
  /\ \E b \in Bufs :
       /\ LeastRecent(b)
       /\ blockno' = [blockno EXCEPT ![b] = k]
       /\ valid' = [valid EXCEPT ![b] = 0]
       /\ refcnt' = [refcnt EXCEPT ![b] = 1]
       /\ cur' = [cur EXCEPT ![p] = b]
  /\ pc' = [pc EXCEPT ![p] = "locking"]
  /\ UNCHANGED <<data, locked, lru, disk, pinned, panicked>>

BgetPanic(p, k) ==
  /\ pc[p] = "idle" /\ panicked = 0
  /\ Cached(k) = {} /\ Unused = {}
  /\ panicked' = 1
  /\ UNCHANGED <<blockno, valid, refcnt, data, locked, lru, disk, pinned, procs>>

-----------------------------------------------------------------------------
(* acquiresleep(&b->lock), and the read of a block that is not valid yet   *)

AcquireSleep(p) ==
  /\ pc[p] = "locking"
  /\ locked[cur[p]] # None
  /\ pc' = [pc EXCEPT ![p] = "asleep"]
  /\ UNCHANGED <<blockno, valid, refcnt, data, locked, lru, disk, pinned, cur,
                 panicked>>

\* kill() wakes a sleeper whatever it waits for; acquiresleep() looks again.
Kill(p) ==
  /\ pc[p] = "asleep"
  /\ pc' = [pc EXCEPT ![p] = "locking"]
  /\ UNCHANGED <<blockno, valid, refcnt, data, locked, lru, disk, pinned, cur,
                 panicked>>

Acquire(p) ==
  /\ pc[p] = "locking"
  /\ locked[cur[p]] = None
  /\ locked' = [locked EXCEPT ![cur[p]] = p]
  /\ pc' = [pc EXCEPT ![p] = IF valid[cur[p]] = 1 THEN "holding" ELSE "reading"]
  /\ UNCHANGED <<blockno, valid, refcnt, data, lru, disk, pinned, cur, panicked>>

ReadBlock(p) ==
  /\ pc[p] = "reading"
  /\ data' = [data EXCEPT ![cur[p]] = disk[blockno[cur[p]]]]
  /\ valid' = [valid EXCEPT ![cur[p]] = 1]
  /\ pc' = [pc EXCEPT ![p] = "holding"]
  /\ UNCHANGED <<blockno, refcnt, locked, lru, disk, pinned, cur, panicked>>

-----------------------------------------------------------------------------
(* What a holder does with a buffer.                                       *)

\* Change it and write it to the disk at once (write_head, write_log).
Bwrite(p, v) ==
  /\ pc[p] = "holding"
  /\ data' = [data EXCEPT ![cur[p]] = v]
  /\ disk' = [disk EXCEPT ![blockno[cur[p]]] = v]
  /\ UNCHANGED <<blockno, valid, refcnt, locked, lru, pinned, procs, panicked>>

\* Change it and log_write() it: bpin(), unless the log has it pinned.
LogWrite(p, v) ==
  /\ pc[p] = "holding" /\ panicked = 0
  /\ data' = [data EXCEPT ![cur[p]] = v]
  /\ \/ cur[p] \in pinned /\ UNCHANGED <<pinned, refcnt>>
     \/ /\ cur[p] \notin pinned /\ Cardinality(pinned) < LogMax
        /\ pinned' = pinned \union {cur[p]}
        /\ refcnt' = [refcnt EXCEPT ![cur[p]] = @ + 1]
  /\ UNCHANGED <<blockno, valid, locked, lru, disk, procs, panicked>>

\* A bug: the block is unpinned without having been written home.
InstallUnwritten(p) ==
  /\ pc[p] = "holding"
  /\ cur[p] \in pinned
  /\ pc' = [pc EXCEPT ![p] = "bunpin"]
  /\ UNCHANGED <<blockno, valid, refcnt, data, locked, lru, disk, pinned, cur,
                 panicked>>

\* install_trans(): bwrite(dbuf), then bunpin(dbuf).
Install(p) ==
  /\ pc[p] = "holding"
  /\ cur[p] \in pinned
  /\ disk' = [disk EXCEPT ![blockno[cur[p]]] = data[cur[p]]]
  /\ pc' = [pc EXCEPT ![p] = "bunpin"]
  /\ UNCHANGED <<blockno, valid, refcnt, data, locked, lru, pinned, cur, panicked>>

Bunpin(p) ==
  /\ pc[p] = "bunpin" /\ panicked = 0
  /\ pinned' = pinned \ {cur[p]}
  /\ refcnt' = [refcnt EXCEPT ![cur[p]] = @ - 1]
  /\ pc' = [pc EXCEPT ![p] = "holding"]
  /\ UNCHANGED <<blockno, valid, data, locked, lru, disk, cur, panicked>>

-----------------------------------------------------------------------------
(* brelse: releasesleep() first, then the reference under bcache.lock.     *)

ReleaseSleep(p) ==
  /\ pc[p] = "holding"
  /\ locked' = [locked EXCEPT ![cur[p]] = None]
  /\ pc' = [q \in Procs |-> IF q = p THEN "unref"
                            ELSE IF pc[q] = "asleep" /\ cur[q] = cur[p]
                            THEN "locking" ELSE pc[q]]
  /\ UNCHANGED <<blockno, valid, refcnt, data, lru, disk, pinned, cur, panicked>>

Unref(p) ==
  /\ pc[p] = "unref" /\ panicked = 0
  /\ refcnt' = [refcnt EXCEPT ![cur[p]] = @ - 1]
  /\ lru' = IF refcnt[cur[p]] = 1 THEN MoveToFront(cur[p]) ELSE lru
  /\ cur' = [cur EXCEPT ![p] = 0]
  /\ pc' = [pc EXCEPT ![p] = "idle"]
  /\ UNCHANGED <<blockno, valid, data, locked, disk, pinned, panicked>>

-----------------------------------------------------------------------------
\* binit(); no buffer belongs to a block of the disk yet.
Init ==
  /\ blockno = [b \in Bufs |-> None]
  /\ valid = [b \in Bufs |-> 0]
  /\ refcnt = [b \in Bufs |-> 0]
  /\ \E zero \in Vals : data = [b \in Bufs |-> zero]
  /\ locked = [b \in Bufs |-> None]
  /\ lru = [i \in Bufs |-> NBUF + 1 - i]
  /\ disk \in [Blocks -> Vals]
  /\ pinned = {}
  /\ pc = [p \in Procs |-> "idle"] /\ cur = [p \in Procs |-> 0]
  /\ panicked = 0

Next ==
  \E p \in Procs :
    \/ \E k \in Blocks : BgetHit(p, k) \/ BgetMiss(p, k) \/ BgetPanic(p, k)
    \/ AcquireSleep(p) \/ Kill(p) \/ Acquire(p) \/ ReadBlock(p)
    \/ \E v \in Vals : Bwrite(p, v) \/ LogWrite(p, v)
    \/ Install(p) \/ Bunpin(p)
    \/ ReleaseSleep(p) \/ Unref(p)

Spec == Init /\ [][Next]_vars

-----------------------------------------------------------------------------
TypeOK ==
  /\ blockno \in [Bufs -> Blocks \union {None}]
  /\ valid \in [Bufs -> {0, 1}]
  /\ refcnt \in [Bufs -> Nat]
  /\ data \in [Bufs -> Vals]
  /\ locked \in [Bufs -> Procs \union {None}]
  /\ lru \in Seq(Bufs)
  /\ disk \in [Blocks -> Vals]
  /\ pinned \subseteq Bufs
  /\ pc \in [Procs -> PCs]
  /\ cur \in [Procs -> Bufs \union {0}]
  /\ \A p \in Procs : cur[p] = 0 <=> pc[p] = "idle"
  /\ panicked \in {0, 1}

\* The processes between bread and brelse of buffer b, in any phase.
Users(b) == {p \in Procs : cur[p] = b}
Pins(b) == IF b \in pinned THEN 1 ELSE 0

Owns(p, b) == cur[p] = b /\ pc[p] \in {"reading", "holding", "bunpin"}

(* b->refcnt counts exactly the processes that use or wait for b and the   *)
(* log's pin, so bget() never recycles a buffer somebody still needs; no   *)
(* block is cached twice, however bget()s of the same block race; and the  *)
(* sleep-lock of a buffer is held by exactly the process that uses it.     *)
(* The list links each buffer once, however brelse() reorders it, so that  *)
(* bget() panics only when each buffer is pinned or has a user of its own. *)
BuffersExact ==
  /\ TypeOK
  /\ Len(lru) = NBUF /\ \A b \in Bufs : \E i \in 1 .. NBUF : lru[i] = b
  /\ \A b \in Bufs : refcnt[b] = Cardinality(Users(b)) + Pins(b)
  /\ \A b, d \in Bufs : blockno[b] = blockno[d] /\ blockno[b] # None => b = d
  /\ \A b \in Bufs, p \in Procs :
       /\ locked[b] = p <=> Owns(p, b)
       /\ cur[p] = b /\ pc[p] = "asleep" => locked[b] # None
  /\ panicked = 1 => \A b \in Bufs : b \in pinned \/ Users(b) # {}

(* A buffer that differs from the disk is pinned until it is written: no   *)
(* change is lost to recycling (log_write's bpin, install_trans's bunpin). *)
(* bread() returns a buffer that is valid, reads the disk only into one    *)
(* that is not, and a block is home before bunpin() drops it.              *)
DirtyIsPinned ==
  /\ \A b \in Bufs :
       /\ valid[b] = 1 /\ data[b] # disk[blockno[b]] => b \in pinned
       /\ valid[b] = 1 \/ b \in pinned \/ Users(b) # {} => blockno[b] # None
  /\ \A p \in Procs :
       /\ pc[p] \in {"holding", "bunpin"} => valid[cur[p]] = 1
       /\ pc[p] = "reading" => valid[cur[p]] = 0
       /\ pc[p] = "bunpin" => /\ cur[p] \in pinned
                              /\ data[cur[p]] = disk[blockno[cur[p]]]

Holds(p, k) == pc[p] \in {"holding", "bunpin"} /\ blockno[cur[p]] = k
Content(k) ==
  LET bs == {b \in Bufs : blockno[b] = k /\ valid[b] = 1}
  IN IF bs = {} THEN disk[k] ELSE data[CHOOSE b \in bs : TRUE]

BS == INSTANCE BlockStore
        WITH content <- [k \in Blocks |-> Content(k)],
             owner <- [k \in Blocks |-> IF \E p \in Procs : Holds(p, k)
                                        THEN CHOOSE p \in Procs : Holds(p, k)
                                        ELSE None]

(* The cache is invisible: reads, recycling and the order of releases      *)
(* never change what a block holds, and one process at a time has it.      *)
ImplementsBlockStore == BS!Spec
=============================================================================
