----------------------------- MODULE VirtioDisk -----------------------------
(***************************************************************************)
(* The disk driver (kernel/virtio_disk.c): descriptors, the avail and used *)
(* rings, the handshake on b->disk between virtio_disk_rw and              *)
(* virtio_disk_intr, and the device, which works on its own and finishes   *)
(* requests in any order.                                                  *)
(*                                                                         *)
(* vdisk_lock is released only by sleep() and at the end, so what a        *)
(* process does between two sleeps is one step; the interrupt handler      *)
(* races with the device and keeps the lock over several steps.  A process *)
(* holds the buffer it asks for locked, so process and buffer are one.     *)
(***************************************************************************)
EXTENDS Integers, FiniteSets

CONSTANTS Procs,   \* processes, each with the buffer it transfers
          NUM,     \* number of descriptors, and entries of each ring
          UINT,    \* ring indices count modulo UINT (2^16)
          None

ASSUME VirtioConstants ==
  /\ NUM \in Nat /\ NUM >= 3
  /\ UINT \in Nat /\ UINT > NUM /\ UINT % NUM = 0
  /\ None \notin Procs \union 0 .. NUM - 1
  /\ IsFiniteSet(Procs)

Desc == 0 .. NUM - 1

VARIABLES free,       \* descriptors with disk.free[i] set
          next,       \* desc[i].next if the NEXT flag is set, else None
          info,       \* disk.info[i].b
          avail,      \* avail->ring
          aidx,       \* avail->idx
          used,       \* used->ring
          uidx,       \* used->idx, written by the device
          used_idx,   \* how far the driver has looked
          busy,       \* b->disk
          head,       \* idx[0], of a process
          pc,         \* where a process is
          intr,       \* 1 while virtio_disk_intr holds vdisk_lock
          irq,        \* the device's interrupt line
          dseen,      \* device: how far it has read the avail ring
          dwork,      \* device: chains it works on
          bad,        \* descriptors i with disk.info[i].status other than 0
          served      \* requests the device has finished, not yet returned

driver == <<free, next, info, avail, aidx, used_idx, busy, head>>
device == <<used, uidx, irq, dseen, dwork, served>>
vars == <<free, next, info, avail, aidx, used, uidx, used_idx, busy, head, pc,
          intr, irq, dseen, dwork, bad, served>>

PCs == {"idle", "alloc", "nodesc", "wait", "asleep"}

Inc(x) == (x + 1) % UINT

\* wakeup(&disk.free[0])
WakeAllocators(f) == [p \in Procs |-> IF f[p] = "nodesc" THEN "alloc" ELSE f[p]]

\* alloc_desc() takes the first descriptor that is free.
Smallest(d, S) == d \in S /\ \A e \in S : d <= e

\* alloc3_desc() succeeds; the request is queued, and p sleeps on b.
Submit(p) ==
  /\ pc[p] \in {"idle", "alloc"} /\ intr = 0
  /\ \E d0, d1, d2 \in free :
       /\ Smallest(d0, free)
       /\ Smallest(d1, free \ {d0})
       /\ Smallest(d2, free \ {d0, d1})
       /\ free' = free \ {d0, d1, d2}
       /\ next' = [next EXCEPT ![d0] = d1, ![d1] = d2, ![d2] = None]
       /\ info' = [info EXCEPT ![d0] = p]
       /\ avail' = [avail EXCEPT ![aidx % NUM] = d0]
       /\ head' = [head EXCEPT ![p] = d0]
       /\ bad' = bad \union {d0}
  /\ busy' = [busy EXCEPT ![p] = 1]
  /\ aidx' = Inc(aidx)
  /\ pc' = [pc EXCEPT ![p] = "asleep"]
  /\ UNCHANGED <<used_idx, device, intr>>

\* alloc3_desc() fails; the free_desc() of what it had already got wakes others.
NoDescriptors(p) ==
  /\ pc[p] \in {"idle", "alloc"} /\ intr = 0
  /\ Cardinality(free) < 3
  /\ pc' = [(IF free = {} THEN pc ELSE WakeAllocators(pc)) EXCEPT ![p] = "nodesc"]
  /\ UNCHANGED <<driver, device, bad, intr>>

StillBusy(p) ==
  /\ pc[p] = "wait" /\ intr = 0
  /\ busy[p] = 1
  /\ pc' = [pc EXCEPT ![p] = "asleep"]
  /\ UNCHANGED <<driver, device, bad, intr>>

\* kill() wakes a sleeper whatever it waits for; its loop then looks again.
Kill(p) ==
  /\ pc[p] \in {"nodesc", "asleep"}
  /\ pc' = [pc EXCEPT ![p] = IF @ = "nodesc" THEN "alloc" ELSE "wait"]
  /\ UNCHANGED <<driver, device, bad, intr>>

\* A bug: the data descriptor's flags lose NEXT.
ChainShort(h) == {h, next[h]}
Chain(h) == {h, next[h], next[next[h]]}

\* The request is done: free_chain(), and virtio_disk_rw returns.
Finish(p) ==
  LET chain == Chain(head[p]) IN
  /\ pc[p] = "wait" /\ intr = 0
  /\ busy[p] = 0
  /\ info' = [info EXCEPT ![head[p]] = None]
  /\ free' = free \union chain
  /\ next' = [d \in Desc |-> IF d \in chain THEN None ELSE next[d]]
  /\ head' = [head EXCEPT ![p] = None]
  /\ pc' = [WakeAllocators(pc) EXCEPT ![p] = "idle"]
  /\ served' = served \ {p}
  /\ UNCHANGED <<avail, aidx, used_idx, busy, used, uidx, irq, dseen, dwork, bad, intr>>

-----------------------------------------------------------------------------
(* virtio_disk_intr                                                        *)

IntrStart ==
  /\ irq = 1 /\ intr = 0
  /\ intr' = 1
  /\ irq' = 0
  /\ UNCHANGED <<driver, used, uidx, dseen, dwork, bad, served, pc>>

UsedEntry == used[used_idx % NUM]

\* A bug: the status is not looked at.
IntrOneUnchecked ==
  LET b == info[UsedEntry] IN
  /\ intr = 1 /\ used_idx # uidx
  /\ busy' = [busy EXCEPT ![b] = 0]
  /\ pc' = [pc EXCEPT ![b] = IF @ = "asleep" THEN "wait" ELSE @]
  /\ used_idx' = Inc(used_idx)
  /\ UNCHANGED <<free, next, info, avail, aidx, head, device, bad, intr>>

IntrOne ==
  LET b == info[UsedEntry] IN
  /\ intr = 1 /\ used_idx # uidx
  /\ UsedEntry \notin bad
  /\ busy' = [busy EXCEPT ![b] = 0]
  /\ pc' = [pc EXCEPT ![b] = IF @ = "asleep" THEN "wait" ELSE @]
  /\ used_idx' = Inc(used_idx)
  /\ UNCHANGED <<free, next, info, avail, aidx, head, device, bad, intr>>

\* panic(): the handler spins for ever, with vdisk_lock.
IntrPanics ==
  /\ intr = 1 /\ used_idx # uidx
  /\ UsedEntry \in bad
  /\ UNCHANGED vars

\* A bug: one entry per interrupt.
IntrEndEarly ==
  /\ intr = 1
  /\ intr' = 0
  /\ UNCHANGED <<driver, device, bad, pc>>

IntrEnd ==
  /\ intr = 1 /\ used_idx = uidx
  /\ intr' = 0
  /\ UNCHANGED <<driver, device, bad, pc>>

-----------------------------------------------------------------------------
(* The device: takes chains off the avail ring, finishes them in any order *)

DeviceTake ==
  /\ dseen # aidx
  /\ dwork' = dwork \union {avail[dseen % NUM]}
  /\ dseen' = Inc(dseen)
  /\ UNCHANGED <<driver, used, uidx, irq, bad, served, pc, intr>>

\* The device reports an error, or stores 0 as the status.
DeviceDone(h) ==
  /\ h \in dwork
  /\ dwork' = dwork \ {h}
  /\ used' = [used EXCEPT ![uidx % NUM] = h]
  /\ uidx' = Inc(uidx)
  /\ irq' = 1
  /\ served' = served \union {info[h]}
  /\ bad' \in {bad, bad \ {h}}
  /\ UNCHANGED <<driver, dseen, pc, intr>>

-----------------------------------------------------------------------------
Init ==
  /\ free = Desc
  /\ next = [d \in Desc |-> None] /\ info = [d \in Desc |-> None]
  /\ avail = [d \in Desc |-> 0] /\ used = [d \in Desc |-> 0]
  /\ aidx = 0 /\ uidx = 0 /\ used_idx = 0 /\ dseen = 0
  /\ busy = [p \in Procs |-> 0] /\ head = [p \in Procs |-> None]
  /\ pc = [p \in Procs |-> "idle"]
  /\ intr = 0 /\ irq = 0 /\ dwork = {} /\ bad = {} /\ served = {}

Step(p) == Submit(p) \/ NoDescriptors(p) \/ StillBusy(p) \/ Finish(p)
Intr == IntrStart \/ IntrOne \/ IntrPanics \/ IntrEnd
Device == DeviceTake \/ \E h \in Desc : DeviceDone(h)

Next == (\E p \in Procs : Step(p) \/ Kill(p)) \/ Intr \/ Device

Spec == Init /\ [][Next]_vars

-----------------------------------------------------------------------------
TypeOK ==
  /\ free \subseteq Desc
  /\ next \in [Desc -> Desc \union {None}]
  /\ info \in [Desc -> Procs \union {None}]
  /\ avail \in [Desc -> Desc] /\ used \in [Desc -> Desc]
  /\ {aidx, uidx, used_idx, dseen} \subseteq 0 .. UINT - 1
  /\ busy \in [Procs -> {0, 1}]
  /\ head \in [Procs -> Desc \union {None}]
  /\ pc \in [Procs -> PCs]
  /\ intr \in {0, 1} /\ irq \in {0, 1}
  /\ dwork \subseteq Desc /\ bad \subseteq Desc /\ served \subseteq Procs

InFlight == {p \in Procs : pc[p] \in {"asleep", "wait"}}

(* Descriptors are neither leaked nor shared: each is free or in exactly   *)
(* one chain of three, that of a process inside virtio_disk_rw, and info[] *)
(* names that process until it has taken its chain down.                   *)
DescriptorsOwned ==
  /\ TypeOK
  /\ \A p \in InFlight : head[p] # None /\ info[head[p]] = p
                         /\ Cardinality(Chain(head[p])) = 3
                         /\ next[next[next[head[p]]]] = None
                         /\ Chain(head[p]) \intersect free = {}
  /\ \A p, q \in InFlight : p # q => Chain(head[p]) \intersect Chain(head[q]) = {}
  /\ Cardinality(free) = NUM - 3 * Cardinality(InFlight)

(* b->disk goes to 0 only for a request the device has finished, and       *)
(* without an error, so virtio_disk_rw never returns early, also when      *)
(* completions overtake one another and descriptors are reused.            *)
DoneMeansServed ==
  \A p \in InFlight : busy[p] = 0 => p \in served /\ head[p] \notin bad

(* A completion is never forgotten: an entry of the used ring the driver   *)
(* has not looked at has an interrupt on the way or a handler in its loop, *)
(* and a process asleep on its buffer has its request still in the works.  *)
(* Nor does anybody sleep on disk.free[0] with three descriptors to be     *)
(* had: every free_desc() wakes the sleepers, those of a failing           *)
(* alloc3_desc() too.                                                      *)
CompletionSeen ==
  /\ used_idx # uidx => irq = 1 \/ intr = 1
  /\ \A p \in Procs : pc[p] = "asleep" => busy[p] = 1
  /\ \A p \in Procs : pc[p] = "nodesc" => Cardinality(free) < 3
=============================================================================
