---------------------------- MODULE VirtioProofs ----------------------------
(***************************************************************************)
(* The inductive invariant of VirtioDisk, and the proofs of its safety     *)
(* properties for every number of descriptors and processes.               *)
(*                                                                         *)
(* A ring is seen through the set of its entries that are yet to be read:  *)
(* a put adds one to the set and a get takes one away, although indices    *)
(* wrap at UINT and slots at NUM.  What is left is set reasoning.          *)
(***************************************************************************)
EXTENDS VirtioDisk, FiniteSetTheorems, TLAPS

INSTANCE Rings WITH Size <- NUM, Modulus <- UINT

Waiting == Held(avail, dseen, aidx)
Completed == Held(used, used_idx, uidx)

\* The chain of p has three descriptors, none of them free.
Whole(p) ==
  LET h == head[p] IN
  /\ h \in Desc /\ info[h] = p
  /\ next[h] \in Desc /\ next[next[h]] \in Desc
  /\ next[h] # h /\ next[next[h]] # h /\ next[next[h]] # next[h]
  /\ next[next[next[h]]] = None
  /\ Chain(h) \intersect free = {}

\* The chain of every request is whole, and its own.
Chained ==
  /\ \A p \in InFlight : Whole(p)
  /\ \A p, q \in InFlight :
       p # q => Chain(head[p]) \intersect Chain(head[q]) = {}

\* h is the head of a request that the driver has not seen completed.
Out(h) == info[h] \in InFlight /\ head[info[h]] = h /\ busy[info[h]] = 1

\* A request is waiting, worked on or completed, one at a time.
Staged ==
  /\ \A h \in Waiting \union dwork \union Completed : Out(h)
  /\ Waiting \intersect dwork = {}
  /\ \A h \in Waiting \union dwork : info[h] \notin served
  /\ \A h \in Completed : info[h] \in served
  /\ Once(avail, dseen, aidx) /\ Once(used, used_idx, uidx)
  /\ served \subseteq InFlight

Done == {p \in InFlight : busy[p] = 0}

Conserved ==
  /\ Cardinality(free) = NUM - 3 * Cardinality(InFlight)
  /\ Cardinality(InFlight) = Dist(dseen, aidx) + Cardinality(dwork)
                             + Dist(used_idx, uidx) + Cardinality(Done)

Inv == TypeOK /\ Chained /\ Staged /\ Conserved /\ DoneMeansServed /\ CompletionSeen

-----------------------------------------------------------------------------
(* Arithmetic of the rings.                                                *)

LEMMA Sizes ==
  /\ NUM \in Nat /\ NUM >= 3 /\ UINT \in Nat /\ UINT > NUM
  /\ None \notin Procs /\ None \notin Desc
  /\ IsFiniteSet(Procs)
BY VirtioConstants DEF Desc

USE Sizes, ZenonT(60)

\* The rings of the driver are rings in the sense of Rings.
LEMMA DiskRings == RingSizes /\ Desc = Slots /\ \A x : Inc(x) = Succ(x)
<1>1. RingSizes
  BY VirtioConstants, SMTT(60) DEF RingSizes
<1> QED
  BY <1>1 DEF Desc, Slots, Inc, Succ

\* Putting an entry on a ring that is not full.
LEMMA EntryPut ==
  ASSUME NEW ring, NEW a \in Index, NEW b \in Index,
         NEW h, Dist(a, b) < NUM, h \notin Held(ring, a, b),
         Once(ring, a, b), NEW new, new[b % NUM] = h,
         \A d \in Desc \ {b % NUM} : new[d] = ring[d]
  PROVE  /\ Inc(b) \in Index /\ Dist(a, Inc(b)) = Dist(a, b) + 1
         /\ Held(new, a, Inc(b)) = Held(ring, a, b) \union {h}
         /\ Once(new, a, Inc(b))
BY RingPut, DiskRings, SMTT(60)

\* Taking the oldest entry off a ring that is not empty.
LEMMA EntryGet ==
  ASSUME NEW ring, NEW a \in Index, NEW b \in Index, a # b, Once(ring, a, b)
  PROVE  /\ Inc(a) \in Index /\ Dist(Inc(a), b) = Dist(a, b) - 1
         /\ ring[a % NUM] \in Held(ring, a, b)
         /\ Held(ring, Inc(a), b) = Held(ring, a, b) \ {ring[a % NUM]}
         /\ Once(ring, Inc(a), b)
BY RingGet, DiskRings, SMTT(60)

LEMMA OneMore ==
  ASSUME NEW S, IsFiniteSet(S), NEW x, x \notin S
  PROVE  Cardinality(S \union {x}) = Cardinality(S) + 1
BY FS_AddElement

LEMMA OneLess ==
  ASSUME NEW S, IsFiniteSet(S), NEW x, x \in S
  PROVE  Cardinality(S \ {x}) = Cardinality(S) - 1
BY FS_RemoveElement

LEMMA Finite ==
  ASSUME TypeOK
  PROVE  /\ IsFiniteSet(InFlight) /\ Cardinality(InFlight) \in Nat
         /\ IsFiniteSet(Done) /\ Cardinality(Done) \in Nat
         /\ IsFiniteSet(free) /\ Cardinality(free) \in Nat
         /\ IsFiniteSet(dwork) /\ Cardinality(dwork) \in Nat
<1>1. InFlight \subseteq Procs /\ Done \subseteq Procs
  BY DEF InFlight, Done
<1>2. IsFiniteSet(Desc)
  BY FS_Interval, SMTT(60) DEF Desc
<1>3. free \subseteq Desc /\ dwork \subseteq Desc
  BY DEF TypeOK
<1> QED
  BY <1>1, <1>2, <1>3, FS_Subset, FS_CardinalityType

LEMMA Distances ==
  ASSUME TypeOK
  PROVE  Dist(dseen, aidx) \in Nat /\ Dist(used_idx, uidx) \in Nat
BY DistType, DiskRings DEF TypeOK, Index

\* Neither ring is full: every entry stands for a request with a chain.
LEMMA Room ==
  ASSUME Inv
  PROVE  Dist(dseen, aidx) < NUM /\ Dist(used_idx, uidx) < NUM
BY Distances, Finite, SMTT(60) DEF Inv, Conserved

\* A step that leaves rings, descriptors and requests as they are.
LEMMA QuietInv ==
  ASSUME Inv, UNCHANGED <<driver, used, uidx, dseen, dwork, bad, served>>,
         InFlight' = InFlight, TypeOK', CompletionSeen'
  PROVE  Inv'
<1> USE DEF Inv, driver
<1>1. Waiting' = Waiting /\ Completed' = Completed /\ Done' = Done
  BY DEF Waiting, Completed, Done
<1>2. Chained'
  BY DEF Chained, Whole, Chain
<1>3. Staged'
  BY <1>1 DEF Staged, Out
<1>4. Conserved' /\ DoneMeansServed'
  BY <1>1 DEF Conserved, DoneMeansServed
<1> QED
  BY <1>2, <1>3, <1>4

LEMMA NoDescriptorsInv ==
  ASSUME Inv, NEW p \in Procs, NoDescriptors(p)
  PROVE  Inv'
<1> USE DEF Inv, NoDescriptors, TypeOK, driver, device, PCs, WakeAllocators
<1>1. InFlight' = InFlight
  BY DEF InFlight
<1>2. TypeOK'
  OBVIOUS
<1>3. CompletionSeen'
  BY DEF CompletionSeen
<1> QED
  BY <1>1, <1>2, <1>3, QuietInv

LEMMA StillBusyInv ==
  ASSUME Inv, NEW p \in Procs, StillBusy(p)
  PROVE  Inv'
<1> USE DEF Inv, StillBusy, TypeOK, driver, device, PCs
<1>1. InFlight' = InFlight
  BY DEF InFlight
<1>2. TypeOK'
  OBVIOUS
<1>3. CompletionSeen'
  BY DEF CompletionSeen
<1> QED
  BY <1>1, <1>2, <1>3, QuietInv

LEMMA KillInv ==
  ASSUME Inv, NEW p \in Procs, Kill(p)
  PROVE  Inv'
<1> USE DEF Inv, Kill, TypeOK, driver, device, PCs
<1>1. InFlight' = InFlight
  BY DEF InFlight
<1>2. TypeOK'
  OBVIOUS
<1>3. CompletionSeen'
  BY DEF CompletionSeen
<1> QED
  BY <1>1, <1>2, <1>3, QuietInv

LEMMA IntrStartInv == Inv /\ IntrStart => Inv'
<1> USE DEF Inv, IntrStart, TypeOK, driver
<1> SUFFICES ASSUME Inv, IntrStart PROVE Inv'
  OBVIOUS
<1>1. InFlight' = InFlight
  BY DEF InFlight
<1>2. TypeOK'
  OBVIOUS
<1>3. CompletionSeen'
  BY DEF CompletionSeen
<1> QED
  BY <1>1, <1>2, <1>3, QuietInv

LEMMA IntrEndInv == Inv /\ IntrEnd => Inv'
<1> USE DEF Inv, IntrEnd, TypeOK, driver, device
<1> SUFFICES ASSUME Inv, IntrEnd PROVE Inv'
  OBVIOUS
<1>1. InFlight' = InFlight
  BY DEF InFlight
<1>2. TypeOK'
  OBVIOUS
<1>3. CompletionSeen'
  BY DEF CompletionSeen
<1> QED
  BY <1>1, <1>2, <1>3, QuietInv

-----------------------------------------------------------------------------
(* The steps that move a request on.                                       *)

LEMMA DeviceTakeInv == Inv /\ DeviceTake => Inv'
<1> SUFFICES ASSUME Inv, DeviceTake PROVE Inv'
  OBVIOUS
<1> USE DEF Inv
<1>1. PICK h : h = avail[dseen % NUM]
  OBVIOUS
<1>2. /\ dseen # aidx /\ dwork' = dwork \union {h} /\ dseen' = Inc(dseen)
      /\ UNCHANGED <<driver, used, uidx, irq, bad, served, pc, intr>>
  BY <1>1 DEF DeviceTake
<1>3. /\ avail \in [Desc -> Desc] /\ dseen \in Index /\ aidx \in Index
      /\ Once(avail, dseen, aidx)
  BY DEF TypeOK, Index, Staged
<1>4. /\ dseen' \in Index /\ Dist(dseen', aidx) = Dist(dseen, aidx) - 1
      /\ h \in Waiting /\ Waiting' = Waiting \ {h} /\ Once(avail, dseen', aidx)
  BY <1>1, <1>2, <1>3, EntryGet, SMTT(60) DEF Waiting, driver
<1>5. InFlight' = InFlight /\ Done' = Done /\ Completed' = Completed
  BY <1>2 DEF InFlight, Done, Completed, driver
<1>6. h \notin dwork /\ Waiting \subseteq Desc
  BY <1>3, <1>4, SlotType, DiskRings, SMTT(60) DEF Staged, Waiting, Held, Window
<1>7. TypeOK'
  BY <1>2, <1>4, <1>6 DEF TypeOK, driver, Index
<1>8. Chained'
  BY <1>2, <1>5 DEF Chained, Whole, Chain, driver
<1>9. Staged'
  BY <1>2, <1>4, <1>5 DEF Staged, Out, driver
<1>10. Cardinality(dwork') = Cardinality(dwork) + 1
  BY <1>2, <1>6, OneMore, Finite
<1>11. Dist(dseen', aidx') = Dist(dseen, aidx) - 1
       /\ Dist(used_idx', uidx') = Dist(used_idx, uidx)
  BY <1>2, <1>4 DEF driver
<1>12. Conserved'
  BY <1>2, <1>5, <1>10, <1>11, Finite, Distances, SMTT(60) DEF Conserved, driver
<1>13. DoneMeansServed' /\ CompletionSeen'
  BY <1>2, <1>5 DEF DoneMeansServed, CompletionSeen, driver
<1> QED
  BY <1>7, <1>8, <1>9, <1>12, <1>13

LEMMA CompletedPut ==
  ASSUME used \in [Desc -> Desc], used_idx \in Index, uidx \in Index,
         Once(used, used_idx, uidx), Dist(used_idx, uidx) < NUM,
         NEW h \in Desc, h \notin Held(used, used_idx, uidx),
         used' \in [Desc -> Desc], used'[uidx % NUM] = h,
         \A d \in Desc \ {uidx % NUM} : used'[d] = used[d]
  PROVE  /\ Held(used', used_idx, Inc(uidx)) = Held(used, used_idx, uidx) \union {h}
         /\ Once(used', used_idx, Inc(uidx))
BY EntryPut, SMTT(60)

LEMMA DeviceDoneInv ==
  ASSUME Inv, NEW h \in Desc, DeviceDone(h)
  PROVE  Inv'
<1> USE DEF Inv
<1>1. /\ h \in dwork /\ dwork' = dwork \ {h} /\ uidx' = Inc(uidx) /\ irq' = 1
      /\ used' = [used EXCEPT ![uidx % NUM] = h]
      /\ served' = served \union {info[h]} /\ bad' \subseteq bad
      /\ UNCHANGED <<driver, dseen, pc, intr>>
  BY DEF DeviceDone
<1>2. /\ used \in [Desc -> Desc] /\ used_idx \in Index /\ uidx \in Index
      /\ Once(used, used_idx, uidx) /\ h \notin Completed
      /\ Dist(used_idx, uidx) < NUM
  BY <1>1, Room DEF TypeOK, Index, Staged
<1>3. /\ used' \in [Desc -> Desc] /\ uidx' \in Index
      /\ Dist(used_idx, uidx') = Dist(used_idx, uidx) + 1
      /\ Completed' = Completed \union {h} /\ Once(used', used_idx, uidx')
  <2>1. uidx % NUM \in Desc /\ h \notin Held(used, used_idx, uidx)
    BY <1>2, SMTT(60) DEF Desc, Index, Completed
  <2>2. /\ used' \in [Desc -> Desc] /\ used'[uidx % NUM] = h
        /\ \A d \in Desc \ {uidx % NUM} : used'[d] = used[d]
    BY <1>1, <1>2, <2>1
  <2>3. Inc(uidx) \in Index /\ Dist(used_idx, Inc(uidx)) = Dist(used_idx, uidx) + 1
    BY <1>2, SuccIs, DistPut, DiskRings
  <2>4. /\ Held(used', used_idx, Inc(uidx)) = Held(used, used_idx, uidx) \union {h}
        /\ Once(used', used_idx, Inc(uidx))
    BY <1>2, <2>1, <2>2, CompletedPut
  <2> QED
    BY <1>1, <2>2, <2>3, <2>4 DEF Completed, driver
<1>4. InFlight' = InFlight /\ Done' = Done /\ Waiting' = Waiting
  BY <1>1 DEF InFlight, Done, Waiting, driver
<1>5. Out(h) /\ info[h] \in Procs
  BY <1>1 DEF Staged, Out, InFlight
<1>6. TypeOK'
  BY <1>1, <1>3, <1>5, SMTT(60) DEF TypeOK, driver, Index
<1>7. Chained'
  BY <1>1, <1>4 DEF Chained, Whole, Chain, driver
<1>8. Staged'
  BY <1>1, <1>3, <1>4, <1>5, SMTT(60) DEF Staged, Out, driver
<1>9. Cardinality(dwork') = Cardinality(dwork) - 1
  BY <1>1, OneLess, Finite
<1>10. Dist(dseen', aidx') = Dist(dseen, aidx)
       /\ Dist(used_idx', uidx') = Dist(used_idx, uidx) + 1
  BY <1>1, <1>3 DEF driver
<1>11. Conserved'
  BY <1>1, <1>4, <1>9, <1>10, Finite, Distances, SMTT(60) DEF Conserved, driver
<1>12. DoneMeansServed' /\ CompletionSeen'
  BY <1>1, <1>4 DEF DoneMeansServed, CompletionSeen, driver
<1> QED
  BY <1>6, <1>7, <1>8, <1>11, <1>12

LEMMA IntrOneInv == Inv /\ IntrOne => Inv'
<1> SUFFICES ASSUME Inv, IntrOne PROVE Inv'
  OBVIOUS
<1> USE DEF Inv
<1>1. PICK h : h = used[used_idx % NUM]
  OBVIOUS
<1>2. PICK b : b = info[h]
  OBVIOUS
<1>3. /\ intr = 1 /\ used_idx # uidx /\ used_idx' = Inc(used_idx) /\ h \notin bad
      /\ busy' = [busy EXCEPT ![b] = 0]
      /\ pc' = [pc EXCEPT ![b] = IF pc[b] = "asleep" THEN "wait" ELSE pc[b]]
      /\ UNCHANGED <<free, next, info, avail, aidx, head, device, bad, intr>>
  BY <1>1, <1>2 DEF IntrOne, UsedEntry
<1>4. /\ used \in [Desc -> Desc] /\ used_idx \in Index /\ uidx \in Index
      /\ Once(used, used_idx, uidx)
  BY DEF TypeOK, Index, Staged
<1>5. /\ used_idx' \in Index /\ Dist(used_idx', uidx) = Dist(used_idx, uidx) - 1
      /\ h \in Completed /\ Completed' = Completed \ {h} /\ Once(used, used_idx', uidx)
  BY <1>1, <1>3, <1>4, EntryGet, SMTT(60) DEF Completed, device
<1>6. /\ b \in InFlight /\ b \in Procs /\ head[b] = h /\ busy[b] = 1 /\ b \in served
  BY <1>2, <1>5 DEF Staged, Out, InFlight
<1>7. InFlight' = InFlight /\ Done' = Done \union {b} /\ b \notin Done
  BY <1>3, <1>6, SMTT(60) DEF InFlight, Done, TypeOK
<1>8. Waiting' = Waiting
  BY <1>3 DEF Waiting, device
<1>9. TypeOK'
  BY <1>3, <1>5, <1>6 DEF TypeOK, device, Index, PCs
<1>10. Chained'
  BY <1>3, <1>7 DEF Chained, Whole, Chain, device
<1>11. Staged'
  <2>1. \A g \in Waiting \union dwork \union (Completed \ {h}) : info[g] # b
    BY <1>5, <1>6 DEF Staged, Out
  <2>2. \A g \in Waiting \union dwork \union (Completed \ {h}) : Out(g)'
    BY <1>3, <1>6, <1>7, <2>1, SMTT(60) DEF Staged, Out, TypeOK
  <2> QED
    BY <1>3, <1>5, <1>7, <1>8, <2>2 DEF Staged, device
<1>12. Cardinality(Done') = Cardinality(Done) + 1
  BY <1>7, OneMore, Finite
<1>13. Dist(dseen', aidx') = Dist(dseen, aidx)
       /\ Dist(used_idx', uidx') = Dist(used_idx, uidx) - 1
  BY <1>3, <1>5 DEF device
<1>14. Conserved'
  BY <1>3, <1>7, <1>12, <1>13, Finite, Distances, SMTT(60) DEF Conserved, device
<1>15. DoneMeansServed' /\ CompletionSeen'
  BY <1>3, <1>6, <1>7, SMTT(60) DEF DoneMeansServed, CompletionSeen, device, TypeOK
<1> QED
  BY <1>9, <1>10, <1>11, <1>14, <1>15

\* A chain of distinct descriptors comes off the set of free ones, and back.
LEMMA ThreeLess ==
  ASSUME NEW S, IsFiniteSet(S), NEW x \in S, NEW y \in S \ {x}, NEW z \in S \ {x, y}
  PROVE  Cardinality(S \ {x, y, z}) = Cardinality(S) - 3
<1>1. Cardinality(S \ {x}) = Cardinality(S) - 1 /\ IsFiniteSet(S \ {x})
  BY OneLess, FS_RemoveElement
<1>2. /\ Cardinality((S \ {x}) \ {y}) = Cardinality(S \ {x}) - 1
      /\ IsFiniteSet((S \ {x}) \ {y})
  BY <1>1, OneLess, FS_RemoveElement
<1>3. Cardinality(((S \ {x}) \ {y}) \ {z}) = Cardinality((S \ {x}) \ {y}) - 1
  BY <1>2, OneLess
<1>4. ((S \ {x}) \ {y}) \ {z} = S \ {x, y, z} /\ Cardinality(S) \in Nat
  BY FS_CardinalityType
<1> QED
  BY <1>1, <1>2, <1>3, <1>4, SMTT(60)

LEMMA ThreeMore ==
  ASSUME NEW S, IsFiniteSet(S), NEW x, NEW y, NEW z,
         x \notin S, y \notin S, z \notin S, x # y, x # z, y # z
  PROVE  Cardinality(S \union {x, y, z}) = Cardinality(S) + 3
<1>1. /\ Cardinality(S \union {x}) = Cardinality(S) + 1
      /\ IsFiniteSet(S \union {x})
  BY OneMore, FS_AddElement
<1>2. /\ Cardinality((S \union {x}) \union {y}) = Cardinality(S \union {x}) + 1
      /\ IsFiniteSet((S \union {x}) \union {y})
  BY <1>1, OneMore, FS_AddElement
<1>3. Cardinality(((S \union {x}) \union {y}) \union {z})
        = Cardinality((S \union {x}) \union {y}) + 1
  BY <1>2, OneMore
<1>4. /\ ((S \union {x}) \union {y}) \union {z} = S \union {x, y, z}
      /\ Cardinality(S) \in Nat
  BY FS_CardinalityType
<1> QED
  BY <1>1, <1>2, <1>3, <1>4, SMTT(60)

LEMMA Three ==
  ASSUME NEW x, NEW y, NEW z, x # y, x # z, y # z
  PROVE  Cardinality({x, y, z}) = 3
<1>1. IsFiniteSet({x}) /\ Cardinality({x}) = 1
  BY FS_Singleton
<1>2. Cardinality({x} \union {y}) = 2 /\ IsFiniteSet({x} \union {y})
  BY <1>1, OneMore, FS_AddElement, SMTT(60)
<1>3. Cardinality(({x} \union {y}) \union {z}) = 3
  BY <1>2, OneMore, SMTT(60)
<1>4. ({x} \union {y}) \union {z} = {x, y, z}
  OBVIOUS
<1> QED
  BY <1>3, <1>4

LEMMA WaitingPut ==
  ASSUME avail \in [Desc -> Desc], dseen \in Index, aidx \in Index,
         Once(avail, dseen, aidx), Dist(dseen, aidx) < NUM,
         NEW h \in Desc, h \notin Held(avail, dseen, aidx),
         avail' \in [Desc -> Desc], avail'[aidx % NUM] = h,
         \A d \in Desc \ {aidx % NUM} : avail'[d] = avail[d]
  PROVE  /\ Held(avail', dseen, Inc(aidx)) = Held(avail, dseen, aidx) \union {h}
         /\ Once(avail', dseen, Inc(aidx))
BY EntryPut, SMTT(60)

\* What virtio_disk_rw does once alloc3_desc() has returned d0, d1 and d2.
Takes(p, d0, d1, d2) ==
  /\ pc[p] \in {"idle", "alloc"}
  /\ d0 \in free /\ d1 \in free /\ d2 \in free /\ d1 # d0 /\ d2 # d0 /\ d2 # d1
  /\ free' = free \ {d0, d1, d2}
  /\ next' = [next EXCEPT ![d0] = d1, ![d1] = d2, ![d2] = None]
  /\ info' = [info EXCEPT ![d0] = p]
  /\ avail' = [avail EXCEPT ![aidx % NUM] = d0]
  /\ head' = [head EXCEPT ![p] = d0]
  /\ bad' = bad \union {d0}
  /\ busy' = [busy EXCEPT ![p] = 1]
  /\ aidx' = Inc(aidx)
  /\ pc' = [pc EXCEPT ![p] = "asleep"]
  /\ UNCHANGED <<used_idx, device, intr>>

LEMMA SubmitTakes ==
  ASSUME NEW p \in Procs, Submit(p)
  PROVE  \E d0, d1, d2 : Takes(p, d0, d1, d2)
<1>1. PICK d0, d1, d2 \in free :
        /\ d1 # d0 /\ d2 # d0 /\ d2 # d1
        /\ free' = free \ {d0, d1, d2}
        /\ next' = [next EXCEPT ![d0] = d1, ![d1] = d2, ![d2] = None]
        /\ info' = [info EXCEPT ![d0] = p]
        /\ avail' = [avail EXCEPT ![aidx % NUM] = d0]
        /\ head' = [head EXCEPT ![p] = d0]
        /\ bad' = bad \union {d0}
  BY DEF Submit, Smallest
<1>2. Takes(p, d0, d1, d2)
  BY <1>1 DEF Submit, Takes
<1> QED
  BY <1>2

LEMMA TakesFlight ==
  ASSUME TypeOK, NEW p \in Procs, NEW d0, NEW d1, NEW d2, Takes(p, d0, d1, d2)
  PROVE  p \notin InFlight /\ InFlight' = InFlight \union {p} /\ Done' = Done
BY SMTT(60) DEF InFlight, Done, TypeOK, Takes

\* The requests under way keep head, chain and flags.
LEMMA TakesApart ==
  ASSUME TypeOK, Chained, NEW p \in Procs, NEW d0, NEW d1, NEW d2,
         Takes(p, d0, d1, d2), NEW q \in InFlight
  PROVE  /\ q # p /\ head'[q] = head[q] /\ head[q] \notin {d0, d1, d2}
         /\ {d0, d1, d2} \intersect Chain(head[q]) = {}
         /\ next'[head[q]] = next[head[q]]
         /\ next'[next[head[q]]] = next[next[head[q]]]
         /\ next'[next[next[head[q]]]] = None
         /\ info'[head[q]] = q
         /\ busy'[q] = busy[q]
<1>1. q \in Procs /\ q # p /\ {d0, d1, d2} \intersect Chain(head[q]) = {}
  BY SMTT(60) DEF Chained, Whole, InFlight, Takes
<1>2. head[q] \notin {d0, d1, d2} /\ next[head[q]] \notin {d0, d1, d2}
      /\ next[next[head[q]]] \notin {d0, d1, d2}
  BY <1>1 DEF Chain
<1> QED
  BY <1>1, <1>2, SMTT(60) DEF TypeOK, Chained, Whole, Takes

LEMMA TakesOwn ==
  ASSUME TypeOK, NEW p \in Procs, NEW d0, NEW d1, NEW d2, Takes(p, d0, d1, d2)
  PROVE  /\ head'[p] = d0 /\ info'[d0] = p /\ busy'[p] = 1
         /\ next'[d0] = d1 /\ next'[d1] = d2 /\ next'[d2] = None
         /\ d0 \in Desc /\ d1 \in Desc /\ d2 \in Desc
BY DEF TypeOK, Takes

LEMMA TakesChained ==
  ASSUME TypeOK, Chained, NEW p \in Procs, NEW d0, NEW d1, NEW d2, Takes(p, d0, d1, d2)
  PROVE  Chained'
<1>1. ASSUME NEW q \in InFlight
      PROVE  /\ Whole(q)' /\ Chain(head[q])' = Chain(head[q])
             /\ {d0, d1, d2} \intersect Chain(head[q]) = {}
  <2>1. /\ head'[q] = head[q] /\ next'[head[q]] = next[head[q]]
        /\ next'[next[head[q]]] = next[next[head[q]]]
        /\ next'[next[next[head[q]]]] = None
        /\ info'[head[q]] = q /\ {d0, d1, d2} \intersect Chain(head[q]) = {}
    BY TakesApart, SMTT(60)
  <2>2. Whole(q) /\ free' \subseteq free
    BY DEF Chained, Takes
  <2>3. Chain(head[q])' = Chain(head[q])
    BY <2>1 DEF Chain
  <2>4. Chain(head[q]) \intersect free' = {}
    BY <2>2 DEF Whole
  <2> QED
    BY <2>1, <2>2, <2>3, <2>4 DEF Whole
<1>2. Whole(p)' /\ Chain(head[p])' = {d0, d1, d2}
  <2>1. d1 # d0 /\ d2 # d0 /\ d2 # d1 /\ {d0, d1, d2} \intersect free' = {}
    BY DEF Takes
  <2>2. /\ head'[p] = d0 /\ info'[d0] = p
        /\ next'[d0] = d1 /\ next'[d1] = d2 /\ next'[d2] = None
        /\ d0 \in Desc /\ d1 \in Desc /\ d2 \in Desc
    BY TakesOwn, SMTT(60)
  <2> QED
    BY <2>1, <2>2 DEF Whole, Chain
<1>3. InFlight' = InFlight \union {p}
  BY TakesFlight
<1>4. \A q, r \in InFlight : q # r => Chain(head[q]) \intersect Chain(head[r]) = {}
  BY DEF Chained
<1> QED
  BY <1>1, <1>2, <1>3, <1>4, SMTT(60) DEF Chained

LEMMA TakesWaiting ==
  ASSUME Inv, NEW p \in Procs, NEW d0, NEW d1, NEW d2, Takes(p, d0, d1, d2)
  PROVE  /\ avail' \in [Desc -> Desc] /\ aidx' \in Index
         /\ Dist(dseen, aidx') = Dist(dseen, aidx) + 1
         /\ d0 \notin Waiting \union dwork \union Completed
         /\ Waiting' = Waiting \union {d0} /\ Once(avail', dseen, aidx')
<1>1. d0 \in Desc /\ d0 \notin Waiting \union dwork \union Completed
  BY TakesOwn, TakesApart, SMTT(60) DEF Inv, Staged, Out
<1>2. /\ avail \in [Desc -> Desc] /\ dseen \in Index /\ aidx \in Index
      /\ Once(avail, dseen, aidx) /\ Dist(dseen, aidx) < NUM
  BY Room DEF Inv, TypeOK, Index, Staged
<1>3. aidx % NUM \in Desc /\ d0 \notin Held(avail, dseen, aidx)
  BY <1>1, <1>2, SMTT(60) DEF Desc, Index, Waiting
<1>4. /\ avail' \in [Desc -> Desc] /\ avail'[aidx % NUM] = d0
      /\ \A d \in Desc \ {aidx % NUM} : avail'[d] = avail[d]
  BY <1>1, <1>2, <1>3 DEF Takes
<1>5. Inc(aidx) \in Index /\ Dist(dseen, Inc(aidx)) = Dist(dseen, aidx) + 1
  BY <1>2, SuccIs, DistPut, DiskRings
<1>6. /\ Held(avail', dseen, Inc(aidx)) = Held(avail, dseen, aidx) \union {d0}
      /\ Once(avail', dseen, Inc(aidx))
  BY <1>1, <1>2, <1>3, <1>4, WaitingPut
<1> QED
  BY <1>1, <1>4, <1>5, <1>6 DEF Waiting, device, Takes

LEMMA TakesStaged ==
  ASSUME Inv, NEW p \in Procs, NEW d0, NEW d1, NEW d2, Takes(p, d0, d1, d2)
  PROVE  Staged'
<1> USE TakesOwn, TakesFlight, TakesWaiting DEF Inv
<1>1. \A h \in Waiting \union dwork \union Completed : Out(h)' /\ info'[h] = info[h]
  BY TakesApart, SMTT(60) DEF Staged, Out
<1>2. Completed' = Completed /\ UNCHANGED <<served, dwork, used, used_idx, uidx, dseen>>
  BY DEF Completed, Takes, device
<1>3. Out(d0)' /\ info'[d0] \notin served
  BY SMTT(60) DEF Out, Staged
<1> QED
  BY <1>1, <1>2, <1>3, SMTT(60) DEF Staged

LEMMA TakesConserved ==
  ASSUME Inv, NEW p \in Procs, NEW d0, NEW d1, NEW d2, Takes(p, d0, d1, d2)
  PROVE  Conserved' /\ (Cardinality(free) < 3 => Cardinality(free') < 3)
<1> USE TakesFlight, Finite DEF Inv
<1>1. Cardinality(InFlight') = Cardinality(InFlight) + 1
  BY OneMore
<1>2. Cardinality(free') = Cardinality(free) - 3
  BY ThreeLess DEF Takes
<1>3. /\ Dist(dseen', aidx') = Dist(dseen, aidx) + 1
      /\ Dist(used_idx', uidx') = Dist(used_idx, uidx) /\ dwork' = dwork
  BY TakesWaiting DEF device, Takes
<1> QED
  BY <1>1, <1>2, <1>3, Distances, SMTT(60) DEF Conserved

LEMMA SubmitInv ==
  ASSUME Inv, NEW p \in Procs, Submit(p)
  PROVE  Inv'
<1> USE DEF Inv
<1>1. PICK d0, d1, d2 : Takes(p, d0, d1, d2)
  BY SubmitTakes
<1>2. /\ d0 \in Desc /\ d1 \in Desc /\ d2 \in Desc /\ busy'[p] = 1
      /\ InFlight' = InFlight \union {p} /\ avail' \in [Desc -> Desc] /\ aidx' \in Index
      /\ Cardinality(free) < 3 => Cardinality(free') < 3
  BY <1>1, TakesOwn, TakesFlight, TakesWaiting, TakesConserved
<1>3. TypeOK'
  BY <1>1, <1>2, SMTT(60) DEF TypeOK, device, Index, PCs, Takes
<1>4. Chained' /\ Staged' /\ Conserved'
  BY <1>1, TakesChained, TakesStaged, TakesConserved
<1>5. DoneMeansServed'
  <2>1. ASSUME NEW q \in InFlight, busy'[q] = 0 PROVE q \in served' /\ head'[q] \notin bad'
    <3>1. /\ busy'[q] = busy[q] /\ head'[q] = head[q] /\ head[q] \notin {d0, d1, d2}
      BY <1>1, TakesApart, SMTT(60)
    <3>2. q \in served /\ head[q] \notin bad
      BY <2>1, <3>1 DEF DoneMeansServed
    <3>3. served' = served /\ bad' = bad \union {d0}
      BY <1>1 DEF Takes, device
    <3> QED
      BY <3>1, <3>2, <3>3
  <2>2. busy'[p] # 0
    BY <1>2, SMTT(60)
  <2> QED
    BY <1>2, <2>1, <2>2 DEF DoneMeansServed
<1>6. CompletionSeen'
  BY <1>1, <1>2, SMTT(60) DEF CompletionSeen, device, TypeOK, Takes
<1> QED
  BY <1>3, <1>4, <1>5, <1>6

\* What virtio_disk_rw does once its request is done, with its chain h, x, y.
Frees(p, h, x, y) ==
  /\ h = head[p] /\ x = next[h] /\ y = next[x]
  /\ pc[p] = "wait" /\ busy[p] = 0
  /\ info' = [info EXCEPT ![h] = None]
  /\ free' = free \union {h, x, y}
  /\ next' = [d \in Desc |-> IF d \in {h, x, y} THEN None ELSE next[d]]
  /\ head' = [head EXCEPT ![p] = None]
  /\ pc' = [WakeAllocators(pc) EXCEPT ![p] = "idle"]
  /\ served' = served \ {p}
  /\ UNCHANGED <<avail, aidx, used_idx, busy, used, uidx, irq, dseen, dwork, bad, intr>>

LEMMA FinishFrees ==
  ASSUME NEW p \in Procs, Finish(p)
  PROVE  \E h, x, y : Frees(p, h, x, y)
<1>1. PICK h, x, y : h = head[p] /\ x = next[h] /\ y = next[x]
  OBVIOUS
<1>2. Frees(p, h, x, y)
  BY <1>1 DEF Finish, Chain, Frees
<1> QED
  BY <1>2

LEMMA FreesFlight ==
  ASSUME TypeOK, NEW p \in Procs, NEW h, NEW x, NEW y, Frees(p, h, x, y)
  PROVE  /\ p \in InFlight /\ InFlight' = InFlight \ {p}
         /\ p \in Done /\ Done' = Done \ {p}
BY DEF InFlight, Done, TypeOK, WakeAllocators, Frees

LEMMA FreesOwn ==
  ASSUME TypeOK, Chained, NEW p \in Procs, NEW h, NEW x, NEW y, Frees(p, h, x, y)
  PROVE  /\ h \in Desc /\ x \in Desc /\ y \in Desc /\ h # x /\ h # y /\ x # y
         /\ info[h] = p /\ h \notin free /\ x \notin free /\ y \notin free
         /\ Chain(head[p]) = {h, x, y}
<1>1. p \in InFlight
  BY FreesFlight
<1> QED
  BY <1>1 DEF Chained, Whole, Chain, Frees

\* The other requests under way keep head, chain and flags.
LEMMA FreesApart ==
  ASSUME TypeOK, Chained, NEW p \in Procs, NEW h, NEW x, NEW y, Frees(p, h, x, y),
         NEW q \in InFlight, q # p
  PROVE  /\ head'[q] = head[q] /\ head[q] \notin {h, x, y}
         /\ {h, x, y} \intersect Chain(head[q]) = {}
         /\ next'[head[q]] = next[head[q]]
         /\ next'[next[head[q]]] = next[next[head[q]]]
         /\ next'[next[next[head[q]]]] = None
         /\ info'[head[q]] = q
<1>1. q \in Procs /\ {h, x, y} \intersect Chain(head[q]) = {}
  <2>1. p \in InFlight /\ Chain(head[p]) = {h, x, y}
    BY FreesFlight, FreesOwn
  <2> QED
    BY <2>1 DEF Chained, InFlight
<1>2. head[q] \notin {h, x, y} /\ next[head[q]] \notin {h, x, y}
      /\ next[next[head[q]]] \notin {h, x, y}
  BY <1>1 DEF Chain
<1>3. /\ head[q] \in Desc /\ next[head[q]] \in Desc /\ next[next[head[q]]] \in Desc
      /\ next[next[next[head[q]]]] = None /\ info[head[q]] = q
  BY DEF Chained, Whole
<1>4. head'[q] = head[q]
  BY <1>1 DEF TypeOK, Frees
<1>5. \A d \in Desc : d \notin {h, x, y} => next'[d] = next[d]
  BY DEF Frees
<1>6. \A d \in Desc : d # h => info'[d] = info[d]
  BY DEF TypeOK, Frees
<1>7. next'[head[q]] = next[head[q]] /\ info'[head[q]] = q
  BY <1>2, <1>3, <1>5, <1>6
<1>8. next'[next[head[q]]] = next[next[head[q]]]
  BY <1>2, <1>3, <1>5
<1>9. next'[next[next[head[q]]]] = None
  BY <1>2, <1>3, <1>5
<1> QED
  BY <1>1, <1>2, <1>4, <1>7, <1>8, <1>9

LEMMA FreesChained ==
  ASSUME TypeOK, Chained, NEW p \in Procs, NEW h, NEW x, NEW y, Frees(p, h, x, y)
  PROVE  Chained'
<1>1. ASSUME NEW q \in InFlight, q # p
      PROVE  Whole(q)' /\ Chain(head[q])' = Chain(head[q])
  <2>1. /\ head'[q] = head[q] /\ next'[head[q]] = next[head[q]]
        /\ next'[next[head[q]]] = next[next[head[q]]]
        /\ next'[next[next[head[q]]]] = None
        /\ info'[head[q]] = q /\ {h, x, y} \intersect Chain(head[q]) = {}
    BY <1>1, FreesApart, SMTT(60)
  <2>2. Whole(q) /\ free' = free \union {h, x, y}
    BY DEF Chained, Frees
  <2>3. Chain(head[q])' = Chain(head[q])
    BY <2>1 DEF Chain
  <2>4. Chain(head[q]) \intersect free' = {}
    BY <2>1, <2>2 DEF Whole
  <2> QED
    BY <2>1, <2>2, <2>3, <2>4 DEF Whole
<1>2. InFlight' = InFlight \ {p}
  BY FreesFlight
<1>3. \A q, r \in InFlight : q # r => Chain(head[q]) \intersect Chain(head[r]) = {}
  BY DEF Chained
<1> QED
  BY <1>1, <1>2, <1>3 DEF Chained

LEMMA FreesStaged ==
  ASSUME Inv, NEW p \in Procs, NEW h, NEW x, NEW y, Frees(p, h, x, y)
  PROVE  Staged'
<1> USE DEF Inv
<1>1. /\ busy[p] = 0 /\ busy' = busy /\ served' = served \ {p}
      /\ UNCHANGED <<avail, dwork, used, used_idx, uidx, dseen, aidx>>
  BY DEF Frees
<1>2. InFlight' = InFlight \ {p}
  BY FreesFlight
<1>3. ASSUME NEW g \in Waiting \union dwork \union Completed
      PROVE  Out(g) /\ info[g] # p
  <2>1. Out(g)
    BY DEF Staged
  <2>2. busy[info[g]] = 1
    BY <2>1 DEF Out
  <2>3. 0 # 1
    BY SMTT(60)
  <2> QED
    BY <2>1, <2>2, <2>3, <1>1
<1>4. \A g \in Waiting \union dwork \union Completed : Out(g)' /\ info'[g] = info[g]
  <2>1. \A q \in InFlight \ {p} : head'[q] = head[q] /\ info'[head[q]] = q
    BY FreesApart, SMTT(60)
  <2>2. \A g \in Waiting \union dwork \union Completed :
          /\ info'[g] = info[g] /\ info[g] \in InFlight \ {p}
          /\ head'[info[g]] = g /\ busy[info[g]] = 1
    BY <1>3, <2>1 DEF Out
  <2> QED
    BY <1>1, <1>2, <2>2 DEF Out
<1>5. Waiting' = Waiting /\ Completed' = Completed
  BY <1>1 DEF Waiting, Completed
<1> QED
  BY <1>1, <1>3, <1>4, <1>5, <1>2 DEF Staged

LEMMA FreesConserved ==
  ASSUME Inv, NEW p \in Procs, NEW h, NEW x, NEW y, Frees(p, h, x, y)
  PROVE  Conserved'
<1> USE FreesFlight, Finite DEF Inv
<1>1. /\ Cardinality(InFlight') = Cardinality(InFlight) - 1
      /\ Cardinality(Done') = Cardinality(Done) - 1
  BY OneLess
<1>2. Cardinality(free') = Cardinality(free) + 3
  <2>1. h \notin free /\ x \notin free /\ y \notin free /\ h # x /\ h # y /\ x # y
    BY FreesOwn, SMTT(60)
  <2>2. Cardinality(free \union {h, x, y}) = Cardinality(free) + 3
    BY <2>1, ThreeMore
  <2> QED
    BY <2>2 DEF Frees
<1> QED
  BY <1>1, <1>2, Distances, SMTT(60) DEF Conserved, Frees

LEMMA FinishInv ==
  ASSUME Inv, NEW p \in Procs, Finish(p)
  PROVE  Inv'
<1> USE DEF Inv
<1>1. PICK h, x, y : Frees(p, h, x, y)
  BY FinishFrees
<1>2. h \in Desc /\ x \in Desc /\ y \in Desc /\ InFlight' = InFlight \ {p}
  BY <1>1, FreesOwn, FreesFlight
<1>3. TypeOK'
  BY <1>1, <1>2 DEF TypeOK, PCs, WakeAllocators, Frees
<1>4. Chained' /\ Staged' /\ Conserved'
  BY <1>1, FreesChained, FreesStaged, FreesConserved
<1>5. DoneMeansServed'
  <2>1. \A q \in InFlight \ {p} : head'[q] = head[q]
    BY <1>1, FreesApart, SMTT(60)
  <2>2. served' = served \ {p} /\ busy' = busy /\ bad' = bad
    BY <1>1 DEF Frees
  <2> QED
    BY <1>2, <2>1, <2>2 DEF DoneMeansServed
<1>6. CompletionSeen'
  BY <1>1 DEF CompletionSeen, TypeOK, WakeAllocators, Frees
<1> QED
  BY <1>3, <1>4, <1>5, <1>6

-----------------------------------------------------------------------------
(* The invariant holds, and with it the properties of VirtioDisk.          *)

LEMMA InitInv == Init => Inv
<1> SUFFICES ASSUME Init PROVE Inv
  OBVIOUS
<1> USE DEF Init
<1>1. TypeOK
  BY SMTT(60) DEF TypeOK, PCs, Desc
<1>2. InFlight = {} /\ Done = {}
  BY DEF InFlight, Done
<1>3. Dist(0, 0) = 0 /\ Window(0, 0) = {}
  BY DistIs, DiskRings, SMTT(60) DEF Index, Window
<1>4. Waiting = {} /\ Completed = {}
  BY <1>3 DEF Waiting, Completed, Held
<1>5. Chained /\ DoneMeansServed
  BY <1>2 DEF Chained, DoneMeansServed
<1>6. Staged
  BY <1>2, <1>3, <1>4 DEF Staged, Once
<1>7. Cardinality(Desc) = NUM
  BY FS_Interval, SMTT(60) DEF Desc
<1>8. Conserved
  BY <1>2, <1>3, <1>7, FS_EmptySet, SMTT(60) DEF Conserved
<1>9. CompletionSeen
  BY DEF CompletionSeen
<1> QED
  BY <1>1, <1>5, <1>6, <1>8, <1>9 DEF Inv

LEMMA StepInv == Inv /\ [Next]_vars => Inv'
<1> SUFFICES ASSUME Inv, [Next]_vars PROVE Inv'
  OBVIOUS
<1>1. CASE UNCHANGED vars
  <2>1. InFlight' = InFlight
    BY <1>1 DEF InFlight, vars
  <2>2. TypeOK' /\ CompletionSeen'
    BY <1>1 DEF Inv, TypeOK, CompletionSeen, vars
  <2> QED
    BY <1>1, <2>1, <2>2, QuietInv DEF vars, driver
<1>2. ASSUME NEW p \in Procs, Step(p) \/ Kill(p) PROVE Inv'
  BY <1>2, SubmitInv, NoDescriptorsInv, StillBusyInv, FinishInv, KillInv DEF Step
<1>3. CASE Intr
  <2>1. ASSUME IntrPanics PROVE UNCHANGED vars
    BY <2>1 DEF IntrPanics
  <2> QED
    BY <1>3, <2>1, <1>1, IntrStartInv, IntrOneInv, IntrEndInv DEF Intr
<1>4. CASE Device
  BY <1>4, DeviceTakeInv, DeviceDoneInv DEF Device
<1> QED
  BY <1>1, <1>2, <1>3, <1>4 DEF Next

LEMMA VirtioInvariant == Spec => []Inv
BY InitInv, StepInv, PTL DEF Spec

\* Descriptors are neither leaked nor shared, for any number of descriptors
\* and of processes in virtio_disk_rw, whatever the order of completions.
THEOREM VirtioDescriptors == Spec => []DescriptorsOwned
<1>1. Inv => DescriptorsOwned
  <2> SUFFICES ASSUME Inv PROVE DescriptorsOwned
    OBVIOUS
  <2>1. ASSUME NEW p \in InFlight PROVE Cardinality(Chain(head[p])) = 3
    <3>1. PICK h, x, y : h = head[p] /\ x = next[h] /\ y = next[x]
      OBVIOUS
    <3>2. h # x /\ h # y /\ x # y
      BY <3>1 DEF Inv, Chained, Whole
    <3>3. Chain(head[p]) = {h, x, y}
      BY <3>1 DEF Chain
    <3>4. Cardinality({h, x, y}) = 3
      BY <3>2, Three
    <3> QED
      BY <3>3, <3>4
  <2> QED
    BY <2>1, SMTT(60) DEF Inv, Chained, Whole, Conserved, DescriptorsOwned
<1> QED
  BY <1>1, VirtioInvariant, PTL

\* virtio_disk_rw returns only once the device has finished its request, and
\* reported no error.
THEOREM VirtioServed == Spec => []DoneMeansServed
<1>1. Inv => DoneMeansServed
  BY DEF Inv
<1> QED
  BY <1>1, VirtioInvariant, PTL

\* virtio_disk_intr overlooks no completion, and nobody sleeps on descriptors
\* that are to be had.
THEOREM VirtioSeen == Spec => []CompletionSeen
<1>1. Inv => CompletionSeen
  BY DEF Inv
<1> QED
  BY <1>1, VirtioInvariant, PTL
=============================================================================
