----------------------------- MODULE InodeProofs -----------------------------
(***************************************************************************)
(* The inductive invariant of Inode and the properties that follow, for    *)
(* any number of processes, inodes, entries of the table and links: the    *)
(* invariants of the runs, and that no step loses an inode but the one     *)
(* NoneLost names.                                                         *)
(***************************************************************************)
EXTENDS Inode, FiniteSetTheorems, TLAPS

\* The conjuncts of EntriesExact, one by one.
Counted == \A e \in Entries : ref[e] = Cardinality(Users(e))
OneEntry ==
  \A e, f \in Entries : ref[e] > 0 /\ ref[f] > 0 /\ inum[e] = inum[f] => e = f
LinksExact ==
  \A i \in Inums : dnlink[i] = links[i] + Cardinality(Pending(i, "link"))
                                        + Cardinality(Pending(i, "unlink"))
CopyExact ==
  \A e \in Entries : ref[e] > 0 /\ valid[e] = 1 => nlink[e] = dnlink[inum[e]]
NoPanic == panic \in {"no", "iget_no_inodes"}

Inv == TypeOK /\ Counted /\ OneEntry /\ LinksExact /\ CopyExact /\ Placed
       /\ OneLife /\ NoPanic

USE ZenonT(60) DEF Inv, PCs, Ops, ondisk, itable, procs, Gone

-----------------------------------------------------------------------------
(* Counting users and unfinished operations.                               *)

LEMMA OneMore ==
  ASSUME NEW S, IsFiniteSet(S), NEW x, x \notin S
  PROVE  Cardinality(S \union {x}) = Cardinality(S) + 1
BY FS_AddElement, ZenonT(60)

LEMMA OneLess ==
  ASSUME NEW S, IsFiniteSet(S), NEW x, x \in S
  PROVE  Cardinality(S \ {x}) = Cardinality(S) - 1
BY FS_RemoveElement, ZenonT(60)

LEMMA NoneApart == None \notin Procs /\ None \notin Inums
BY InodeConstants

LEMMA UsersFinite ==
  ASSUME NEW e
  PROVE  IsFiniteSet(Users(e)) /\ Cardinality(Users(e)) \in Nat
BY InodeConstants, FS_Subset, FS_CardinalityType DEF Users

LEMMA PendingFinite ==
  ASSUME NEW i, NEW w
  PROVE  IsFiniteSet(Pending(i, w)) /\ Cardinality(Pending(i, w)) \in Nat
BY InodeConstants, FS_Subset, FS_CardinalityType DEF Pending

\* An entry that a process has is counted and names an inode, and processes
\* that have the same inode have the same entry.
Known ==
  /\ \A p \in Procs :
       cur[p] # 0 => cur[p] \in Entries /\ ref[cur[p]] > 0 /\ inum[cur[p]] \in Inums
  /\ \A p, q \in Procs :
       cur[p] # 0 /\ cur[q] # 0 /\ inum[cur[p]] = inum[cur[q]] => cur[p] = cur[q]
  /\ \A e \in Entries : ref[e] = 0 => \A p \in Procs : cur[p] # e
  /\ \A p \in Procs : (cur[p] = 0) <=> pc[p] \in {"idle", "ialloc"}
  /\ 0 \notin Entries /\ \A e \in Entries : e # 0
  /\ None \notin Procs /\ None \notin Inums

LEMMA Facts == Inv => Known
<1> SUFFICES ASSUME Inv PROVE Known
  OBVIOUS
<1>1. ASSUME NEW p \in Procs, NEW e \in Entries, cur[p] = e
      PROVE  ref[e] > 0
  <2>1. Users(e) # {}
    BY <1>1 DEF Users
  <2>2. Cardinality(Users(e)) # 0
    BY <2>1, UsersFinite, FS_EmptySet
  <2> QED
    BY <2>2, UsersFinite, SMTT(60) DEF Counted
<1>2. \A p \in Procs : cur[p] # 0 => cur[p] \in Entries /\ inum[cur[p]] \in Inums
  BY SMTT(60) DEF TypeOK, Placed
<1>3. 0 \notin Entries /\ \A e \in Entries : e # 0
  BY SMTT(60) DEF Entries
<1>4. \A e \in Entries : ref[e] = 0 => \A p \in Procs : cur[p] # e
  BY <1>1, SMTT(60)
<1>5. \A p \in Procs : cur[p] # 0 => ref[cur[p]] > 0
  BY <1>1, <1>2
<1> QED
  <2>1. \A p \in Procs : (cur[p] = 0) <=> pc[p] \in {"idle", "ialloc"}
    BY DEF Placed
  <2> QED
    BY <1>2, <1>3, <1>4, <1>5, <2>1, NoneApart DEF OneEntry, Known

\* An inode with a name is allocated.
LEMMA NamedAllocated ==
  ASSUME Inv, NEW i \in Inums, links[i] > 0
  PROVE  dnlink[i] > 0 /\ dtype[i] = 1
<1>1. dnlink[i] > 0
  BY PendingFinite, SMTT(60) DEF TypeOK, LinksExact
<1> QED
  BY <1>1, SMTT(60) DEF TypeOK, OneLife

\* The only user of an entry.
LEMMA OnlyUser ==
  ASSUME Inv, NEW p \in Procs, cur[p] # 0, ref[cur[p]] = 1
  PROVE  \A q \in Procs : cur[q] = cur[p] => q = p
<1>1. PICK e \in Entries : e = cur[p]
  BY Facts DEF Known
<1>2. Cardinality(Users(e)) = 1
  BY <1>1 DEF Counted
<1>3. \E x : Users(e) = {x}
  BY <1>2, UsersFinite, FS_Singleton, ZenonT(60)
<1> QED
  BY <1>1, <1>3, SMTT(60) DEF Users

\* A process takes entry e, whose count goes up.
LEMMA UserComes ==
  ASSUME Inv, NEW p \in Procs, cur[p] = 0, NEW e \in Entries,
         cur' = [cur EXCEPT ![p] = e], ref' = [ref EXCEPT ![e] = @ + 1]
  PROVE  Counted'
<1>1. Users(e)' = Users(e) \union {p} /\ p \notin Users(e)
  BY Facts, SMTT(60) DEF Known, TypeOK, Users
<1>2. \A f \in Entries \ {e} : Users(f)' = Users(f)
  BY Facts, SMTT(60) DEF Known, TypeOK, Users
<1>3. Cardinality(Users(e)') = Cardinality(Users(e)) + 1
  BY <1>1, UsersFinite, OneMore, ZenonT(60)
<1> QED
  BY <1>2, <1>3 DEF TypeOK, Counted

\* A process drops its entry, whose count goes down.
LEMMA UserGoes ==
  ASSUME Inv, NEW p \in Procs, NEW e \in Entries, cur[p] = e,
         cur' = [cur EXCEPT ![p] = 0], ref' = [ref EXCEPT ![e] = @ - 1]
  PROVE  Counted'
<1>1. Users(e)' = Users(e) \ {p} /\ p \in Users(e)
  BY Facts DEF Known, TypeOK, Users
<1>2. \A f \in Entries \ {e} : Users(f)' = Users(f)
  BY Facts, SMTT(60) DEF Known, TypeOK, Users
<1>3. Cardinality(Users(e)') = Cardinality(Users(e)) - 1
  BY <1>1, UsersFinite, OneLess, ZenonT(60)
<1> QED
  BY <1>2, <1>3 DEF TypeOK, Counted

LEMMA CountedStays ==
  ASSUME Counted, UNCHANGED <<cur, ref>>
  PROVE  Counted'
BY DEF Counted, Users

\* The unfinished operations stay if no unfinished link or unlink changes.
LEMMA PendingStays ==
  ASSUME \A q \in Procs : op[q] \in {"link", "unlink"} \/ op'[q] \in {"link", "unlink"}
                            => /\ op'[q] = op[q] /\ cur'[q] = cur[q]
                               /\ inum'[cur[q]] = inum[cur[q]]
  PROVE  \A i \in Inums, w \in {"link", "unlink"} : Pending(i, w)' = Pending(i, w)
BY DEF Pending

LEMMA LinksStay ==
  ASSUME LinksExact, UNCHANGED <<dnlink, links>>,
         \A q \in Procs : op[q] \in {"link", "unlink"} \/ op'[q] \in {"link", "unlink"}
                            => /\ op'[q] = op[q] /\ cur'[q] = cur[q]
                               /\ inum'[cur[q]] = inum[cur[q]]
  PROVE  LinksExact'
BY PendingStays DEF LinksExact

\* One unfinished operation more, or one less.
LEMMA PendingComes ==
  ASSUME op \in [Procs -> Ops], NEW p \in Procs, NEW w \in {"link", "unlink"}, NEW i,
         cur[p] # 0, inum[cur[p]] = i, op[p] = "none",
         op' = [op EXCEPT ![p] = w], UNCHANGED <<cur, inum>>
  PROVE  /\ Cardinality(Pending(i, w)') = Cardinality(Pending(i, w)) + 1
         /\ \A j \in Inums, x \in {"link", "unlink"} :
              j # i \/ x # w => Pending(j, x)' = Pending(j, x)
<1>1. Pending(i, w)' = Pending(i, w) \union {p} /\ p \notin Pending(i, w)
  BY DEF Pending
<1>2. \A j \in Inums, x \in {"link", "unlink"} :
        j # i \/ x # w => Pending(j, x)' = Pending(j, x)
  BY DEF Pending
<1>3. Cardinality(Pending(i, w) \union {p}) = Cardinality(Pending(i, w)) + 1
  BY <1>1, PendingFinite, OneMore, ZenonT(60)
<1> QED
  BY <1>1, <1>2, <1>3

LEMMA PendingGoes ==
  ASSUME op \in [Procs -> Ops], NEW p \in Procs, NEW w \in {"link", "unlink"}, NEW i,
         cur[p] # 0, inum[cur[p]] = i, op[p] = w,
         op' = [op EXCEPT ![p] = "none"], UNCHANGED <<cur, inum>>
  PROVE  /\ Cardinality(Pending(i, w)') = Cardinality(Pending(i, w)) - 1
         /\ Cardinality(Pending(i, w)) >= 1
         /\ \A j \in Inums, x \in {"link", "unlink"} :
              j # i \/ x # w => Pending(j, x)' = Pending(j, x)
<1>1. Pending(i, w)' = Pending(i, w) \ {p} /\ p \in Pending(i, w)
  BY DEF Pending
<1>2. \A j \in Inums, x \in {"link", "unlink"} :
        j # i \/ x # w => Pending(j, x)' = Pending(j, x)
  BY DEF Pending
<1>3. Cardinality(Pending(i, w) \ {p}) = Cardinality(Pending(i, w)) - 1
  BY <1>1, PendingFinite, OneLess, ZenonT(60)
<1>4. Cardinality(Pending(i, w)) # 0
  BY <1>1, PendingFinite, FS_EmptySet
<1> QED
  BY <1>1, <1>2, <1>3, <1>4, PendingFinite, SMTT(60)

-----------------------------------------------------------------------------
(* Taking an inode, or its lock, keeps the invariant.                      *)

\* A process gets an entry: of its own, or one already in the table.
LEMMA GetInv ==
  ASSUME Inv, Known, NEW p \in Procs, NEW i \in Inums,
         Lookup(p, i) \/ (IallocGet(p) /\ num[p] = i)
  PROVE  Inv'
<1>1. /\ panic = "no" /\ Iget(p, i) /\ cur[p] = 0
      /\ UNCHANGED <<dtype, dnlink, links, nlink, lock, op>>
      /\ \/ pc[p] = "idle" /\ links[i] > 0 /\ num[p] = None /\ num' = num
         \/ pc[p] = "ialloc" /\ num[p] = i /\ num' = [num EXCEPT ![p] = None]
  BY DEF Lookup, IallocGet, Placed
<1>2. CASE Empty = {} /\ Found(i) = {}
  <2>1. /\ UNCHANGED <<inum, ref, valid, cur, pc>> /\ panic' = "iget_no_inodes"
        /\ \A q \in Procs : num'[q] \in {None, num[q]}
    BY <1>1, <1>2 DEF TypeOK, Iget
  <2>2. TypeOK' /\ NoPanic'
    BY <1>1, <2>1 DEF TypeOK, NoPanic
  <2>3. Counted' /\ LinksExact'
    BY <1>1, <2>1, CountedStays, LinksStay, ZenonT(60)
  <2>4. OneEntry' /\ CopyExact'
    BY <1>1, <2>1, ZenonT(60) DEF OneEntry, CopyExact
  <2>5. Placed'
    BY <1>1, <2>1, SMTT(60) DEF Placed
  <2>6. OneLife'
    BY <1>1, <2>1, SMTT(60) DEF OneLife, Users
  <2> QED
    BY <2>2, <2>3, <2>4, <2>5, <2>6, ZenonT(60)
<1>3. ASSUME NEW e \in Entries, cur' = [cur EXCEPT ![p] = e],
             pc' = [pc EXCEPT ![p] = "ref"], panic' = panic, 
             \/ ref[e] > 0 /\ inum[e] = i /\ ref' = [ref EXCEPT ![e] = @ + 1]
                /\ UNCHANGED <<inum, valid>>
             \/ ref[e] = 0 /\ inum' = [inum EXCEPT ![e] = i] /\ ref' = [ref EXCEPT ![e] = 1]
                /\ valid' = [valid EXCEPT ![e] = 0]
                /\ \A f \in Entries : ref[f] > 0 => inum[f] # i
      PROVE  Inv'
  <2>1. dtype[i] = 1 /\ (pc[p] = "idle" => dnlink[i] > 0)
    BY <1>1, NamedAllocated, InodeConstants, SMTT(60) DEF OneLife
  <2>2. TypeOK' /\ NoPanic'
    BY <1>1, <1>3, SMTT(60) DEF TypeOK, NoPanic
  <2>3. Counted'
    <3>1. ref' = [ref EXCEPT ![e] = @ + 1]
      BY <1>3, SMTT(60) DEF TypeOK
    <3> QED
      BY <1>1, <1>3, <3>1, UserComes, ZenonT(60)
  <2>4. OneEntry'
    BY <1>3, SMTT(60) DEF TypeOK, OneEntry
  <2>5. LinksExact'
    BY <1>1, <1>3, LinksStay, SMTT(60) DEF Known, TypeOK, Placed
  <2>6. CopyExact'
    BY <1>1, <1>3, SMTT(60) DEF TypeOK, CopyExact
  <2>7. Placed'
    BY <1>1, <1>3, SMTT(60) DEF Known, TypeOK, Placed
  <2>8. OneLife'
    BY <1>1, <1>3, <2>1, SMTT(60) DEF Known, TypeOK, OneLife, Placed, Users
  <2> QED
    BY <2>2, <2>3, <2>4, <2>5, <2>6, <2>7, <2>8, ZenonT(60)
<1> QED
  BY <1>1, <1>2, <1>3 DEF Iget, Found, Empty

LEMMA IdupInv ==
  ASSUME Inv, Known, NEW p \in Procs, NEW q \in Procs, Idup(p, q)
  PROVE  Inv'
<1>1. /\ panic = "no" /\ pc[p] = "idle" /\ cur[p] = 0 /\ pc[q] = "ref" /\ op[q] = "none"
      /\ cur[q] \in Entries /\ ref' = [ref EXCEPT ![cur[q]] = @ + 1]
      /\ cur' = [cur EXCEPT ![p] = cur[q]] /\ pc' = [pc EXCEPT ![p] = "ref"]
      /\ UNCHANGED <<ondisk, inum, valid, nlink, lock, op, num, panic>>
  BY DEF Known, Idup
<1>2. TypeOK' /\ NoPanic'
  BY <1>1, SMTT(60) DEF Known, TypeOK, NoPanic
<1>3. Counted'
  BY <1>1, UserComes, ZenonT(60)
<1>4. OneEntry'
  BY <1>1, SMTT(60) DEF Known, TypeOK, OneEntry
<1>5. LinksExact'
  BY <1>1, LinksStay, SMTT(60) DEF Known, TypeOK, Placed
<1>6. CopyExact'
  BY <1>1 DEF Known, TypeOK, CopyExact
<1>7. Placed'
  BY <1>1, SMTT(60) DEF Known, TypeOK, Placed
<1>8. OneLife'
  BY <1>1, SMTT(60) DEF Known, TypeOK, OneLife, Placed, Users
<1> QED
  BY <1>2, <1>3, <1>4, <1>5, <1>6, <1>7, <1>8, ZenonT(60)

LEMMA IallocInv ==
  ASSUME Inv, Known, NEW p \in Procs, NEW i \in Inums, Ialloc(p, i)
  PROVE  Inv'
<1>1. /\ panic = "no" /\ pc[p] = "idle" /\ dtype[i] = 0 /\ cur[p] = 0 /\ num[p] = None
      /\ dtype' = [dtype EXCEPT ![i] = 1] /\ dnlink[i] = 0 /\ dnlink' = dnlink
      /\ num' = [num EXCEPT ![p] = i] /\ pc' = [pc EXCEPT ![p] = "ialloc"]
      /\ op[p] = "none" /\ op' = [op EXCEPT ![p] = "create"]
      /\ UNCHANGED <<links, itable, cur, panic>>
  BY SMTT(60) DEF TypeOK, Ialloc, Placed, OneLife
<1>2. TypeOK' /\ NoPanic'
  BY <1>1 DEF Known, TypeOK, NoPanic
<1>3. Counted'
  BY <1>1, CountedStays, ZenonT(60)
<1>4. OneEntry'
  BY <1>1, ZenonT(60) DEF OneEntry
<1>5. LinksExact'
  BY <1>1, LinksStay DEF Known, TypeOK
<1>6. CopyExact'
  BY <1>1 DEF Known, TypeOK, CopyExact
<1>7. Placed'
  BY <1>1, SMTT(60) DEF Known, TypeOK, Placed
<1>8. OneLife'
  BY <1>1, InodeConstants, SMTT(60) DEF Known, TypeOK, OneLife, Placed, Users
<1> QED
  BY <1>2, <1>3, <1>4, <1>5, <1>6, <1>7, <1>8, ZenonT(60)

LEMMA ILockInv ==
  ASSUME Inv, Known, NEW p \in Procs, ILock(p)
  PROVE  Inv'
<1>1. /\ panic = "no" /\ pc[p] = "ref" /\ cur[p] \in Entries /\ lock[cur[p]] = None
      /\ lock' = [lock EXCEPT ![cur[p]] = p] /\ valid' = [valid EXCEPT ![cur[p]] = 1]
      /\ nlink' = IF valid[cur[p]] = 0 THEN [nlink EXCEPT ![cur[p]] = dnlink[inum[cur[p]]]]
                  ELSE nlink
      /\ pc' = [pc EXCEPT ![p] = "locked"]
      /\ UNCHANGED <<ondisk, inum, ref, cur, op, num, panic>>
  <2>1. pc[p] = "ref" /\ cur[p] # 0 /\ cur[p] \in Entries
    BY DEF Known, ILock
  <2>2. dtype[inum[cur[p]]] = 1
    BY <2>1 DEF OneLife
  <2> QED
    BY <2>1, <2>2, SMTT(60) DEF ILock
<1>2. TypeOK' /\ NoPanic'
  BY <1>1 DEF Known, TypeOK, NoPanic
<1>3. Counted'
  BY <1>1, CountedStays, ZenonT(60)
<1>4. OneEntry'
  BY <1>1, ZenonT(60) DEF OneEntry
<1>5. LinksExact'
  BY <1>1, LinksStay DEF Known, TypeOK
<1>6. CopyExact'
  BY <1>1, SMTT(60) DEF Known, TypeOK, CopyExact
<1>7. Placed'
  BY <1>1, SMTT(60) DEF Known, TypeOK, Placed
<1>8. OneLife'
  BY <1>1, SMTT(60) DEF Known, TypeOK, OneLife, Placed, Users
<1> QED
  BY <1>2, <1>3, <1>4, <1>5, <1>6, <1>7, <1>8, ZenonT(60)

LEMMA IUnlockInv ==
  ASSUME Inv, Known, NEW p \in Procs, IUnlock(p)
  PROVE  Inv'
<1>1. /\ panic = "no" /\ pc[p] = "locked" /\ op[p] = "none" /\ cur[p] \in Entries
      /\ lock' = [lock EXCEPT ![cur[p]] = None] /\ pc' = [pc EXCEPT ![p] = "ref"]
      /\ UNCHANGED <<ondisk, inum, ref, valid, nlink, cur, op, num, panic>>
  BY DEF Known, IUnlock
<1>2. TypeOK' /\ NoPanic'
  BY <1>1 DEF Known, TypeOK, NoPanic
<1>3. Counted'
  BY <1>1, CountedStays, ZenonT(60)
<1>4. OneEntry'
  BY <1>1, ZenonT(60) DEF OneEntry
<1>5. LinksExact'
  BY <1>1, LinksStay DEF Known, TypeOK
<1>6. CopyExact'
  BY <1>1 DEF Known, TypeOK, CopyExact
<1>7. Placed'
  BY <1>1, SMTT(60) DEF Known, TypeOK, Placed
<1>8. OneLife'
  BY <1>1, SMTT(60) DEF Known, TypeOK, OneLife, Placed, Users
<1> QED
  BY <1>2, <1>3, <1>4, <1>5, <1>6, <1>7, <1>8, ZenonT(60)

-----------------------------------------------------------------------------
(* The steps of iput and of the system calls keep the invariant.           *)

LEMMA IputLastInv ==
  ASSUME Inv, Known, NEW p \in Procs, IputLast(p)
  PROVE  Inv'
<1>1. /\ panic = "no" /\ pc[p] = "ref" /\ op[p] = "none" /\ cur[p] \in Entries
      /\ LastUse(cur[p]) /\ lock[cur[p]] = None
      /\ lock' = [lock EXCEPT ![cur[p]] = p] /\ pc' = [pc EXCEPT ![p] = "trunc"]
      /\ UNCHANGED <<ondisk, inum, ref, valid, nlink, cur, op, num, panic>>
  BY DEF Known, IputLast
<1>2. TypeOK' /\ NoPanic'
  BY <1>1 DEF Known, TypeOK, NoPanic
<1>3. Counted'
  BY <1>1, CountedStays, ZenonT(60)
<1>4. OneEntry'
  BY <1>1, ZenonT(60) DEF OneEntry
<1>5. LinksExact'
  BY <1>1, LinksStay DEF Known, TypeOK
<1>6. CopyExact'
  BY <1>1 DEF Known, TypeOK, CopyExact
<1>7. Placed'
  BY <1>1, SMTT(60) DEF Known, TypeOK, Placed, LastUse
<1>8. OneLife'
  <2>1. \A q \in Procs : cur[q] = cur[p] => q = p
    BY <1>1, OnlyUser DEF Known, LastUse
  <2>2. dnlink[inum[cur[p]]] = 0
    BY <1>1, SMTT(60) DEF CopyExact, LastUse
  <2> QED
    BY <1>1, <2>1, <2>2, SMTT(60) DEF Known, TypeOK, OneLife, Placed, Users
<1> QED
  BY <1>2, <1>3, <1>4, <1>5, <1>6, <1>7, <1>8, ZenonT(60)

LEMMA IputFreeInv ==
  ASSUME Inv, Known, NEW p \in Procs, IputFree(p)
  PROVE  Inv'
<1>1. /\ panic = "no" /\ pc[p] = "trunc" /\ cur[p] \in Entries /\ inum[cur[p]] \in Inums
      /\ dtype' = [dtype EXCEPT ![inum[cur[p]]] = 0] /\ pc' = [pc EXCEPT ![p] = "invalid"]
      /\ UNCHANGED <<dnlink, links, itable, cur, op, num, panic>>
  BY DEF Known, IputFree
<1>2. TypeOK' /\ NoPanic'
  BY <1>1 DEF Known, TypeOK, NoPanic
<1>3. Counted'
  BY <1>1, CountedStays, ZenonT(60)
<1>4. OneEntry'
  BY <1>1, ZenonT(60) DEF OneEntry
<1>5. LinksExact'
  BY <1>1, LinksStay DEF Known, TypeOK
<1>6. CopyExact'
  BY <1>1 DEF Known, TypeOK, CopyExact
<1>7. Placed'
  BY <1>1, SMTT(60) DEF Known, TypeOK, Placed
<1>8. OneLife'
  BY <1>1, SMTT(60) DEF Known, TypeOK, OneLife, Placed, Users
<1> QED
  BY <1>2, <1>3, <1>4, <1>5, <1>6, <1>7, <1>8, ZenonT(60)

LEMMA IputInvalidInv ==
  ASSUME Inv, Known, NEW p \in Procs, IputInvalid(p)
  PROVE  Inv'
<1>1. /\ panic = "no" /\ pc[p] = "invalid" /\ cur[p] \in Entries
      /\ valid' = [valid EXCEPT ![cur[p]] = 0] /\ lock' = [lock EXCEPT ![cur[p]] = None]
      /\ pc' = [pc EXCEPT ![p] = "unref"]
      /\ UNCHANGED <<ondisk, inum, ref, nlink, cur, op, num, panic>>
  BY DEF Known, IputInvalid
<1>2. TypeOK' /\ NoPanic'
  BY <1>1 DEF Known, TypeOK, NoPanic
<1>3. Counted'
  BY <1>1, CountedStays, ZenonT(60)
<1>4. OneEntry'
  BY <1>1, ZenonT(60) DEF OneEntry
<1>5. LinksExact'
  BY <1>1, LinksStay DEF Known, TypeOK
<1>6. CopyExact'
  BY <1>1, SMTT(60) DEF Known, TypeOK, CopyExact
<1>7. Placed'
  BY <1>1, SMTT(60) DEF Known, TypeOK, Placed
<1>8. OneLife'
  BY <1>1, SMTT(60) DEF Known, TypeOK, OneLife, Placed, Users
<1> QED
  BY <1>2, <1>3, <1>4, <1>5, <1>6, <1>7, <1>8, ZenonT(60)

\* iput() drops its reference.
LEMMA UnrefInv ==
  ASSUME Inv, Known, NEW p \in Procs, Iput(p) \/ IputUnref(p)
  PROVE  Inv'
<1>1. /\ panic = "no" /\ cur[p] \in Entries /\ op[p] = "none" /\ pc[p] \in {"ref", "unref"}
      /\ ref' = [ref EXCEPT ![cur[p]] = @ - 1]
      /\ cur' = [cur EXCEPT ![p] = 0] /\ pc' = [pc EXCEPT ![p] = "idle"]
      /\ UNCHANGED <<ondisk, inum, valid, nlink, lock, op, num, panic>>
  <2>1. op[p] = "none"
    BY DEF Iput, IputUnref, Placed
  <2> QED
    BY <2>1 DEF Known, Iput, IputUnref, Unref
<1>2. TypeOK' /\ NoPanic'
  BY <1>1, SMTT(60) DEF Known, TypeOK, NoPanic
<1>3. Counted'
  BY <1>1, UserGoes, ZenonT(60)
<1>4. OneEntry'
  BY <1>1 DEF Known, TypeOK, OneEntry
<1>5. LinksExact'
  BY <1>1, LinksStay DEF Known, TypeOK
<1>6. CopyExact'
  BY <1>1 DEF Known, TypeOK, CopyExact
<1>7. Placed'
  BY <1>1, SMTT(60) DEF Known, TypeOK, Placed
<1>8. OneLife'
  BY <1>1, SMTT(60) DEF Known, TypeOK, OneLife, Placed, Users
<1> QED
  BY <1>2, <1>3, <1>4, <1>5, <1>6, <1>7, <1>8, ZenonT(60)

LEMMA CreateInv ==
  ASSUME Inv, Known, NEW p \in Procs, Create(p)
  PROVE  Inv'
<1>1. PICK e \in Entries, i \in Inums : e = cur[p] /\ i = inum[e]
  BY DEF Known, Create
<1>2. /\ panic = "no" /\ pc[p] = "locked" /\ op[p] = "create"
      /\ dnlink[i] = 0 /\ dtype[i] = 1
      /\ \E k \in {0, 1} : /\ nlink' = [nlink EXCEPT ![e] = k]
                           /\ dnlink' = [dnlink EXCEPT ![i] = k]
                           /\ links' = IF k = 0 THEN links ELSE [links EXCEPT ![i] = 1]
      /\ op' = [op EXCEPT ![p] = "none"]
      /\ UNCHANGED <<dtype, inum, ref, valid, lock, pc, cur, num, panic>>
  BY <1>1, SMTT(60) DEF Known, TypeOK, Placed, CopyExact, Create, SetNlink, OneLife
<1>3. TypeOK' /\ NoPanic'
  BY <1>1, <1>2, SMTT(60) DEF TypeOK, NoPanic
<1>4. Counted'
  BY <1>2, CountedStays, ZenonT(60)
<1>5. OneEntry'
  BY <1>2, ZenonT(60) DEF OneEntry
<1>6. LinksExact'
  <2>1. links[i] = 0 /\ Cardinality(Pending(i, "link")) = 0
        /\ Cardinality(Pending(i, "unlink")) = 0
    <3>1. /\ Cardinality(Pending(i, "link")) \in Nat
          /\ Cardinality(Pending(i, "unlink")) \in Nat
      BY PendingFinite, ZenonT(60)
    <3> QED
      BY <1>2, <3>1, SMTT(60) DEF TypeOK, LinksExact
  <2>2. \A j \in Inums, w \in {"link", "unlink"} : Pending(j, w)' = Pending(j, w)
    BY <1>2, PendingStays DEF TypeOK
  <2> QED
    BY <1>2, <2>1, <2>2, SMTT(60) DEF TypeOK, LinksExact
<1>7. CopyExact'
  BY <1>1, <1>2, SMTT(60) DEF Known, TypeOK, CopyExact, OneEntry
<1>8. Placed'
  BY <1>1, <1>2, SMTT(60) DEF Known, TypeOK, Placed
<1>9. OneLife'
  BY <1>1, <1>2, SMTT(60) DEF Known, TypeOK, OneLife, Placed, Users
<1> QED
  BY <1>3, <1>4, <1>5, <1>6, <1>7, <1>8, <1>9, ZenonT(60)

LEMMA UnlinkEntryInv ==
  ASSUME Inv, Known, NEW p \in Procs, UnlinkEntry(p)
  PROVE  Inv'
<1>1. PICK e \in Entries, i \in Inums : e = cur[p] /\ i = inum[e]
  BY DEF Known, UnlinkEntry
<1>2. /\ panic = "no" /\ pc[p] = "locked" /\ op[p] = "none" /\ links[i] > 0
      /\ nlink[e] = dnlink[i] /\ links' = [links EXCEPT ![i] = @ - 1]
      /\ op' = [op EXCEPT ![p] = "unlink"]
      /\ panic' = IF nlink[e] < 1 THEN "unlink_nlink" ELSE panic
      /\ UNCHANGED <<dtype, dnlink, itable, pc, cur, num>>
  BY <1>1 DEF Known, TypeOK, Placed, CopyExact, UnlinkEntry
<1>3. TypeOK' /\ NoPanic'
  BY <1>1, <1>2, NamedAllocated, SMTT(60) DEF TypeOK, NoPanic
<1>4. Counted'
  BY <1>2, CountedStays, ZenonT(60)
<1>5. OneEntry'
  BY <1>2, ZenonT(60) DEF OneEntry
<1>6. LinksExact'
  <2>1. op \in [Procs -> Ops] /\ cur[p] # 0 /\ inum[cur[p]] = i
    BY <1>1 DEF Known, TypeOK
  <2>2. /\ Cardinality(Pending(i, "unlink")') = Cardinality(Pending(i, "unlink")) + 1
        /\ \A j \in Inums, x \in {"link", "unlink"} :
             j # i \/ x # "unlink" => Pending(j, x)' = Pending(j, x)
    BY <1>2, <2>1, PendingComes, ZenonT(60)
  <2> QED
    BY <1>2, <2>2, PendingFinite, SMTT(60) DEF TypeOK, LinksExact
<1>7. CopyExact'
  BY <1>1, <1>2 DEF Known, TypeOK, CopyExact, OneEntry
<1>8. Placed'
  BY <1>1, <1>2, SMTT(60) DEF Known, TypeOK, Placed
<1>9. OneLife'
  BY <1>1, <1>2, SMTT(60) DEF Known, TypeOK, OneLife, Placed, Users
<1> QED
  BY <1>3, <1>4, <1>5, <1>6, <1>7, <1>8, <1>9, ZenonT(60)

\* unlink() or a failing link() takes the count back.
LEMMA CountDownInv ==
  ASSUME Inv, Known, NEW p \in Procs, UnlinkCount(p) \/ LinkFails(p)
  PROVE  Inv'
<1>1. PICK e \in Entries, i \in Inums : e = cur[p] /\ i = inum[e]
  BY DEF Known, UnlinkCount, LinkFails
<1>2. /\ panic = "no" /\ pc[p] = "locked" /\ op[p] \in {"link", "unlink"} /\ nlink[e] = dnlink[i]
      /\ nlink' = [nlink EXCEPT ![e] = nlink[e] - 1]
      /\ dnlink' = [dnlink EXCEPT ![i] = dnlink[i] - 1]
      /\ op' = [op EXCEPT ![p] = "none"] /\ dtype[i] = 1
      /\ UNCHANGED <<dtype, inum, ref, valid, links, lock, pc, cur, num, panic>>
  BY <1>1 DEF Known, TypeOK, Placed, CopyExact, UnlinkCount, LinkFails, SetNlink,
       OneLife
<1>10. PICK w \in {"link", "unlink"} :
        /\ Cardinality(Pending(i, w)') = Cardinality(Pending(i, w)) - 1
        /\ Cardinality(Pending(i, w)) >= 1
        /\ \A j \in Inums, x \in {"link", "unlink"} :
             j # i \/ x # w => Pending(j, x)' = Pending(j, x)
  <2>1. op \in [Procs -> Ops] /\ cur[p] # 0 /\ inum[cur[p]] = i
    BY <1>1 DEF Known, TypeOK
  <2>2. PICK v \in {"link", "unlink"} : op[p] = v
    BY <1>2
  <2>3. op' = [op EXCEPT ![p] = "none"] /\ UNCHANGED <<cur, inum>>
    BY <1>2
  <2>4. /\ Cardinality(Pending(i, v)') = Cardinality(Pending(i, v)) - 1
        /\ Cardinality(Pending(i, v)) >= 1
        /\ \A j \in Inums, x \in {"link", "unlink"} :
             j # i \/ x # v => Pending(j, x)' = Pending(j, x)
    BY <2>1, <2>2, <2>3, PendingGoes, ZenonT(60)
  <2> QED
    BY <2>4
<1>3. TypeOK' /\ NoPanic'
  BY <1>1, <1>2, <1>10, PendingFinite, SMTT(60) DEF TypeOK, NoPanic, LinksExact
<1>4. Counted'
  BY <1>2, CountedStays, ZenonT(60)
<1>5. OneEntry'
  BY <1>2, ZenonT(60) DEF OneEntry
<1>6. LinksExact'
  BY <1>2, <1>10, PendingFinite, SMTT(60) DEF TypeOK, LinksExact
<1>7. CopyExact'
  BY <1>1, <1>2, SMTT(60) DEF Known, TypeOK, CopyExact, OneEntry
<1>8. Placed'
  BY <1>1, <1>2, SMTT(60) DEF Known, TypeOK, Placed
<1>9. OneLife'
  BY <1>1, <1>2, SMTT(60) DEF Known, TypeOK, OneLife, Placed, Users
<1> QED
  BY <1>3, <1>4, <1>5, <1>6, <1>7, <1>8, <1>9, ZenonT(60)

LEMMA LinkCountInv ==
  ASSUME Inv, Known, NEW p \in Procs, LinkCount(p)
  PROVE  Inv'
<1>1. PICK e \in Entries, i \in Inums : e = cur[p] /\ i = inum[e]
  BY DEF Known, LinkCount
<1>2. /\ panic = "no" /\ pc[p] = "locked" /\ op[p] = "none" /\ nlink[e] = dnlink[i]
      /\ nlink' = [nlink EXCEPT ![e] = nlink[e] + 1]
      /\ dnlink' = [dnlink EXCEPT ![i] = dnlink[i] + 1] /\ dtype[i] = 1
      /\ lock' = [lock EXCEPT ![e] = None] /\ pc' = [pc EXCEPT ![p] = "ref"]
      /\ op' = [op EXCEPT ![p] = "link"]
      /\ UNCHANGED <<dtype, inum, ref, valid, links, cur, num, panic>>
  <2>1. pc[p] = "locked" /\ nlink[e] = dnlink[i] /\ dtype[i] = 1
    BY <1>1 DEF Known, Placed, CopyExact, LinkCount, OneLife
  <2> QED
    BY <1>1, <2>1 DEF LinkCount, SetNlink
<1>3. TypeOK' /\ NoPanic'
  BY <1>1, <1>2, SMTT(60) DEF TypeOK, NoPanic
<1>4. Counted'
  BY <1>2, CountedStays, ZenonT(60)
<1>5. OneEntry'
  BY <1>2, ZenonT(60) DEF OneEntry
<1>6. LinksExact'
  <2>1. op \in [Procs -> Ops] /\ cur[p] # 0 /\ inum[cur[p]] = i
    BY <1>1 DEF Known, TypeOK
  <2>2. /\ Cardinality(Pending(i, "link")') = Cardinality(Pending(i, "link")) + 1
        /\ \A j \in Inums, x \in {"link", "unlink"} :
             j # i \/ x # "link" => Pending(j, x)' = Pending(j, x)
    BY <1>2, <2>1, PendingComes, ZenonT(60)
  <2> QED
    BY <1>2, <2>2, PendingFinite, SMTT(60) DEF TypeOK, LinksExact
<1>7. CopyExact'
  BY <1>1, <1>2, SMTT(60) DEF Known, TypeOK, CopyExact, OneEntry
<1>8. Placed'
  BY <1>1, <1>2, SMTT(60) DEF Known, TypeOK, Placed
<1>9. OneLife'
  BY <1>1, <1>2, SMTT(60) DEF Known, TypeOK, OneLife, Placed, Users
<1> QED
  BY <1>3, <1>4, <1>5, <1>6, <1>7, <1>8, <1>9, ZenonT(60)

LEMMA LinkEntryInv ==
  ASSUME Inv, Known, NEW p \in Procs, LinkEntry(p)
  PROVE  Inv'
<1>1. PICK e \in Entries, i \in Inums : e = cur[p] /\ i = inum[e]
  BY DEF Known, LinkEntry
<1>2. /\ panic = "no" /\ pc[p] = "ref" /\ op[p] = "link" /\ dtype[i] = 1
      /\ links' = [links EXCEPT ![i] = @ + 1] /\ op' = [op EXCEPT ![p] = "none"]
      /\ UNCHANGED <<dtype, dnlink, itable, pc, cur, num, panic>>
  BY <1>1 DEF Known, TypeOK, Placed, CopyExact, LinkEntry, OneLife
<1>3. TypeOK' /\ NoPanic'
  BY <1>1, <1>2, SMTT(60) DEF TypeOK, NoPanic
<1>4. Counted'
  BY <1>2, CountedStays, ZenonT(60)
<1>5. OneEntry'
  BY <1>2, ZenonT(60) DEF OneEntry
<1>6. LinksExact'
  <2>1. op \in [Procs -> Ops] /\ cur[p] # 0 /\ inum[cur[p]] = i
    BY <1>1 DEF Known, TypeOK
  <2>2. /\ Cardinality(Pending(i, "link")') = Cardinality(Pending(i, "link")) - 1
        /\ \A j \in Inums, x \in {"link", "unlink"} :
             j # i \/ x # "link" => Pending(j, x)' = Pending(j, x)
    BY <1>2, <2>1, PendingGoes, ZenonT(60)
  <2> QED
    BY <1>2, <2>2, PendingFinite, SMTT(60) DEF TypeOK, LinksExact
<1>7. CopyExact'
  BY <1>1, <1>2 DEF Known, TypeOK, CopyExact, OneEntry
<1>8. Placed'
  BY <1>1, <1>2, SMTT(60) DEF Known, TypeOK, Placed
<1>9. OneLife'
  BY <1>1, <1>2, SMTT(60) DEF Known, TypeOK, OneLife, Placed, Users
<1> QED
  BY <1>3, <1>4, <1>5, <1>6, <1>7, <1>8, <1>9, ZenonT(60)

-----------------------------------------------------------------------------
(* The invariants.                                                         *)

LEMMA InitInv == Init => Inv
<1> SUFFICES ASSUME Init PROVE Inv
  OBVIOUS
<1>1. TypeOK /\ OneEntry /\ CopyExact /\ NoPanic
  BY SMTT(60) DEF Init, TypeOK, OneEntry, CopyExact, NoPanic
<1>2. /\ \A e \in Entries : Users(e) = {}
      /\ \A i \in Inums : Pending(i, "link") = {} /\ Pending(i, "unlink") = {}
  BY SMTT(60) DEF Init, Users, Pending, Entries
<1>3. /\ \A e \in Entries : Cardinality(Users(e)) = 0
      /\ \A i \in Inums : /\ Cardinality(Pending(i, "link")) = 0
                          /\ Cardinality(Pending(i, "unlink")) = 0
  <2>1. Cardinality({}) = 0
    BY FS_EmptySet
  <2> QED
    BY <1>2, <2>1, ZenonT(60)
<1>4. Counted /\ LinksExact
  BY <1>3, SMTT(60) DEF Init, Counted, LinksExact
<1>5. Placed
  BY NoneApart DEF Init, Placed, Entries
<1>6. OneLife
  BY DEF Init, OneLife
<1> QED
  BY <1>1, <1>4, <1>5, <1>6, ZenonT(60)

LEMMA StutterInv ==
  ASSUME Inv, UNCHANGED vars
  PROVE  Inv'
<1>1. TypeOK' /\ OneEntry' /\ CopyExact' /\ NoPanic'
  BY DEF vars, TypeOK, OneEntry, CopyExact, NoPanic
<1>2. Counted' /\ LinksExact'
  BY CountedStays, LinksStay DEF vars
<1>3. Placed' /\ OneLife'
  BY SMTT(60) DEF vars, Placed, OneLife, Users
<1> QED
  BY <1>1, <1>2, <1>3, ZenonT(60)

LEMMA StepInv == Inv /\ [Next]_vars => Inv'
<1> SUFFICES ASSUME Inv, Known, [Next]_vars PROVE Inv'
  BY Facts
<1>1. ASSUME NEW p \in Procs, NEW i \in Inums, Lookup(p, i) \/ Ialloc(p, i)
      PROVE  Inv'
  BY <1>1, GetInv, IallocInv, ZenonT(60)
<1>2. ASSUME NEW p \in Procs, NEW q \in Procs, Idup(p, q) PROVE Inv'
  BY <1>2, IdupInv, ZenonT(60)
<1>3. ASSUME NEW p \in Procs, IallocGet(p) PROVE Inv'
  <2>1. num[p] \in Inums
    BY <1>3 DEF TypeOK, Placed, IallocGet
  <2> QED
    BY <1>3, <2>1, GetInv, ZenonT(60)
<1>4. ASSUME NEW p \in Procs, ILock(p) \/ IUnlock(p) \/ Create(p) PROVE Inv'
  BY <1>4, ILockInv, IUnlockInv, CreateInv, ZenonT(60)
<1>5. ASSUME NEW p \in Procs, UnlinkEntry(p) \/ UnlinkCount(p) \/ LinkCount(p)
                              \/ LinkEntry(p) \/ LinkFails(p)
      PROVE  Inv'
  BY <1>5, UnlinkEntryInv, CountDownInv, LinkCountInv, LinkEntryInv, ZenonT(60)
<1>6. ASSUME NEW p \in Procs, Iput(p) \/ IputLast(p) \/ IputFree(p)
                              \/ IputInvalid(p) \/ IputUnref(p)
      PROVE  Inv'
  BY <1>6, UnrefInv, IputLastInv, IputFreeInv, IputInvalidInv, ZenonT(60)
<1>7. CASE UNCHANGED vars
  BY <1>7, StutterInv, ZenonT(60)
<1> QED
  BY <1>1, <1>2, <1>3, <1>4, <1>5, <1>6, <1>7, ZenonT(60) DEF Next

LEMMA InodeInvariant == Spec => []Inv
  BY InitInv, StepInv, PTL DEF Spec

(* ref counts the users of an entry of the inode table, an inode in use    *)
(* has one entry, and link counts and names agree up to the system calls   *)
(* under way (iget, idup, iput, iupdate, sys_link, sys_unlink, create).    *)
THEOREM InodesExact == Spec => []EntriesExact
<1>1. Inv => EntriesExact
  BY ZenonT(60) DEF EntriesExact, Counted, OneEntry, LinksExact, CopyExact
<1> QED
  BY <1>1, InodeInvariant, PTL

(* Whoever has an inode has an allocated one; ilock() and sys_unlink()     *)
(* never panic.                                                            *)
THEOREM InodesAllocated == Spec => []InUseIsAllocated
<1>1. Inv => InUseIsAllocated
  BY NamedAllocated DEF InUseIsAllocated, NoPanic
<1> QED
  BY <1>1, InodeInvariant, PTL

(* The acquiresleep() in iput() finds the lock free.                       *)
THEOREM InodesWontBlock == Spec => []IputWontBlock
<1>1. Inv => IputWontBlock
  <2> SUFFICES ASSUME Inv, NEW p \in Procs, pc[p] = "ref", LastUse(cur[p])
               PROVE  lock[cur[p]] = None
    BY ZenonT(60) DEF IputWontBlock
  <2>1. cur[p] # 0 /\ cur[p] \in Entries /\ ref[cur[p]] = 1
    BY Facts DEF Known, Placed, LastUse
  <2>2. \A q \in Procs : cur[q] = cur[p] => q = p
    BY <2>1, OnlyUser
  <2> QED
    BY <2>1, <2>2, SMTT(60) DEF TypeOK, Placed
<1> QED
  BY <1>1, InodeInvariant, PTL

-----------------------------------------------------------------------------
(* No step loses an inode.                                                 *)

\* An inode that nobody has after a step was abandoned before it, if the step
\* changed neither its type nor its links, and took it from nobody.
LEMMA LostBefore ==
  ASSUME NEW i \in Inums, panic = "no", Abandoned(i)',
         dtype'[i] = dtype[i], dnlink'[i] = dnlink[i],
         \A q \in Procs : num[q] = i => num'[q] = i \/ (cur'[q] # 0 /\ inum'[cur'[q]] = i),
         \A q \in Procs : cur[q] # 0 /\ inum[cur[q]] = i
                            => cur'[q] # 0 /\ inum'[cur'[q]] = i
  PROVE  Abandoned(i)
BY DEF Abandoned

\* The iput() that ends an inode's use here did not find it without names.
LEMMA LostByIput ==
  ASSUME Inv, Known, NEW p \in Procs, Iput(p), NEW i \in Inums, Abandoned(i)'
  PROVE  Abandoned(i)
<1>1. cur[p] # 0 /\ cur[p] \in Entries
  BY DEF Known, Iput, Placed
<1>2. /\ panic = "no" /\ pc[p] = "ref" /\ op[p] = "none" /\ ~LastUse(cur[p])
      /\ ref' = [ref EXCEPT ![cur[p]] = @ - 1] /\ cur' = [cur EXCEPT ![p] = 0]
      /\ UNCHANGED <<dtype, dnlink, inum, num>>
  BY DEF Iput, Unref
<1>3. inum[cur[p]] # i
  <2> SUFFICES ASSUME inum[cur[p]] = i PROVE FALSE
    OBVIOUS
  <2>1. \A q \in Procs : cur[q] = cur[p] => q = p
    BY <1>1, <1>2 DEF Known, TypeOK, Abandoned
  <2>2. Users(cur[p]) = {p}
    BY <2>1 DEF Users
  <2>3. ref[cur[p]] = 1
    <3>1. Cardinality(Users(cur[p])) = 1
      BY <2>2, FS_Singleton, ZenonT(60)
    <3> QED
      BY <1>1, <3>1, ZenonT(60) DEF Counted
  <2>4. dnlink[i] = 0
    BY <1>2 DEF Abandoned
  <2>5. valid[cur[p]] = 1
    BY <1>1, <1>2, <2>4, SMTT(60) DEF TypeOK, OneLife
  <2> QED
    BY <1>1, <1>2, <2>3, <2>4, <2>5, SMTT(60) DEF CopyExact, LastUse
<1> QED
  BY <1>2, <1>3, LostBefore DEF TypeOK

LEMMA LostByGet ==
  ASSUME Inv, Known, NEW p \in Procs, NEW j \in Inums, NEW i \in Inums, Abandoned(i)',
         Lookup(p, j) \/ (IallocGet(p) /\ num[p] = j)
  PROVE  Abandoned(i)
<1>1. /\ panic = "no" /\ cur[p] = 0
      /\ UNCHANGED <<dtype, dnlink>>
      /\ Iget(p, j) /\ num' \in {num, [num EXCEPT ![p] = None]}
      /\ num'[p] # num[p] => num[p] = j
  BY DEF Lookup, IallocGet, Placed, TypeOK
<1>2. PICK e \in Entries : /\ cur' = [cur EXCEPT ![p] = e] /\ inum'[e] = j
                           /\ \A f \in Entries \ {e} : inum'[f] = inum[f]
                           /\ \A q \in Procs : cur[q] = e => inum[e] = j
  BY <1>1, SMTT(60) DEF Known, Abandoned, Iget, Found, Empty, TypeOK
<1>3. j # i
  BY <1>2 DEF Known, Abandoned, TypeOK
<1>4. \A q \in Procs : num[q] = i => num'[q] = i
  BY <1>1, <1>3 DEF TypeOK
<1>5. \A q \in Procs : cur[q] # 0 /\ inum[cur[q]] = i
                         => cur'[q] # 0 /\ inum'[cur'[q]] = i
  BY <1>1, <1>2, <1>3, SMTT(60) DEF Known, TypeOK
<1>6. dtype'[i] = dtype[i] /\ dnlink'[i] = dnlink[i] /\ panic = "no"
  BY <1>1
<1> QED
  BY <1>4, <1>5, <1>6, LostBefore, ZenonT(60)

\* Steps that take no inode from anybody, and change the disk only for an
\* inode that p has after the step, or that they free.
LEMMA LostByLocking ==
  ASSUME NEW p \in Procs, NEW i \in Inums, Abandoned(i)',
         \/ ILock(p) \/ IUnlock(p) \/ IputLast(p) \/ IputInvalid(p)
         \/ UnlinkEntry(p) \/ LinkEntry(p)
  PROVE  Abandoned(i)
<1>1. panic = "no" /\ UNCHANGED <<dtype, dnlink, inum, cur, num>>
  BY ZenonT(60) DEF ILock, IUnlock, IputLast, IputInvalid, UnlinkEntry, LinkEntry
<1> QED
  BY <1>1, LostBefore

LEMMA LostByCounting ==
  ASSUME TypeOK, Placed, NEW p \in Procs, NEW i \in Inums, Abandoned(i)',
         Create(p) \/ UnlinkCount(p) \/ LinkCount(p) \/ LinkFails(p)
  PROVE  Abandoned(i)
<1>1. /\ panic = "no" /\ pc[p] = "locked" /\ UNCHANGED <<dtype, inum, cur, num>>
      /\ \E k : dnlink' = [dnlink EXCEPT ![inum[cur[p]]] = k]
  BY ZenonT(60) DEF Create, UnlinkCount, LinkCount, LinkFails, SetNlink
<1>2. inum[cur[p]] # i
  BY <1>1 DEF Abandoned, Placed
<1>3. dnlink'[i] = dnlink[i]
  BY <1>1, <1>2 DEF TypeOK
<1> QED
  BY <1>1, <1>3, LostBefore

LEMMA LostByOthers ==
  ASSUME TypeOK, Placed, NEW p \in Procs, NEW i \in Inums, Abandoned(i)',
         \/ \E q \in Procs : Idup(p, q)
         \/ \E j \in Inums : Ialloc(p, j)
         \/ IputFree(p)
  PROVE  Abandoned(i)
<1>1. CASE \E q \in Procs : Idup(p, q)
  BY <1>1, LostBefore, SMTT(60) DEF Idup, Placed, TypeOK
<1>2. CASE \E j \in Inums : Ialloc(p, j)
  BY <1>2, LostBefore, NoneApart, SMTT(60) DEF Ialloc, Abandoned, Placed, TypeOK
<1>3. CASE IputFree(p)
  BY <1>3, LostBefore, SMTT(60) DEF IputFree, Abandoned, Placed, TypeOK
<1> QED
  BY <1>1, <1>2, <1>3, ZenonT(60)

\* iput() frees the inode when it drops the last reference to an inode
\* without names: no step abandons one, but for the decrement of an iput()
\* whose inode was allocated anew.
THEOREM InodesNoneLost == Spec => NoneLost
<1> DEFINE Kept == \A i \in Inums :
               Abandoned(i)' => \/ Abandoned(i)
                                \/ \E p \in Procs : pc[p] = "unref" /\ inum[cur[p]] = i
<1>1. Inv /\ [Next]_vars => [Kept]_vars
  <2> SUFFICES ASSUME Inv, Known, Next, NEW i \in Inums, Abandoned(i)',
                      \A p \in Procs : ~(pc[p] = "unref" /\ inum[cur[p]] = i)
               PROVE  Abandoned(i)
    BY Facts, ZenonT(60)
  <2>1. ASSUME NEW p \in Procs, IputUnref(p) PROVE Abandoned(i)
    <3>1. /\ panic = "no" /\ cur[p] # 0 /\ inum[cur[p]] # i
          /\ cur' = [cur EXCEPT ![p] = 0] /\ UNCHANGED <<dtype, dnlink, inum, num>>
      BY <2>1 DEF IputUnref, Unref, Placed
    <3> QED
      BY <3>1, LostBefore DEF TypeOK
  <2>2. ASSUME NEW p \in Procs, IallocGet(p) PROVE Abandoned(i)
    <3>1. num[p] \in Inums
      BY <2>2 DEF TypeOK, Placed, IallocGet
    <3> QED
      BY <2>2, <3>1, LostByGet, ZenonT(60)
  <2> QED
    BY <2>1, <2>2, LostByGet, LostByIput, LostByLocking, LostByCounting,
       LostByOthers, ZenonT(60) DEF Next
<1> QED
  BY <1>1, InodeInvariant, PTL DEF Spec, NoneLost
=============================================================================
