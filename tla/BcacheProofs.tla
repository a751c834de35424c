---------------------------- MODULE BcacheProofs ----------------------------
(***************************************************************************)
(* Proofs about Bcache for every set of processes, blocks and contents and *)
(* every number of buffers: BuffersExact /\ DirtyIsPinned is inductive, and *)
(* with it the cache implements BlockStore: each block has one content and *)
(* at most one owner, whatever buffers it passes through.                  *)
(***************************************************************************)
EXTENDS Bcache, FiniteSetTheorems, TLAPS

USE ZenonT(60)

\* The conjuncts of BuffersExact, one by one.
Linked == Len(lru) = NBUF /\ \A b \in Bufs : \E i \in 1 .. NBUF : lru[i] = b
Counted == \A b \in Bufs : refcnt[b] = Cardinality(Users(b)) + Pins(b)
OneBuffer ==
  \A b, d \in Bufs : blockno[b] = blockno[d] /\ blockno[b] # None => b = d
Locked ==
  \A b \in Bufs, p \in Procs :
    /\ locked[b] = p <=> Owns(p, b)
    /\ cur[p] = b /\ pc[p] = "asleep" => locked[b] # None
PanicsFull == panicked = 1 => \A b \in Bufs : b \in pinned \/ Users(b) # {}

Inv == BuffersExact /\ DirtyIsPinned

LEMMA InvParts ==
  BuffersExact <=> /\ TypeOK /\ Linked /\ Counted /\ OneBuffer /\ Locked
                   /\ PanicsFull
BY DEF BuffersExact, Linked, Counted, OneBuffer, Locked, PanicsFull

-----------------------------------------------------------------------------
(* Facts about the helpers of bget() and brelse().                         *)

\* The users of a buffer are finitely many.
LEMMA UsersFinite ==
  ASSUME NEW b
  PROVE  IsFiniteSet(Users(b)) /\ Cardinality(Users(b)) \in Nat
BY BcacheConstants, FS_Subset, FS_CardinalityType DEF Users

\* A reference count of zero means no user and no pin.
LEMMA UnusedIsFree ==
  ASSUME TypeOK, Counted, NEW b \in Bufs
  PROVE  refcnt[b] = 0 <=> Users(b) = {} /\ b \notin pinned
<1>1. refcnt[b] = Cardinality(Users(b)) + Pins(b) /\ Pins(b) \in {0, 1}
  BY DEF Counted, Pins
<1>2. Cardinality(Users(b)) = 0 <=> Users(b) = {}
  BY UsersFinite, FS_EmptySet
<1> QED
  BY <1>1, <1>2, UsersFinite, SMTT(60) DEF Pins

\* bget() recycles a buffer that nobody uses.
LEMMA LeastRecentUnused ==
  ASSUME NEW b \in Bufs, LeastRecent(b)
  PROVE  refcnt[b] = 0
BY DEF LeastRecent, Unused

\* With no unused buffer on the list, every buffer is in use.
LEMMA NoneUnused ==
  ASSUME TypeOK, Linked, Unused = {}, NEW b \in Bufs
  PROVE  refcnt[b] # 0
BY DEF Linked, Unused

\* Moving a buffer to the front keeps the others on the list.
LEMMA MoveToFrontLinked ==
  ASSUME TypeOK, Linked, NEW b \in Bufs
  PROVE  /\ MoveToFront(b) \in Seq(Bufs)
         /\ Len(MoveToFront(b)) = NBUF
         /\ \A c \in Bufs : \E i \in 1 .. NBUF : MoveToFront(b)[i] = c
<1> DEFINE i == CHOOSE j \in 1 .. Len(lru) : lru[j] = b
           f == [j \in 1 .. NBUF |-> IF j = 1 THEN b
                                    ELSE IF j <= i THEN lru[j - 1] ELSE lru[j]]
<1>1. i \in 1 .. NBUF /\ lru[i] = b /\ Len(lru) = NBUF /\ NBUF \in Nat \ {0}
  BY BcacheConstants DEF Linked
<1>2. MoveToFront(b) = f
  BY <1>1 DEF MoveToFront
<1> HIDE DEF i
<1>3. \A j \in 1 .. NBUF : lru[j] \in Bufs
  BY <1>1, SMTT(60) DEF TypeOK
<1>4. f \in [1 .. NBUF -> Bufs]
  BY <1>1, <1>3, SMTT(60)
<1>5. ASSUME NEW c \in Bufs PROVE \E j \in 1 .. NBUF : f[j] = c
  <2>1. PICK j \in 1 .. NBUF : lru[j] = c
    BY DEF Linked
  <2>2. CASE j < i
    <3>1. j + 1 \in 1 .. NBUF /\ f[j + 1] = c
      BY <1>1, <2>1, <2>2, SMTT(60)
    <3> QED
      BY <3>1
  <2>3. CASE j = i
    <3>1. 1 \in 1 .. NBUF /\ f[1] = c
      BY <1>1, <2>1, <2>3, SMTT(60)
    <3> QED
      BY <3>1
  <2>4. CASE j > i
    <3>1. f[j] = c
      BY <1>1, <2>1, <2>4, SMTT(60)
    <3> QED
      BY <3>1
  <2> QED
    BY <1>1, <2>2, <2>3, <2>4, SMTT(60)
<1>6. f \in Seq(Bufs) /\ Len(f) = NBUF
  BY <1>1, <1>4, SMTT(60)
<1> QED
  BY <1>2, <1>5, <1>6, ZenonT(60)
-----------------------------------------------------------------------------
(* Every action preserves the invariant.                                   *)

USE DEF PCs, procs

\* The counts follow a user that comes to, or goes from, a buffer.
LEMMA UserComes ==
  ASSUME NEW p \in Procs, cur \in [Procs -> Bufs \union {0}], cur[p] = 0,
         NEW b \in Bufs, cur' = [cur EXCEPT ![p] = b]
  PROVE  /\ Cardinality(Users(b)') = Cardinality(Users(b)) + 1
         /\ p \in Users(b)'
         /\ \A d \in Bufs \ {b} : Users(d)' = Users(d)
<1>1. Users(b)' = Users(b) \union {p} /\ p \notin Users(b)
  BY BcacheConstants, SMTT(60) DEF Users, Bufs
<1>2. \A d \in Bufs \ {b} : Users(d)' = Users(d)
  BY BcacheConstants, SMTT(60) DEF Users, Bufs
<1>3. Cardinality(Users(b) \union {p}) = Cardinality(Users(b)) + 1
  BY <1>1, UsersFinite, FS_AddElement
<1> QED
  BY <1>1, <1>2, <1>3

LEMMA UserGoes ==
  ASSUME NEW p \in Procs, cur \in [Procs -> Bufs \union {0}], NEW b \in Bufs,
         cur[p] = b, cur' = [cur EXCEPT ![p] = 0]
  PROVE  /\ Cardinality(Users(b)') = Cardinality(Users(b)) - 1
         /\ p \in Users(b)
         /\ \A d \in Bufs \ {b} : Users(d)' = Users(d)
<1>1. Users(b)' = Users(b) \ {p} /\ p \in Users(b)
  BY BcacheConstants, SMTT(60) DEF Users, Bufs
<1>2. \A d \in Bufs \ {b} : Users(d)' = Users(d)
  BY BcacheConstants, SMTT(60) DEF Users, Bufs
<1>3. Cardinality(Users(b) \ {p}) = Cardinality(Users(b)) - 1
  BY <1>1, UsersFinite, FS_RemoveElement
<1> QED
  BY <1>1, <1>2, <1>3

\* The conjuncts add up to the invariant of the next state.
LEMMA InvHolds ==
  ASSUME TypeOK', Linked', Counted', OneBuffer', Locked', PanicsFull', DirtyIsPinned'
  PROVE  Inv'
BY DEF Inv, BuffersExact, Linked, Counted, OneBuffer, Locked, PanicsFull

\* Most steps leave some conjuncts alone.
LEMMA LinkedStays == ASSUME Linked, UNCHANGED lru PROVE Linked'
BY DEF Linked

LEMMA CountedStays ==
  ASSUME Counted, UNCHANGED <<refcnt, cur, pinned>> PROVE Counted'
BY DEF Counted, Users, Pins

LEMMA OneBufferStays == ASSUME OneBuffer, UNCHANGED blockno PROVE OneBuffer'
BY DEF OneBuffer

LEMMA PanicsFullStays ==
  ASSUME PanicsFull, UNCHANGED <<panicked, cur, pinned>> PROVE PanicsFull'
BY DEF PanicsFull, Users

\* bget() finds the block.
LEMMA HitKeeps ==
  ASSUME Inv, NEW p \in Procs, NEW k \in Blocks, BgetHit(p, k)
  PROVE  Inv'
<1>0. TypeOK /\ Linked /\ Counted /\ OneBuffer /\ Locked /\ PanicsFull /\ DirtyIsPinned
  BY InvParts DEF Inv
<1>1. PICK b \in Cached(k) : /\ refcnt' = [refcnt EXCEPT ![b] = @ + 1]
                            /\ cur' = [cur EXCEPT ![p] = b]
  BY ZenonT(60) DEF BgetHit
<1>2. b \in Bufs /\ blockno[b] = k /\ k # None
  BY BcacheConstants DEF Cached
<1>3. TypeOK'
  BY <1>0, <1>1, <1>2, BcacheConstants, SMTT(60) DEF TypeOK, BgetHit, Bufs
<1>4. /\ Cardinality(Users(b)') = Cardinality(Users(b)) + 1
      /\ p \in Users(b)'
      /\ \A d \in Bufs \ {b} : Users(d)' = Users(d)
  <2>1. cur[p] = 0 /\ cur \in [Procs -> Bufs \union {0}]
    BY <1>0 DEF TypeOK, BgetHit
  <2> QED
    BY <1>1, <1>2, <2>1, UserComes, ZenonT(60)
<1>5. Linked'
  BY <1>0 DEF Linked, BgetHit
<1>6. Counted'
  BY <1>0, <1>1, <1>2, <1>4, UsersFinite, SMTT(60) DEF TypeOK, Counted, BgetHit, Pins
<1>7. OneBuffer'
  BY <1>0 DEF OneBuffer, BgetHit
<1>8. Locked'
  BY <1>0, <1>1, <1>2, SMTT(60) DEF TypeOK, Locked, Owns, BgetHit
<1>9. PanicsFull'
  BY SMTT(60) DEF PanicsFull, BgetHit
<1>10. DirtyIsPinned'
  BY <1>0, <1>1, <1>2, <1>4, ZenonT(60) DEF DirtyIsPinned, TypeOK, BgetHit
<1> QED
  BY <1>3, <1>5, <1>6, <1>7, <1>8, <1>9, <1>10, InvHolds

\* bget() recycles the least recently used buffer.
LEMMA MissKeeps ==
  ASSUME Inv, NEW p \in Procs, NEW k \in Blocks, BgetMiss(p, k)
  PROVE  Inv'
<1>0. TypeOK /\ Linked /\ Counted /\ OneBuffer /\ Locked /\ PanicsFull /\ DirtyIsPinned
  BY InvParts DEF Inv
<1>b. PICK b \in Bufs : /\ LeastRecent(b)
                       /\ blockno' = [blockno EXCEPT ![b] = k]
                       /\ valid' = [valid EXCEPT ![b] = 0]
                       /\ refcnt' = [refcnt EXCEPT ![b] = 1]
                       /\ cur' = [cur EXCEPT ![p] = b]
  BY ZenonT(60) DEF BgetMiss
<1>1. /\ refcnt[b] = 0 /\ k # None
      /\ pc[p] = "idle" /\ panicked = 0 /\ Cached(k) = {}
      /\ blockno' = [blockno EXCEPT ![b] = k]
      /\ valid' = [valid EXCEPT ![b] = 0]
      /\ refcnt' = [refcnt EXCEPT ![b] = 1]
      /\ cur' = [cur EXCEPT ![p] = b]
      /\ pc' = [pc EXCEPT ![p] = "locking"]
      /\ UNCHANGED <<data, locked, lru, disk, pinned, panicked>>
  BY <1>b, LeastRecentUnused, BcacheConstants, ZenonT(60) DEF BgetMiss
<1>2. Users(b) = {} /\ b \notin pinned
  BY <1>0, <1>1, UnusedIsFree
<1>3. TypeOK'
  BY <1>0, <1>1, BcacheConstants, SMTT(60) DEF TypeOK, Bufs
<1>4. /\ Cardinality(Users(b)') = Cardinality(Users(b)) + 1
      /\ p \in Users(b)'
      /\ \A d \in Bufs \ {b} : Users(d)' = Users(d)
  <2>1. cur[p] = 0 /\ cur \in [Procs -> Bufs \union {0}]
    BY <1>0, <1>1 DEF TypeOK
  <2> QED
    BY <1>1, <2>1, UserComes, ZenonT(60)
<1>5. Linked'
  BY <1>0, <1>1 DEF Linked
<1>6. Counted'
  <2>1. Cardinality(Users(b)) = 0
    BY <1>2, FS_EmptySet
  <2> QED
    BY <1>0, <1>1, <1>2, <1>4, <2>1, UsersFinite, SMTT(60) DEF TypeOK, Counted, Pins
<1>7. OneBuffer'
  BY <1>0, <1>1 DEF TypeOK, OneBuffer, Cached
<1>8. Locked'
  BY <1>0, <1>1, <1>2, SMTT(60) DEF TypeOK, Locked, Owns, Users
<1>9. PanicsFull'
  BY <1>1, SMTT(60) DEF PanicsFull
<1>10. DirtyIsPinned'
  <2>1. \A q \in Procs \ {p} : cur[q] # b
    BY <1>2 DEF Users
  <2> QED
    BY <1>0, <1>1, <1>2, <1>4, <2>1, SMTT(60) DEF DirtyIsPinned, TypeOK
<1> QED
  BY <1>3, <1>5, <1>6, <1>7, <1>8, <1>9, <1>10, InvHolds

\* bget() finds neither the block nor an unused buffer.
LEMMA PanicKeeps ==
  ASSUME Inv, NEW p \in Procs, NEW k \in Blocks, BgetPanic(p, k)
  PROVE  Inv'
<1>0. TypeOK /\ Linked /\ Counted /\ OneBuffer /\ Locked /\ PanicsFull /\ DirtyIsPinned
  BY InvParts DEF Inv
<1>1. \A b \in Bufs : b \in pinned \/ Users(b) # {}
  BY <1>0, NoneUnused, UnusedIsFree DEF BgetPanic
<1>2. TypeOK'
  BY <1>0 DEF TypeOK, BgetPanic
<1>3. Linked' /\ Counted' /\ OneBuffer'
  BY <1>0, LinkedStays, CountedStays, OneBufferStays DEF BgetPanic
<1>5. Locked' /\ DirtyIsPinned'
  BY <1>0, SMTT(60) DEF BgetPanic, Locked, DirtyIsPinned, Users, Owns
<1>4. PanicsFull'
  BY <1>1 DEF BgetPanic, PanicsFull, Users
<1> QED
  BY <1>2, <1>3, <1>4, <1>5, InvHolds

\* acquiresleep() finds the lock held, or is woken and looks again.
LEMMA SleepKeeps ==
  ASSUME Inv, NEW p \in Procs, AcquireSleep(p) \/ Kill(p)
  PROVE  Inv'
<1>0. TypeOK /\ Linked /\ Counted /\ OneBuffer /\ Locked /\ PanicsFull /\ DirtyIsPinned
  BY InvParts DEF Inv
<1>1. /\ UNCHANGED <<blockno, valid, refcnt, data, locked, lru, disk, pinned, cur, panicked>>
      /\ \A q \in Procs \ {p} : pc'[q] = pc[q]
      /\ pc'[p] \in {"locking", "asleep"} /\ pc[p] \in {"locking", "asleep"}
      /\ pc'[p] = "asleep" => locked[cur[p]] # None
      /\ pc' \in [Procs -> PCs]
  BY <1>0, ZenonT(60) DEF TypeOK, AcquireSleep, Kill
<1>2. TypeOK'
  BY <1>0, <1>1 DEF TypeOK
<1>3. Linked' /\ Counted' /\ OneBuffer' /\ PanicsFull'
  BY <1>0, <1>1, LinkedStays, CountedStays, OneBufferStays, PanicsFullStays
<1>4. Locked'
  BY <1>0, <1>1, SMTT(60) DEF Locked, Owns
<1>5. DirtyIsPinned'
  BY <1>0, <1>1 DEF DirtyIsPinned, Users
<1> QED
  BY <1>2, <1>3, <1>4, <1>5, InvHolds

\* acquiresleep() gets the lock.
LEMMA AcquireKeeps ==
  ASSUME Inv, NEW p \in Procs, Acquire(p)
  PROVE  Inv'
<1>0. TypeOK /\ Linked /\ Counted /\ OneBuffer /\ Locked /\ PanicsFull /\ DirtyIsPinned
  BY InvParts DEF Inv
<1>1. cur[p] \in Bufs
  BY <1>0 DEF TypeOK, Acquire
<1>2. TypeOK'
  BY <1>0, <1>1 DEF TypeOK, Acquire
<1>3. Linked' /\ Counted' /\ OneBuffer' /\ PanicsFull'
  BY <1>0, LinkedStays, CountedStays, OneBufferStays, PanicsFullStays DEF Acquire
<1>4. Locked'
  BY <1>0, <1>1, BcacheConstants, SMTT(60) DEF TypeOK, Locked, Owns, Acquire
<1>5. DirtyIsPinned'
  BY <1>0, <1>1, SMTT(60) DEF TypeOK, DirtyIsPinned, Users, Acquire
<1> QED
  BY <1>2, <1>3, <1>4, <1>5, InvHolds

\* bread() fills a buffer that is not valid.
LEMMA ReadKeeps ==
  ASSUME Inv, NEW p \in Procs, ReadBlock(p)
  PROVE  Inv'
<1>0. TypeOK /\ Linked /\ Counted /\ OneBuffer /\ Locked /\ PanicsFull /\ DirtyIsPinned
  BY InvParts DEF Inv
<1>1. cur[p] \in Bufs /\ blockno[cur[p]] \in Blocks
  BY <1>0, SMTT(60) DEF TypeOK, ReadBlock, DirtyIsPinned, Users
<1>2. TypeOK'
  BY <1>0, <1>1 DEF TypeOK, ReadBlock
<1>3. Linked' /\ Counted' /\ OneBuffer' /\ PanicsFull'
  BY <1>0, LinkedStays, CountedStays, OneBufferStays, PanicsFullStays DEF ReadBlock
<1>4. Locked'
  BY <1>0, <1>1, SMTT(60) DEF TypeOK, Locked, Owns, ReadBlock
<1>5. DirtyIsPinned'
  <2>1. \A q \in Procs \ {p} : pc[q] \in {"reading", "holding", "bunpin"} => cur[q] # cur[p]
    BY <1>0, <1>1, SMTT(60) DEF TypeOK, Locked, Owns, ReadBlock
  <2> QED
    BY <1>0, <1>1, <2>1 DEF TypeOK, DirtyIsPinned, Users, ReadBlock
<1> QED
  BY <1>2, <1>3, <1>4, <1>5, InvHolds

\* What the process with a buffer's lock knows.
LEMMA HolderKnows ==
  ASSUME TypeOK, Locked, DirtyIsPinned, NEW p \in Procs, pc[p] \in {"holding", "bunpin"}
  PROVE  /\ cur[p] \in Bufs /\ blockno[cur[p]] \in Blocks /\ valid[cur[p]] = 1
         /\ \A q \in Procs \ {p} :
              pc[q] \in {"reading", "holding", "bunpin"} => cur[q] # cur[p]
<1>1. cur[p] \in Bufs
  BY DEF TypeOK
<1>2. blockno[cur[p]] \in Blocks /\ valid[cur[p]] = 1
  BY <1>1 DEF TypeOK, DirtyIsPinned, Users
<1>3. \A q \in Procs \ {p} :
        pc[q] \in {"reading", "holding", "bunpin"} => cur[q] # cur[p]
  BY <1>1, SMTT(60) DEF TypeOK, Locked, Owns
<1> QED
  BY <1>1, <1>2, <1>3

\* bwrite() writes the buffer through.
LEMMA BwriteKeeps ==
  ASSUME Inv, NEW p \in Procs, NEW v \in Vals, Bwrite(p, v)
  PROVE  Inv'
<1>0. TypeOK /\ Linked /\ Counted /\ OneBuffer /\ Locked /\ PanicsFull /\ DirtyIsPinned
  BY InvParts DEF Inv
<1>1. /\ cur[p] \in Bufs /\ blockno[cur[p]] \in Blocks /\ valid[cur[p]] = 1
      /\ \A q \in Procs \ {p} :
           pc[q] \in {"reading", "holding", "bunpin"} => cur[q] # cur[p]
  BY <1>0, HolderKnows DEF Bwrite
<1>2. TypeOK'
  BY <1>0, <1>1 DEF TypeOK, Bwrite
<1>3. Linked' /\ Counted' /\ OneBuffer' /\ PanicsFull'
  BY <1>0, LinkedStays, CountedStays, OneBufferStays, PanicsFullStays DEF Bwrite
<1>4. Locked'
  BY <1>0, SMTT(60) DEF Locked, Owns, Bwrite
<1>5. DirtyIsPinned'
  <2>1. \A b \in Bufs \ {cur[p]} : blockno[b] # blockno[cur[p]]
    BY <1>0, <1>1, BcacheConstants DEF OneBuffer
  <2> QED
    BY <1>0, <1>1, <2>1, SMTT(60) DEF TypeOK, DirtyIsPinned, Users, Bwrite
<1> QED
  BY <1>2, <1>3, <1>4, <1>5, InvHolds

\* log_write() changes a buffer and pins it.
LEMMA LogWriteKeeps ==
  ASSUME Inv, NEW p \in Procs, NEW v \in Vals, LogWrite(p, v)
  PROVE  Inv'
<1>0. TypeOK /\ Linked /\ Counted /\ OneBuffer /\ Locked /\ PanicsFull /\ DirtyIsPinned
  BY InvParts DEF Inv
<1>1. /\ cur[p] \in Bufs /\ blockno[cur[p]] \in Blocks /\ valid[cur[p]] = 1
      /\ \A q \in Procs \ {p} :
           pc[q] \in {"reading", "holding", "bunpin"} => cur[q] # cur[p]
  BY <1>0, HolderKnows DEF LogWrite
<1>2. TypeOK'
  <2>1. refcnt' \in [Bufs -> Nat] /\ pinned' \in SUBSET Bufs /\ data' \in [Bufs -> Vals]
    BY <1>0, <1>1, SMTT(60) DEF TypeOK, LogWrite
  <2> QED
    BY <1>0, <2>1 DEF TypeOK, LogWrite
<1>3. Linked' /\ OneBuffer'
  BY <1>0, LinkedStays, OneBufferStays DEF LogWrite
<1>4. Counted'
  <2>1. \A b \in Bufs : Users(b)' = Users(b)
    BY DEF LogWrite, Users
  <2>2. \A b \in Bufs \ {cur[p]} : refcnt'[b] = refcnt[b] /\ Pins(b)' = Pins(b)
    BY <1>0, <1>1 DEF TypeOK, LogWrite, Pins
  <2>3. refcnt'[cur[p]] - refcnt[cur[p]] = IF cur[p] \in pinned THEN 0 ELSE 1
    BY <1>0, <1>1, SMTT(60) DEF TypeOK, LogWrite
  <2>4. cur[p] \in pinned'
    BY <1>0, <1>1 DEF TypeOK, LogWrite
  <2>5. refcnt'[cur[p]] = Cardinality(Users(cur[p])) + 1
    <3>1. refcnt[cur[p]] = Cardinality(Users(cur[p])) + Pins(cur[p])
      BY <1>0, <1>1 DEF Counted
    <3>2. refcnt'[cur[p]] \in Int /\ refcnt[cur[p]] \in Int
      BY <1>0, <1>1, <1>2, SMTT(60) DEF TypeOK
    <3> QED
      BY <2>3, <3>1, <3>2, UsersFinite, SMTT(60) DEF Pins
  <2>6. ASSUME NEW b \in Bufs PROVE refcnt'[b] = Cardinality(Users(b)) + Pins(b)'
    <3>1. CASE b = cur[p]
      BY <2>4, <2>5, <3>1 DEF Pins
    <3>2. CASE b # cur[p]
      BY <1>0, <2>2, <3>2 DEF Counted
    <3> QED
      BY <3>1, <3>2
  <2> QED
    BY <2>1, <2>6 DEF Counted
<1>5. Locked'
  BY <1>0 DEF Locked, Owns, LogWrite
<1>6. PanicsFull'
  BY SMTT(60) DEF LogWrite, PanicsFull
<1>7. DirtyIsPinned'
  BY <1>0, <1>1, SMTT(60) DEF TypeOK, DirtyIsPinned, Users, LogWrite
<1> QED
  BY <1>2, <1>3, <1>4, <1>5, <1>6, <1>7, InvHolds

\* install_trans() writes a logged block home.
LEMMA InstallKeeps ==
  ASSUME Inv, NEW p \in Procs, Install(p)
  PROVE  Inv'
<1>0. TypeOK /\ Linked /\ Counted /\ OneBuffer /\ Locked /\ PanicsFull /\ DirtyIsPinned
  BY InvParts DEF Inv
<1>1. /\ cur[p] \in Bufs /\ blockno[cur[p]] \in Blocks /\ valid[cur[p]] = 1
      /\ \A q \in Procs \ {p} :
           pc[q] \in {"reading", "holding", "bunpin"} => cur[q] # cur[p]
  BY <1>0, HolderKnows DEF Install
<1>2. TypeOK'
  BY <1>0, <1>1 DEF TypeOK, Install
<1>3. Linked' /\ Counted' /\ OneBuffer' /\ PanicsFull'
  BY <1>0, LinkedStays, CountedStays, OneBufferStays, PanicsFullStays DEF Install
<1>4. Locked'
  BY <1>0, <1>1, SMTT(60) DEF TypeOK, Locked, Owns, Install
<1>5. DirtyIsPinned'
  <2>1. \A b \in Bufs \ {cur[p]} : blockno[b] # blockno[cur[p]]
    BY <1>0, <1>1, BcacheConstants DEF OneBuffer
  <2> QED
    BY <1>0, <1>1, <2>1, SMTT(60) DEF TypeOK, DirtyIsPinned, Users, Install
<1> QED
  BY <1>2, <1>3, <1>4, <1>5, InvHolds

\* install_trans() unpins a block it has written home.
LEMMA BunpinKeeps ==
  ASSUME Inv, NEW p \in Procs, Bunpin(p)
  PROVE  Inv'
<1>0. TypeOK /\ Linked /\ Counted /\ OneBuffer /\ Locked /\ PanicsFull /\ DirtyIsPinned
  BY InvParts DEF Inv
<1>1. /\ cur[p] \in Bufs /\ blockno[cur[p]] \in Blocks /\ valid[cur[p]] = 1
      /\ \A q \in Procs \ {p} :
           pc[q] \in {"reading", "holding", "bunpin"} => cur[q] # cur[p]
  BY <1>0, HolderKnows DEF Bunpin
<1>2. cur[p] \in pinned /\ data[cur[p]] = disk[blockno[cur[p]]]
  BY <1>0 DEF DirtyIsPinned, Bunpin
<1>3. Counted'
  <2>1. \A b \in Bufs : Users(b)' = Users(b)
    BY DEF Bunpin, Users
  <2>2. \A b \in Bufs : refcnt'[b] = Cardinality(Users(b)) + Pins(b)'
    BY <1>0, <1>1, <1>2, UsersFinite, SMTT(60) DEF TypeOK, Bunpin, Counted, Pins
  <2> QED
    BY <2>1, <2>2 DEF Counted
<1>4. refcnt[cur[p]] - 1 \in Nat
  BY <1>0, <1>1, <1>2, UsersFinite, SMTT(60) DEF Counted, Pins
<1>5. TypeOK'
  BY <1>0, <1>1, <1>4 DEF TypeOK, Bunpin
<1>6. Linked' /\ OneBuffer'
  BY <1>0, LinkedStays, OneBufferStays DEF Bunpin
<1>7. Locked'
  BY <1>0, <1>1, SMTT(60) DEF TypeOK, Locked, Owns, Bunpin
<1>8. PanicsFull'
  BY SMTT(60) DEF Bunpin, PanicsFull
<1>9. DirtyIsPinned'
  BY <1>0, <1>1, <1>2 DEF TypeOK, DirtyIsPinned, Users, Bunpin
<1> QED
  BY <1>3, <1>5, <1>6, <1>7, <1>8, <1>9, InvHolds

\* releasesleep() gives the lock up and wakes who waits for it.
LEMMA ReleaseKeeps ==
  ASSUME Inv, NEW p \in Procs, ReleaseSleep(p)
  PROVE  Inv'
<1>0. TypeOK /\ Linked /\ Counted /\ OneBuffer /\ Locked /\ PanicsFull /\ DirtyIsPinned
  BY InvParts DEF Inv
<1>1. /\ cur[p] \in Bufs /\ blockno[cur[p]] \in Blocks /\ valid[cur[p]] = 1
      /\ \A q \in Procs \ {p} :
           pc[q] \in {"reading", "holding", "bunpin"} => cur[q] # cur[p]
  BY <1>0, HolderKnows DEF ReleaseSleep
<1>2. TypeOK'
  BY <1>0, <1>1 DEF TypeOK, ReleaseSleep
<1>3. Linked' /\ Counted' /\ OneBuffer' /\ PanicsFull'
  BY <1>0, LinkedStays, CountedStays, OneBufferStays, PanicsFullStays DEF ReleaseSleep
<1>4. Locked'
  BY <1>0, <1>1, BcacheConstants, SMTT(60) DEF TypeOK, Locked, Owns, ReleaseSleep
<1>5. DirtyIsPinned'
  BY <1>0, <1>1 DEF TypeOK, DirtyIsPinned, Users, ReleaseSleep
<1> QED
  BY <1>2, <1>3, <1>4, <1>5, InvHolds

\* brelse() drops the reference.
LEMMA UnrefKeeps ==
  ASSUME Inv, NEW p \in Procs, Unref(p)
  PROVE  Inv'
<1>0. TypeOK /\ Linked /\ Counted /\ OneBuffer /\ Locked /\ PanicsFull /\ DirtyIsPinned
  BY InvParts DEF Inv
<1>1. PICK b \in Bufs : cur[p] = b
  BY <1>0 DEF TypeOK, Unref
<1>2. /\ Cardinality(Users(b)') = Cardinality(Users(b)) - 1
      /\ p \in Users(b)
      /\ \A d \in Bufs \ {b} : Users(d)' = Users(d)
  BY <1>0, <1>1, UserGoes, ZenonT(60) DEF TypeOK, Unref
<1>3. refcnt[b] - 1 \in Nat
  <2>1. Cardinality(Users(b)) # 0
    BY <1>2, UsersFinite, FS_EmptySet
  <2> QED
    BY <1>0, <2>1, UsersFinite, SMTT(60) DEF Counted, Pins
<1>4. lru' \in Seq(Bufs) /\ Linked'
  BY <1>0, <1>1, MoveToFrontLinked, SMTT(60) DEF TypeOK, Unref, Linked
<1>5. TypeOK'
  BY <1>0, <1>1, <1>3, <1>4 DEF TypeOK, Unref, Bufs
<1>6. Counted'
  BY <1>0, <1>1, <1>2, UsersFinite, SMTT(60) DEF TypeOK, Counted, Unref, Pins
<1>7. OneBuffer'
  BY <1>0, OneBufferStays DEF Unref
<1>8. Locked'
  BY <1>0, <1>1, SMTT(60) DEF TypeOK, Locked, Owns, Unref
<1>9. PanicsFull'
  BY SMTT(60) DEF Unref, PanicsFull
<1>10. DirtyIsPinned'
  <2>1. \A d \in Bufs : Users(d)' # {} => Users(d) # {}
    BY <1>2
  <2> QED
    BY <1>0, <1>1, <2>1, ZenonT(60) DEF TypeOK, DirtyIsPinned, Unref
<1> QED
  BY <1>4, <1>5, <1>6, <1>7, <1>8, <1>9, <1>10, InvHolds

-----------------------------------------------------------------------------
\* binit() establishes the invariant.
LEMMA InitInv == Init => Inv
<1> SUFFICES ASSUME Init PROVE Inv
  OBVIOUS
<1>1. TypeOK
  <2>1. lru \in Seq(Bufs)
    <3>1. lru \in [1 .. NBUF -> Bufs] /\ NBUF \in Nat
      BY BcacheConstants, SMTT(60) DEF Init, Bufs
    <3> QED
      BY <3>1, SMTT(60)
  <2> QED
    BY <2>1 DEF Init, TypeOK, Bufs
<1>2. Linked
  <2>1. Len(lru) = NBUF /\ NBUF \in Nat
    BY BcacheConstants, SMTT(60) DEF Init, Bufs
  <2>2. \A b \in Bufs : NBUF + 1 - b \in 1 .. NBUF /\ lru[NBUF + 1 - b] = b
    BY BcacheConstants, SMTT(60) DEF Init, Bufs
  <2> QED
    BY <2>1, <2>2 DEF Linked
<1>3. \A b \in Bufs : Users(b) = {}
  BY SMTT(60) DEF Init, Users, Bufs
<1>4. Counted
  BY <1>3, FS_EmptySet, SMTT(60) DEF Init, Counted, Pins
<1>5. OneBuffer /\ Locked /\ PanicsFull
  BY BcacheConstants, SMTT(60) DEF Init, OneBuffer, Locked, PanicsFull, Owns
<1>6. DirtyIsPinned
  BY <1>3, SMTT(60) DEF Init, DirtyIsPinned
<1> QED
  BY <1>1, <1>2, <1>4, <1>5, <1>6, InvParts DEF Inv

\* Every step of the cache keeps the invariant.
LEMMA NextInv == Inv /\ [Next]_vars => Inv'
<1> SUFFICES ASSUME Inv, [Next]_vars PROVE Inv'
  OBVIOUS
<1>1. CASE UNCHANGED vars
  <2>1. TypeOK /\ Linked /\ Counted /\ OneBuffer /\ Locked /\ PanicsFull /\ DirtyIsPinned
    BY InvParts DEF Inv
  <2>2. Linked' /\ Counted' /\ OneBuffer' /\ PanicsFull'
    BY <1>1, <2>1, LinkedStays, CountedStays, OneBufferStays, PanicsFullStays DEF vars
  <2>3. TypeOK' /\ Locked' /\ DirtyIsPinned'
    BY <1>1, <2>1, SMTT(60) DEF vars, TypeOK, Locked, DirtyIsPinned, Owns, Users
  <2> QED
    BY <2>2, <2>3, InvHolds
<1>2. ASSUME NEW p \in Procs, NEW k \in Blocks,
             BgetHit(p, k) \/ BgetMiss(p, k) \/ BgetPanic(p, k)
      PROVE  Inv'
  BY <1>2, HitKeeps, MissKeeps, PanicKeeps
<1>3. ASSUME NEW p \in Procs, AcquireSleep(p) \/ Kill(p) \/ Acquire(p) \/ ReadBlock(p)
      PROVE  Inv'
  BY <1>3, SleepKeeps, AcquireKeeps, ReadKeeps
<1>4. ASSUME NEW p \in Procs, NEW v \in Vals, Bwrite(p, v) \/ LogWrite(p, v)
      PROVE  Inv'
  BY <1>4, BwriteKeeps, LogWriteKeeps
<1>5. ASSUME NEW p \in Procs, Install(p) \/ Bunpin(p) \/ ReleaseSleep(p) \/ Unref(p)
      PROVE  Inv'
  BY <1>5, InstallKeeps, BunpinKeeps, ReleaseKeeps, UnrefKeeps
<1> QED
  BY <1>1, <1>2, <1>3, <1>4, <1>5 DEF Next

(* The reference counts, the sleep-locks and the list of buffers stay      *)
(* exact, whatever number of processes share whatever number of buffers.   *)
THEOREM BcacheExact == Spec => []BuffersExact
<1>1. Inv => BuffersExact
  BY DEF Inv
<1> QED
  BY <1>1, InitInv, NextInv, PTL DEF Spec

(* No change to a buffer is lost: one that differs from the disk is pinned *)
(* until it has been written home.                                         *)
THEOREM BcacheKeepsDirty == Spec => []DirtyIsPinned
<1>1. Inv => DirtyIsPinned
  BY DEF Inv
<1> QED
  BY <1>1, InitInv, NextInv, PTL DEF Spec

-----------------------------------------------------------------------------
(* What the mapped variables are.                                          *)

con == [k \in Blocks |-> Content(k)]
own == [k \in Blocks |-> IF \E p \in Procs : Holds(p, k)
                         THEN CHOOSE p \in Procs : Holds(p, k) ELSE None]

\* A block's content is in its valid buffer, or on the disk if it has none;
\* its owner is the one process that has its buffer, if there is one.
Mapped ==
  /\ con \in [Blocks -> Vals]
  /\ own \in [Blocks -> Procs \union {None}]
  /\ \A b \in Bufs : valid[b] = 1 => con[blockno[b]] = data[b]
  /\ \A k \in Blocks : (\A b \in Bufs : blockno[b] = k => valid[b] = 0) => con[k] = disk[k]
  /\ \A p \in Procs, k \in Blocks : Holds(p, k) <=> own[k] = p

LEMMA MappedHolds == Inv => Mapped
<1> SUFFICES ASSUME Inv PROVE Mapped
  OBVIOUS
<1>0. TypeOK /\ OneBuffer /\ Locked /\ DirtyIsPinned
  BY InvParts DEF Inv
<1>1. ASSUME NEW k \in Blocks, NEW b \in Bufs, blockno[b] = k, valid[b] = 1
      PROVE  Content(k) = data[b]
  <2> DEFINE bs == {d \in Bufs : blockno[d] = k /\ valid[d] = 1}
  <2>1. bs = {b}
    BY <1>0, <1>1, BcacheConstants DEF OneBuffer
  <2>2. (CHOOSE d \in bs : TRUE) = b /\ bs # {}
    BY <2>1
  <2> QED
    BY <2>2, ZenonT(60) DEF Content
<1>2. ASSUME NEW k \in Blocks, \A b \in Bufs : blockno[b] = k => valid[b] = 0
      PROVE  Content(k) = disk[k]
  <2>1. {d \in Bufs : blockno[d] = k /\ valid[d] = 1} = {}
    BY <1>2, SMTT(60)
  <2> QED
    BY <2>1 DEF Content
<1>3. con \in [Blocks -> Vals]
  <2>1. ASSUME NEW k \in Blocks PROVE Content(k) \in Vals
    <3>1. CASE \E b \in Bufs : blockno[b] = k /\ valid[b] = 1
      BY <1>0, <1>1, <3>1, SMTT(60) DEF TypeOK
    <3>2. CASE \A b \in Bufs : blockno[b] = k => valid[b] = 0
      <4>1. Content(k) = disk[k]
        BY <1>2, <3>2
      <4> QED
        BY <1>0, <4>1, SMTT(60) DEF TypeOK
    <3> QED
      BY <1>0, <3>1, <3>2 DEF TypeOK
  <2> QED
    BY <2>1 DEF con
<1>4. \A b \in Bufs : valid[b] = 1 => con[blockno[b]] = data[b]
  <2>1. \A b \in Bufs : valid[b] = 1 => blockno[b] \in Blocks
    BY <1>0, SMTT(60) DEF TypeOK, DirtyIsPinned
  <2> QED
    BY <1>1, <2>1 DEF con
<1>5. \A k \in Blocks : (\A b \in Bufs : blockno[b] = k => valid[b] = 0) => con[k] = disk[k]
  BY <1>2 DEF con
<1>6. ASSUME NEW p \in Procs, NEW q \in Procs, NEW k \in Blocks, Holds(p, k), Holds(q, k)
      PROVE  p = q
  <2>1. cur[p] \in Bufs /\ cur[q] \in Bufs /\ cur[p] = cur[q]
    BY <1>0, <1>6, BcacheConstants, SMTT(60) DEF TypeOK, OneBuffer, Holds
  <2> QED
    BY <1>0, <1>6, <2>1, SMTT(60) DEF Locked, Owns, Holds
<1>7. ASSUME NEW k \in Blocks
      PROVE  /\ own[k] \in Procs \union {None}
             /\ \A p \in Procs : Holds(p, k) <=> own[k] = p
  <2>1. CASE \E p \in Procs : Holds(p, k)
    <3>1. own[k] = CHOOSE p \in Procs : Holds(p, k)
      BY <2>1 DEF own
    <3>2. own[k] \in Procs /\ Holds(own[k], k)
      BY <2>1, <3>1
    <3> QED
      BY <1>6, <3>2
  <2>2. CASE ~\E p \in Procs : Holds(p, k)
    BY <2>2, BcacheConstants DEF own
  <2> QED
    BY <2>1, <2>2
<1>8. own \in [Blocks -> Procs \union {None}]
  BY <1>7 DEF own
<1> QED
  BY <1>3, <1>4, <1>5, <1>7, <1>8 DEF Mapped

LEMMA MappedNext == Inv' => Mapped'
BY MappedHolds, PTL

\* A step that changes no content and no holder is invisible.
LEMMA Invisible ==
  ASSUME Mapped, Mapped',
         \A k \in Blocks : con'[k] = con[k],
         \A p \in Procs, k \in Blocks : Holds(p, k)' <=> Holds(p, k)
  PROVE  UNCHANGED BS!vars
<1>1. con' = con
  BY SMTT(60) DEF Mapped
<1>2. own' = own
  BY BcacheConstants, SMTT(60) DEF Mapped
<1> QED
  BY <1>1, <1>2 DEF BS!vars, con, own

\* Recycling a buffer loses nothing: it equals the disk.
LEMMA MissInvisible ==
  ASSUME Inv, Inv', Mapped, Mapped', NEW p \in Procs, NEW k \in Blocks, BgetMiss(p, k)
  PROVE  UNCHANGED BS!vars
<1>0. TypeOK /\ Linked /\ Counted /\ OneBuffer /\ Locked /\ DirtyIsPinned
  BY InvParts DEF Inv
<1>b. PICK b \in Bufs : /\ LeastRecent(b)
                       /\ blockno' = [blockno EXCEPT ![b] = k]
                       /\ valid' = [valid EXCEPT ![b] = 0]
                       /\ refcnt' = [refcnt EXCEPT ![b] = 1]
                       /\ cur' = [cur EXCEPT ![p] = b]
  BY ZenonT(60) DEF BgetMiss
<1>c. \A d \in Bufs : blockno[d] # k
  <2>1. Cached(k) = {}
    BY DEF BgetMiss
  <2> QED
    BY <2>1 DEF Cached
<1>1. /\ refcnt[b] = 0
      /\ pc[p] = "idle" /\ \A d \in Bufs : blockno[d] # k
      /\ blockno' = [blockno EXCEPT ![b] = k]
      /\ valid' = [valid EXCEPT ![b] = 0]
      /\ cur' = [cur EXCEPT ![p] = b]
      /\ pc' = [pc EXCEPT ![p] = "locking"]
      /\ UNCHANGED <<data, disk>>
  BY <1>b, <1>c, LeastRecentUnused, ZenonT(60) DEF BgetMiss
<1>2. b \notin pinned /\ \A q \in Procs : cur[q] # b
  BY <1>0, <1>1, UnusedIsFree DEF Users
<1>3. ASSUME NEW c \in Blocks PROVE con'[c] = con[c]
  <2>1. CASE c = k
    BY <1>0, <1>1, <2>1, ZenonT(60) DEF TypeOK, Mapped
  <2>2. CASE c # k /\ blockno[b] = c /\ valid[b] = 1
    <3>1. con[c] = data[b] /\ data[b] = disk[c]
      BY <1>0, <1>2, <2>2 DEF Mapped, DirtyIsPinned
    <3>2. \A d \in Bufs : blockno'[d] = c => valid'[d] = 0
      BY <1>0, <1>1, <2>2, BcacheConstants DEF TypeOK, OneBuffer
    <3>3. con'[c] = disk'[c]
      BY <3>2, ZenonT(60) DEF Mapped
    <3> QED
      BY <1>1, <3>1, <3>3
  <2>3. CASE c # k /\ ~(blockno[b] = c /\ valid[b] = 1)
    <3>1. \A d \in Bufs : blockno'[d] = c /\ valid'[d] = 1 <=> blockno[d] = c /\ valid[d] = 1
      BY <1>0, <1>1, <2>3 DEF TypeOK
    <3>2. CASE \E d \in Bufs : blockno[d] = c /\ valid[d] = 1
      BY <1>1, <3>1, <3>2, SMTT(60) DEF Mapped
    <3>3. CASE \A d \in Bufs : ~(blockno[d] = c /\ valid[d] = 1)
      <4>1. con[c] = disk[c]
        BY <1>0, <3>3, SMTT(60) DEF Mapped, TypeOK
      <4>2. \A d \in Bufs : valid'[d] \in {0, 1}
        BY InvParts, <1>0, <1>1 DEF TypeOK
      <4>3. con'[c] = disk'[c]
        BY <3>1, <3>3, <4>2 DEF Mapped
      <4> QED
        BY <1>1, <4>1, <4>3
    <3> QED
      BY <3>2, <3>3
  <2> QED
    BY <2>1, <2>2, <2>3
<1>4. \A q \in Procs, c \in Blocks : Holds(q, c)' <=> Holds(q, c)
  BY <1>0, <1>1, <1>2 DEF TypeOK, Holds
<1> QED
  BY <1>3, <1>4, Invisible

\* A step that leaves buffers and disk alone leaves the contents alone.
LEMMA SameContents ==
  ASSUME TypeOK, Mapped, Mapped', UNCHANGED <<blockno, valid, data, disk>>, NEW k \in Blocks
  PROVE  con'[k] = con[k]
<1>1. CASE \E b \in Bufs : blockno[b] = k /\ valid[b] = 1
  BY <1>1, SMTT(60) DEF Mapped
<1>2. CASE \A b \in Bufs : blockno[b] = k => valid[b] = 0
  <2>1. con[k] = disk[k]
    BY <1>2 DEF Mapped
  <2>2. con'[k] = disk'[k]
    BY <1>2 DEF Mapped
  <2> QED
    BY <2>1, <2>2
<1> QED
  BY <1>1, <1>2 DEF TypeOK

\* bread() returns the block to a process when no other has it.
LEMMA GetsBlock ==
  ASSUME Mapped, Mapped', NEW p \in Procs, NEW k \in Blocks,
         \A c \in Blocks : con'[c] = con[c],
         \A q \in Procs : ~Holds(q, k),
         \A q \in Procs, c \in Blocks : Holds(q, c)' <=> Holds(q, c) \/ (q = p /\ c = k)
  PROVE  BS!Acquire(p, k)
<1>1. con' = con
  BY SMTT(60) DEF Mapped
<1>2. own[k] = None
  BY SMTT(60) DEF Mapped
<1>3. own' = [own EXCEPT ![k] = p]
  BY BcacheConstants, SMTT(60) DEF Mapped
<1> QED
  BY <1>1, <1>2, <1>3 DEF BS!Acquire, con, own

\* A holder changes its block.
LEMMA WritesBlock ==
  ASSUME Mapped, Mapped', NEW p \in Procs, NEW k \in Blocks, NEW v \in Vals, Holds(p, k),
         con'[k] = v, \A c \in Blocks \ {k} : con'[c] = con[c],
         \A q \in Procs, c \in Blocks : Holds(q, c)' <=> Holds(q, c)
  PROVE  BS!Write(p, k, v)
<1>1. con' = [con EXCEPT ![k] = v]
  BY DEF Mapped
<1>2. own[k] = p
  BY DEF Mapped
<1>3. own' = own
  BY BcacheConstants, SMTT(60) DEF Mapped
<1> QED
  BY <1>1, <1>2, <1>3 DEF BS!Write, con, own

\* brelse() gives the block up.
LEMMA ReleasesBlock ==
  ASSUME Mapped, Mapped', NEW p \in Procs, NEW k \in Blocks, Holds(p, k),
         \A c \in Blocks : con'[c] = con[c],
         \A q \in Procs, c \in Blocks : Holds(q, c)' <=> Holds(q, c) /\ ~(q = p /\ c = k)
  PROVE  BS!Release(p, k)
<1>1. con' = con
  BY SMTT(60) DEF Mapped
<1>2. own[k] = p
  BY DEF Mapped
<1>3. own' = [own EXCEPT ![k] = None]
  BY BcacheConstants, SMTT(60) DEF Mapped
<1> QED
  BY <1>1, <1>2, <1>3 DEF BS!Release, con, own

\* bget()'s other outcomes, waiting for a lock, and the reference counts.
LEMMA QuietSteps ==
  ASSUME Inv, Inv', Mapped, Mapped', NEW p \in Procs,
         \/ \E k \in Blocks : BgetHit(p, k) \/ BgetPanic(p, k)
         \/ AcquireSleep(p) \/ Kill(p) \/ Bunpin(p) \/ Unref(p)
  PROVE  UNCHANGED BS!vars
<1>0. TypeOK
  BY InvParts DEF Inv
<1>1. UNCHANGED <<blockno, valid, data, disk>>
  BY DEF BgetHit, BgetPanic, AcquireSleep, Kill, Bunpin, Unref
<1>2. /\ \A q \in Procs \ {p} : pc'[q] = pc[q] /\ cur'[q] = cur[q]
      /\ \/ pc'[p] = pc[p] /\ cur'[p] = cur[p]
         \/ {pc[p], pc'[p]} \intersect {"holding", "bunpin"} = {}
         \/ pc[p] = "bunpin" /\ pc'[p] = "holding" /\ cur'[p] = cur[p]
  BY <1>0 DEF TypeOK, BgetHit, BgetPanic, AcquireSleep, Kill, Bunpin, Unref
<1>3. \A q \in Procs, k \in Blocks : Holds(q, k)' <=> Holds(q, k)
  BY <1>1, <1>2, ZenonT(60) DEF Holds
<1> QED
  BY <1>0, <1>1, <1>3, SameContents, Invisible

\* A process that gets a lock has the block, if it need not read it first.
LEMMA AcquireRefines ==
  ASSUME Inv, Inv', Mapped, Mapped', NEW p \in Procs, Acquire(p)
  PROVE  UNCHANGED BS!vars \/ \E k \in Blocks : BS!Acquire(p, k)
<1>0. TypeOK /\ OneBuffer /\ Locked /\ DirtyIsPinned
  BY InvParts DEF Inv
<1>1. cur[p] \in Bufs /\ blockno[cur[p]] \in Blocks
  BY <1>0, SMTT(60) DEF TypeOK, Acquire, DirtyIsPinned, Users
<1>2. \A k \in Blocks : con'[k] = con[k]
  BY <1>0, SameContents DEF Acquire
<1>3. CASE valid[cur[p]] = 1
  <2>1. PICK k \in Blocks : k = blockno[cur[p]]
    BY <1>1
  <2>2. ASSUME NEW q \in Procs, Holds(q, k) PROVE FALSE
    <3>1. cur[q] \in Bufs /\ cur[q] = cur[p]
      BY <1>0, <1>1, <2>1, <2>2, BcacheConstants, SMTT(60) DEF TypeOK, OneBuffer,
           Holds
    <3> QED
      BY <1>0, <2>2, <3>1, BcacheConstants, SMTT(60) DEF Locked, Owns, Holds, Acquire
  <2>3. \A q \in Procs, c \in Blocks : Holds(q, c)' <=> Holds(q, c) \/ (q = p /\ c = k)
    BY <1>0, <1>3, <2>1 DEF TypeOK, Acquire, Holds
  <2> QED
    BY <1>2, <2>2, <2>3, GetsBlock
<1>4. CASE valid[cur[p]] # 1
  <2>1. \A q \in Procs, c \in Blocks : Holds(q, c)' <=> Holds(q, c)
    BY <1>0, <1>4 DEF TypeOK, Acquire, Holds
  <2> QED
    BY <1>2, <2>1, Invisible
<1> QED
  BY <1>3, <1>4

\* What bread() reads from the disk is what the block held.
LEMMA ReadRefines ==
  ASSUME Inv, Inv', Mapped, Mapped', NEW p \in Procs, ReadBlock(p)
  PROVE  \E k \in Blocks : BS!Acquire(p, k)
<1>0. TypeOK /\ OneBuffer /\ Locked /\ DirtyIsPinned
  BY InvParts DEF Inv
<1>1. PICK b \in Bufs, k \in Blocks : b = cur[p] /\ k = blockno[b]
  BY <1>0, SMTT(60) DEF TypeOK, ReadBlock, DirtyIsPinned, Users
<1>2. /\ valid[b] = 0 /\ valid' = [valid EXCEPT ![b] = 1]
      /\ data' = [data EXCEPT ![b] = disk[k]]
      /\ pc' = [pc EXCEPT ![p] = "holding"] /\ pc[p] = "reading"
      /\ UNCHANGED <<blockno, disk, cur>>
  BY <1>0, <1>1 DEF ReadBlock, DirtyIsPinned
<1>3. \A d \in Bufs \ {b} : blockno[d] # k
  BY <1>0, <1>1, BcacheConstants DEF OneBuffer
<1>4. ASSUME NEW c \in Blocks PROVE con'[c] = con[c]
  <2>1. CASE c = k
    <3>1. con[k] = disk[k]
      BY <1>2, <1>3 DEF Mapped
    <3>2. con'[k] = data'[b]
      BY <1>0, <1>1, <1>2 DEF Mapped, TypeOK
    <3> QED
      BY <1>0, <1>2, <2>1, <3>1, <3>2 DEF TypeOK
  <2>2. CASE c # k
    <3>1. \A d \in Bufs : blockno[d] = c => valid'[d] = valid[d] /\ data'[d] = data[d]
      BY <1>0, <1>1, <1>2, <2>2 DEF TypeOK
    <3>2. CASE \E d \in Bufs : blockno[d] = c /\ valid[d] = 1
      BY <1>2, <3>1, <3>2, SMTT(60) DEF Mapped
    <3>3. CASE \A d \in Bufs : blockno[d] = c => valid[d] = 0
      <4>1. con[c] = disk[c]
        BY <3>3, ZenonT(60) DEF Mapped
      <4>2. con'[c] = disk'[c]
        BY <1>2, <3>1, <3>3, SMTT(60) DEF Mapped
      <4> QED
        BY <1>2, <4>1, <4>2
    <3> QED
      BY <1>0, <3>2, <3>3 DEF TypeOK
  <2> QED
    BY <2>1, <2>2
<1>5. ASSUME NEW q \in Procs, Holds(q, k) PROVE FALSE
  <2>1. cur[q] \in Bufs /\ cur[q] = b
    BY <1>0, <1>3, <1>5 DEF TypeOK, Holds
  <2>2. pc[q] \in {"holding", "bunpin"} /\ q # p
    BY <1>2, <1>5 DEF Holds
  <2> QED
    BY <1>0, <1>1, <1>2, <2>1, <2>2, SMTT(60) DEF Locked, Owns
<1>6. \A q \in Procs, c \in Blocks : Holds(q, c)' <=> Holds(q, c) \/ (q = p /\ c = k)
  BY <1>0, <1>1, <1>2 DEF TypeOK, Holds
<1> QED
  BY <1>4, <1>5, <1>6, GetsBlock

\* A holder's write changes its block and no other, on disk or pinned.
LEMMA WriteRefines ==
  ASSUME Inv, Inv', Mapped, Mapped', NEW p \in Procs, NEW v \in Vals,
         Bwrite(p, v) \/ LogWrite(p, v)
  PROVE  \E k \in Blocks : BS!Write(p, k, v)
<1>0. TypeOK /\ OneBuffer /\ Locked /\ DirtyIsPinned
  BY InvParts DEF Inv
<1>1. PICK b \in Bufs, k \in Blocks : b = cur[p] /\ k = blockno[b] /\ valid[b] = 1
  BY <1>0, HolderKnows DEF Bwrite, LogWrite
<1>2. /\ pc[p] = "holding" /\ data' = [data EXCEPT ![b] = v]
      /\ \A c \in Blocks \ {k} : disk'[c] = disk[c]
      /\ UNCHANGED <<blockno, valid, pc, cur>>
  BY <1>0, <1>1 DEF TypeOK, Bwrite, LogWrite
<1>3. con'[k] = v
  BY <1>0, <1>1, <1>2 DEF TypeOK, Mapped
<1>4. ASSUME NEW c \in Blocks \ {k} PROVE con'[c] = con[c]
  <2>1. \A d \in Bufs : blockno[d] = c => data'[d] = data[d]
    BY <1>0, <1>1, <1>2 DEF TypeOK
  <2>2. CASE \E d \in Bufs : blockno[d] = c /\ valid[d] = 1
    BY <1>2, <2>1, <2>2, SMTT(60) DEF Mapped
  <2>3. CASE \A d \in Bufs : blockno[d] = c => valid[d] = 0
    <3>1. con[c] = disk[c]
      BY <2>3 DEF Mapped
    <3>2. con'[c] = disk'[c]
      BY <1>2, <2>3 DEF Mapped
    <3> QED
      BY <1>2, <3>1, <3>2
  <2> QED
    BY <1>0, <2>2, <2>3 DEF TypeOK
<1>5. \A q \in Procs, c \in Blocks : Holds(q, c)' <=> Holds(q, c)
  BY <1>2 DEF Holds
<1>6. Holds(p, k)
  BY <1>1, <1>2 DEF Holds
<1> QED
  BY <1>3, <1>4, <1>5, <1>6, WritesBlock

\* Writing a pinned buffer home changes no content.
LEMMA InstallInvisible ==
  ASSUME Inv, Inv', Mapped, Mapped', NEW p \in Procs, Install(p)
  PROVE  UNCHANGED BS!vars
<1>0. TypeOK /\ OneBuffer /\ Locked /\ DirtyIsPinned
  BY InvParts DEF Inv
<1>1. PICK b \in Bufs, k \in Blocks : b = cur[p] /\ k = blockno[b] /\ valid[b] = 1
  BY <1>0, HolderKnows DEF Install
<1>2. /\ pc[p] = "holding" /\ pc' = [pc EXCEPT ![p] = "bunpin"]
      /\ \A c \in Blocks \ {k} : disk'[c] = disk[c]
      /\ UNCHANGED <<blockno, valid, data, cur>>
  BY <1>0, <1>1 DEF TypeOK, Install
<1>3. ASSUME NEW c \in Blocks PROVE con'[c] = con[c]
  <2>1. CASE \E d \in Bufs : blockno[d] = c /\ valid[d] = 1
    BY <1>2, <2>1, SMTT(60) DEF Mapped
  <2>2. CASE \A d \in Bufs : blockno[d] = c => valid[d] = 0
    <3>1. con[c] = disk[c]
      BY <2>2 DEF Mapped
    <3>2. con'[c] = disk'[c]
      BY <1>2, <2>2, ZenonT(60) DEF Mapped
    <3>3. c # k
      BY <1>1, <2>2, SMTT(60)
    <3> QED
      BY <1>2, <3>1, <3>2, <3>3
  <2> QED
    BY <1>0, <2>1, <2>2 DEF TypeOK
<1>4. \A q \in Procs, c \in Blocks : Holds(q, c)' <=> Holds(q, c)
  BY <1>0, <1>2 DEF TypeOK, Holds
<1> QED
  BY <1>3, <1>4, Invisible

\* releasesleep() ends the process's ownership.
LEMMA ReleaseRefines ==
  ASSUME Inv, Inv', Mapped, Mapped', NEW p \in Procs, ReleaseSleep(p)
  PROVE  \E k \in Blocks : BS!Release(p, k)
<1>0. TypeOK /\ OneBuffer /\ Locked /\ DirtyIsPinned
  BY InvParts DEF Inv
<1>1. PICK b \in Bufs, k \in Blocks : b = cur[p] /\ k = blockno[b]
  BY <1>0, HolderKnows DEF ReleaseSleep
<1>2. \A c \in Blocks : con'[c] = con[c]
  BY <1>0, SameContents DEF ReleaseSleep
<1>3. Holds(p, k)
  BY <1>1 DEF ReleaseSleep, Holds
<1>4. \A q \in Procs, c \in Blocks : Holds(q, c)' <=> Holds(q, c) /\ ~(q = p /\ c = k)
  <2>1. /\ pc'[p] = "unref"
        /\ \A q \in Procs \ {p} : pc'[q] = pc[q] \/ (pc[q] = "asleep" /\ pc'[q] = "locking")
        /\ UNCHANGED <<blockno, cur>>
    BY DEF ReleaseSleep
  <2> QED
    BY <1>1, <1>3, <2>1 DEF Holds
<1> QED
  BY <1>2, <1>3, <1>4, ReleasesBlock

\* Every step of the cache is a step of BlockStore, or invisible.
LEMMA StepRefines == Inv /\ Inv' /\ [Next]_vars => [BS!Next]_(BS!vars)
<1> SUFFICES ASSUME Inv, Inv', [Next]_vars PROVE [BS!Next]_(BS!vars)
  OBVIOUS
<1>0. Mapped /\ Mapped'
  BY MappedHolds, MappedNext
<1>1. CASE UNCHANGED vars
  BY <1>1, SMTT(60) DEF vars, BS!vars, Content, Holds
<1>2. ASSUME NEW p \in Procs, NEW k \in Blocks, BgetHit(p, k) \/ BgetMiss(p, k) \/ BgetPanic(p, k)
      PROVE  UNCHANGED BS!vars
  BY <1>0, <1>2, QuietSteps, MissInvisible
<1>3. ASSUME NEW p \in Procs,
             AcquireSleep(p) \/ Kill(p) \/ Bunpin(p) \/ Unref(p) \/ Install(p)
      PROVE  UNCHANGED BS!vars
  BY <1>0, <1>3, QuietSteps, InstallInvisible
<1>4. ASSUME NEW p \in Procs, Acquire(p) \/ ReadBlock(p) \/ ReleaseSleep(p)
      PROVE  UNCHANGED BS!vars \/ \E k \in Blocks : BS!Acquire(p, k) \/ BS!Release(p, k)
  BY <1>0, <1>4, AcquireRefines, ReadRefines, ReleaseRefines
<1>5. ASSUME NEW p \in Procs, NEW v \in Vals, Bwrite(p, v) \/ LogWrite(p, v)
      PROVE  \E k \in Blocks : BS!Write(p, k, v)
  BY <1>0, <1>5, WriteRefines
<1>6. CASE Next
  <2>1. PICK p \in Procs :
          \/ \E k \in Blocks : BgetHit(p, k) \/ BgetMiss(p, k) \/ BgetPanic(p, k)
          \/ AcquireSleep(p) \/ Kill(p) \/ Acquire(p) \/ ReadBlock(p)
          \/ \E v \in Vals : Bwrite(p, v) \/ LogWrite(p, v)
          \/ Install(p) \/ Bunpin(p)
          \/ ReleaseSleep(p) \/ Unref(p)
    BY <1>6 DEF Next
  <2>2. \/ UNCHANGED BS!vars
        \/ \E k \in Blocks : BS!Acquire(p, k) \/ BS!Release(p, k)
        \/ \E k \in Blocks, v \in Vals : BS!Write(p, k, v)
    BY <2>1, <1>2, <1>3, <1>4, <1>5, ZenonT(60)
  <2> QED
    BY <2>2, ZenonT(60) DEF BS!Next
<1> QED
  BY <1>1, <1>6

(* The buffer cache is invisible to its callers: for any number of         *)
(* processes, buffers and blocks it behaves as a store of blocks that one  *)
(* process at a time has, and only a holder's writes change a block        *)
(* (bread, bwrite, brelse and the log's pins implement BlockStore).        *)
THEOREM BcacheImplementsBlockStore == Spec => ImplementsBlockStore
<1>1. Init => BS!Init
  <2> SUFFICES ASSUME Init PROVE BS!Init
    OBVIOUS
  <2>1. Mapped
    BY InitInv, MappedHolds
  <2>2. con \in [Blocks -> Vals]
    BY <2>1 DEF Mapped
  <2>3. own = [k \in Blocks |-> None]
    BY DEF Init, own, Holds
  <2> QED
    BY <2>2, <2>3 DEF BS!Init, con, own
<1>2. Spec => []Inv
  BY InitInv, NextInv, PTL DEF Spec
<1> QED
  BY <1>1, <1>2, StepRefines, PTL DEF Spec, ImplementsBlockStore, BS!Spec
=============================================================================
