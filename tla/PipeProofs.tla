----------------------------- MODULE PipeProofs -----------------------------
(***************************************************************************)
(* The inductive invariant of Pipe, the proof that nobody sleeps on a pipe *)
(* who could go on, and the proof that a pipe is a bounded queue, for any  *)
(* number of writers and readers and any size.                             *)
(***************************************************************************)
EXTENDS Pipe, TLAPS

INSTANCE Rings WITH Size <- PIPESIZE, Modulus <- UINT

WriteOnly == {"w_lock", "w_test", "w_body", "w_asleep"}
ReadOnly == {"r_lock", "r_test", "r_wait", "r_copy", "r_asleep"}
Locked == {"w_test", "w_body", "r_test", "r_wait", "r_copy"}
Left == {"closing", "gone"}

\* A process calls on its own end of the pipe only, with pi->lock where the
\* code holds it.
Calls ==
  /\ \A p \in Writers : pc[p] \notin ReadOnly
  /\ \A p \in Readers : pc[p] \notin WriteOnly
  /\ \A p \in Procs : lock = p <=> pc[p] \in Locked

\* An end is open as long as a process has it, and the last to leave closes it.
Open ==
  /\ \A p \in Procs : p \in ends <=> pc[p] \notin Left
  /\ \A p, o \in Writers : pc[p] = "closing" /\ o # p => pc[o] = "gone"
  /\ \A p, o \in Readers : pc[p] = "closing" /\ o # p => pc[o] = "gone"
  /\ \A p \in Writers : pc[p] # "gone" => writeopen = 1
  /\ \A p \in Readers : pc[p] # "gone" => readopen = 1
  /\ freed = 1 => readopen = 0 /\ writeopen = 0

\* What the holder of pi->lock has tested still holds.
Tested ==
  /\ \A p \in Procs : pc[p] = "w_body" => readopen = 1 /\ i[p] < n[p]
  /\ \A p \in Procs : pc[p] = "r_wait" => Empty /\ writeopen = 1

\* A sleeper has nothing to do, or somebody with the lock will wake it, or is
\* a writer that was killed.
Sleeping ==
  /\ \A p \in Procs : pc[p] = "w_asleep" =>
       readopen = 1 /\ (Full \/ \E r \in Readers : pc[r] = "r_copy")
  /\ \A p \in Procs : pc[p] = "r_asleep" =>
       /\ writeopen = 1
       /\ \/ Empty
          \/ \E w \in Writers : killed[w] = 1 \/ pc[w] \in {"w_test", "w_body"}

Bounded == Dist(nread, nwrite) <= PIPESIZE

Inv == TypeOK /\ Calls /\ Open /\ Tested /\ Sleeping /\ Bounded

-----------------------------------------------------------------------------
(* The counters.                                                           *)

LEMMA Sizes ==
  /\ PIPESIZE \in Nat /\ PIPESIZE > 0 /\ UINT \in Nat /\ UINT > PIPESIZE
  /\ MaxN \in Nat
  /\ Writers \intersect Readers = {}
  /\ None \notin Procs /\ Procs = Writers \union Readers
BY PipeConstants DEF Procs

LEMMA PipeRing == RingSizes
BY PipeConstants DEF RingSizes

\* The tests of pipewrite() and piperead() on the counters, as distances.
LEMMA FullIs ==
  ASSUME TypeOK
  PROVE  /\ Full <=> Dist(nread, nwrite) = PIPESIZE
         /\ Empty <=> Dist(nread, nwrite) = 0
         /\ Dist(nread, nwrite) \in Nat
<1>1. nread \in Index /\ nwrite \in Index
  BY DEF TypeOK, Index
<1>2. Dist(nread, nwrite) = IF nread <= nwrite THEN nwrite - nread
                                               ELSE nwrite + UINT - nread
  BY <1>1, DistIs, PipeRing
<1>3. (nread + PIPESIZE) % UINT = IF nread + PIPESIZE < UINT THEN nread + PIPESIZE
                                                 ELSE nread + PIPESIZE - UINT
  BY <1>1, Sizes, SMTT(60) DEF Index
<1> QED
  BY <1>1, <1>2, <1>3, Sizes DEF Index, Full, Empty

USE Sizes
USE ZenonT(60)

LEMMA PipeKept ==
  ASSUME Bounded, UNCHANGED pipe
  PROVE  /\ Bounded' /\ (Full' <=> Full) /\ (Empty' <=> Empty)
         /\ nread' = nread /\ nwrite' = nwrite /\ data' = data
         /\ readopen' = readopen /\ writeopen' = writeopen
BY DEF Bounded, Full, Empty, pipe

-----------------------------------------------------------------------------
(* One lemma per action: it preserves the invariant.                       *)

LEMMA CallWriteInv ==
  ASSUME Inv, NEW p \in Writers, Call(p, "w_lock")
  PROVE  Inv'
<1> USE DEF Inv
<1>0. /\ Bounded' /\ (Full' <=> Full) /\ (Empty' <=> Empty)
      /\ nread' = nread /\ nwrite' = nwrite /\ data' = data
      /\ readopen' = readopen /\ writeopen' = writeopen
  BY PipeKept DEF Call
<1>1. TypeOK'
  BY <1>0, SMTT(60) DEF Call, TypeOK, PCs, Asleep, InCall
<1>2. Calls'
  BY <1>0 DEF Call, TypeOK, Calls, WriteOnly, ReadOnly, Locked
<1>3. Open'
  BY <1>0, SMTT(60) DEF Call, TypeOK, Calls, Open, Left
<1>4. Tested'
  BY <1>0 DEF Call, TypeOK, Calls, Tested, Locked
<1>5. Sleeping'
  BY <1>0 DEF Call, TypeOK, Calls, Open, Tested, Sleeping, Locked
<1> QED
  BY <1>0, <1>1, <1>2, <1>3, <1>4, <1>5

LEMMA CallReadInv ==
  ASSUME Inv, NEW p \in Readers, Call(p, "r_lock")
  PROVE  Inv'
<1> USE DEF Inv
<1>0. /\ Bounded' /\ (Full' <=> Full) /\ (Empty' <=> Empty)
      /\ nread' = nread /\ nwrite' = nwrite /\ data' = data
      /\ readopen' = readopen /\ writeopen' = writeopen
  BY PipeKept DEF Call
<1>1. TypeOK'
  BY <1>0, SMTT(60) DEF Call, TypeOK, PCs, Asleep, InCall
<1>2. Calls'
  BY <1>0 DEF Call, TypeOK, Calls, WriteOnly, ReadOnly, Locked
<1>3. Open'
  BY <1>0, SMTT(60) DEF Call, TypeOK, Calls, Open, Left
<1>4. Tested'
  BY <1>0 DEF Call, TypeOK, Calls, Tested, Locked
<1>5. Sleeping'
  BY <1>0 DEF Call, TypeOK, Calls, Open, Tested, Sleeping, Locked
<1> QED
  BY <1>0, <1>1, <1>2, <1>3, <1>4, <1>5

LEMMA LockWriteInv ==
  ASSUME Inv, NEW p \in Procs, Lock(p, "w_lock", "w_test")
  PROVE  Inv'
<1> USE DEF Inv
<1>0. /\ Bounded' /\ (Full' <=> Full) /\ (Empty' <=> Empty)
      /\ nread' = nread /\ nwrite' = nwrite /\ data' = data
      /\ readopen' = readopen /\ writeopen' = writeopen
  BY PipeKept DEF Lock
<1>1. TypeOK'
  BY <1>0 DEF Lock, TypeOK, PCs, Asleep, InCall
<1>2. Calls'
  BY <1>0 DEF Lock, TypeOK, Calls, WriteOnly, ReadOnly, Locked
<1>3. Open'
  BY <1>0 DEF Lock, TypeOK, Calls, Open, Left
<1>4. Tested'
  BY <1>0 DEF Lock, TypeOK, Calls, Tested, Locked
<1>5. Sleeping'
  BY <1>0 DEF Lock, TypeOK, Calls, Open, Tested, Sleeping, Locked
<1> QED
  BY <1>0, <1>1, <1>2, <1>3, <1>4, <1>5

LEMMA LockReadInv ==
  ASSUME Inv, NEW p \in Procs, Lock(p, "r_lock", "r_test")
  PROVE  Inv'
<1> USE DEF Inv
<1>0. /\ Bounded' /\ (Full' <=> Full) /\ (Empty' <=> Empty)
      /\ nread' = nread /\ nwrite' = nwrite /\ data' = data
      /\ readopen' = readopen /\ writeopen' = writeopen
  BY PipeKept DEF Lock
<1>1. TypeOK'
  BY <1>0 DEF Lock, TypeOK, PCs, Asleep, InCall
<1>2. Calls'
  BY <1>0 DEF Lock, TypeOK, Calls, WriteOnly, ReadOnly, Locked
<1>3. Open'
  BY <1>0 DEF Lock, TypeOK, Calls, Open, Left
<1>4. Tested'
  BY <1>0 DEF Lock, TypeOK, Calls, Tested, Locked
<1>5. Sleeping'
  BY <1>0 DEF Lock, TypeOK, Calls, Open, Tested, Sleeping, Locked
<1> QED
  BY <1>0, <1>1, <1>2, <1>3, <1>4, <1>5

LEMMA WriteTestInv ==
  ASSUME Inv, NEW p \in Procs, WriteTest(p)
  PROVE  Inv'
<1> USE DEF Inv
<1>0. /\ Bounded' /\ (Full' <=> Full) /\ (Empty' <=> Empty)
      /\ nread' = nread /\ nwrite' = nwrite /\ data' = data
      /\ readopen' = readopen /\ writeopen' = writeopen
  BY PipeKept DEF WriteTest, Stay
<1>1. TypeOK'
  BY <1>0 DEF WriteTest, Stay, TypeOK, PCs, Asleep, InCall
<1>2. Calls'
  BY <1>0 DEF WriteTest, Stay, TypeOK, Calls, WriteOnly, ReadOnly, Locked
<1>3. Open'
  BY <1>0 DEF WriteTest, Stay, TypeOK, Calls, Open, Left
<1>4. Tested'
  BY <1>0 DEF WriteTest, Stay, TypeOK, Calls, Tested, Locked
<1>5. Sleeping'
  BY <1>0 DEF WriteTest, Stay, TypeOK, Calls, Open, Tested, Sleeping, Locked
<1> QED
  BY <1>0, <1>1, <1>2, <1>3, <1>4, <1>5

LEMMA WriteFailsInv ==
  ASSUME Inv, NEW p \in Procs, WriteFails(p)
  PROVE  Inv'
<1> USE DEF Inv
<1>0. /\ Bounded' /\ (Full' <=> Full) /\ (Empty' <=> Empty)
      /\ nread' = nread /\ nwrite' = nwrite /\ data' = data
      /\ readopen' = readopen /\ writeopen' = writeopen
  BY PipeKept DEF WriteFails, Return
<1>1. TypeOK'
  BY <1>0, SMTT(60) DEF WriteFails, Return, TypeOK, PCs, Asleep, InCall
<1>2. Calls'
  BY <1>0 DEF WriteFails, Return, TypeOK, Calls, WriteOnly, ReadOnly, Locked
<1>3. Open'
  BY <1>0 DEF WriteFails, Return, TypeOK, Calls, Open, Left
<1>4. Tested'
  BY <1>0 DEF WriteFails, Return, TypeOK, Calls, Tested, Locked
<1>5. Sleeping'
  <2>1. p \in Writers
    BY DEF WriteFails, Calls, WriteOnly
  <2>2. \A q \in Procs : pc'[q] = IF q = p THEN "user" ELSE pc[q]
    BY DEF WriteFails, Return, TypeOK
  <2>3. ASSUME NEW q \in Procs, pc'[q] = "r_asleep"
        PROVE  killed[p] = 1
    <3>1. pc[q] = "r_asleep" /\ q \in Readers
      BY <2>2, <2>3 DEF Calls, WriteOnly, ReadOnly
    <3>2. readopen = 1
      BY <3>1 DEF Open
    <3> QED
      BY <3>2, SMTT(60) DEF WriteFails
  <2>4. killed' = killed /\ \A q \in Procs : pc[q] \in {"w_asleep", "r_copy"} => q # p
    BY DEF WriteFails, Return
  <2> QED
    BY <1>0, <2>1, <2>2, <2>3, <2>4 DEF Sleeping
<1> QED
  BY <1>0, <1>1, <1>2, <1>3, <1>4, <1>5

LEMMA WriteSleepInv ==
  ASSUME Inv, NEW p \in Procs, WriteSleep(p)
  PROVE  Inv'
<1> USE DEF Inv
<1>0. /\ Bounded' /\ (Full' <=> Full) /\ (Empty' <=> Empty)
      /\ nread' = nread /\ nwrite' = nwrite /\ data' = data
      /\ readopen' = readopen /\ writeopen' = writeopen
  BY PipeKept DEF WriteSleep, WakeReaders
<1>1. TypeOK'
  BY <1>0 DEF WriteSleep, WakeReaders, TypeOK, PCs, Asleep, InCall
<1>2. Calls'
  BY <1>0 DEF WriteSleep, WakeReaders, TypeOK, Calls, WriteOnly, ReadOnly, Locked
<1>3. Open'
  BY <1>0 DEF WriteSleep, WakeReaders, TypeOK, Calls, Open, Left
<1>4. Tested'
  BY <1>0 DEF WriteSleep, WakeReaders, TypeOK, Calls, Tested, Locked
<1>5. Sleeping'
  BY <1>0 DEF WriteSleep, WakeReaders, TypeOK, Calls, Open, Tested, Sleeping, Locked
<1> QED
  BY <1>0, <1>1, <1>2, <1>3, <1>4, <1>5

LEMMA WriteDoneInv ==
  ASSUME Inv, NEW p \in Procs, WriteDone(p)
  PROVE  Inv'
<1> USE DEF Inv
<1>0. /\ Bounded' /\ (Full' <=> Full) /\ (Empty' <=> Empty)
      /\ nread' = nread /\ nwrite' = nwrite /\ data' = data
      /\ readopen' = readopen /\ writeopen' = writeopen
  BY PipeKept DEF WriteDone, Return, WakeReaders
<1>1. TypeOK'
  BY <1>0, SMTT(60) DEF WriteDone, Return, WakeReaders, TypeOK, PCs, Asleep, InCall
<1>2. Calls'
  BY <1>0, SMTT(60) DEF WriteDone, Return, WakeReaders, TypeOK, Calls, WriteOnly, ReadOnly,
       Locked
<1>3. Open'
  BY <1>0 DEF WriteDone, Return, WakeReaders, TypeOK, Calls, Open, Left
<1>4. Tested'
  BY <1>0 DEF WriteDone, Return, WakeReaders, TypeOK, Calls, Tested, Locked
<1>5. Sleeping'
  BY <1>0 DEF WriteDone, Return, WakeReaders, TypeOK, Calls, Open, Tested,
       Sleeping, Locked
<1> QED
  BY <1>0, <1>1, <1>2, <1>3, <1>4, <1>5

LEMMA ReadTestInv ==
  ASSUME Inv, NEW p \in Procs, ReadTest(p)
  PROVE  Inv'
<1> USE DEF Inv
<1>0. /\ Bounded' /\ (Full' <=> Full) /\ (Empty' <=> Empty)
      /\ nread' = nread /\ nwrite' = nwrite /\ data' = data
      /\ readopen' = readopen /\ writeopen' = writeopen
  BY PipeKept DEF ReadTest, Stay
<1>1. TypeOK'
  BY <1>0 DEF ReadTest, Stay, TypeOK, PCs, Asleep, InCall
<1>2. Calls'
  BY <1>0 DEF ReadTest, Stay, TypeOK, Calls, WriteOnly, ReadOnly, Locked
<1>3. Open'
  BY <1>0 DEF ReadTest, Stay, TypeOK, Calls, Open, Left
<1>4. Tested'
  BY <1>0 DEF ReadTest, Stay, TypeOK, Calls, Tested, Locked
<1>5. Sleeping'
  BY <1>0 DEF ReadTest, Stay, TypeOK, Calls, Open, Tested, Sleeping, Locked
<1> QED
  BY <1>0, <1>1, <1>2, <1>3, <1>4, <1>5

LEMMA ReadFailsInv ==
  ASSUME Inv, NEW p \in Procs, ReadFails(p)
  PROVE  Inv'
<1> USE DEF Inv
<1>0. /\ Bounded' /\ (Full' <=> Full) /\ (Empty' <=> Empty)
      /\ nread' = nread /\ nwrite' = nwrite /\ data' = data
      /\ readopen' = readopen /\ writeopen' = writeopen
  BY PipeKept DEF ReadFails, Return
<1>1. TypeOK'
  BY <1>0, SMTT(60) DEF ReadFails, Return, TypeOK, PCs, Asleep, InCall
<1>2. Calls'
  BY <1>0 DEF ReadFails, Return, TypeOK, Calls, WriteOnly, ReadOnly, Locked
<1>3. Open'
  BY <1>0 DEF ReadFails, Return, TypeOK, Calls, Open, Left
<1>4. Tested'
  BY <1>0 DEF ReadFails, Return, TypeOK, Calls, Tested, Locked
<1>5. Sleeping'
  BY <1>0 DEF ReadFails, Return, TypeOK, Calls, Open, Tested, Sleeping, Locked
<1> QED
  BY <1>0, <1>1, <1>2, <1>3, <1>4, <1>5

LEMMA ReadSleepInv ==
  ASSUME Inv, NEW p \in Procs, ReadSleep(p)
  PROVE  Inv'
<1> USE DEF Inv
<1>0. /\ Bounded' /\ (Full' <=> Full) /\ (Empty' <=> Empty)
      /\ nread' = nread /\ nwrite' = nwrite /\ data' = data
      /\ readopen' = readopen /\ writeopen' = writeopen
  BY PipeKept DEF ReadSleep
<1>1. TypeOK'
  BY <1>0 DEF ReadSleep, TypeOK, PCs, Asleep, InCall
<1>2. Calls'
  BY <1>0 DEF ReadSleep, TypeOK, Calls, WriteOnly, ReadOnly, Locked
<1>3. Open'
  BY <1>0 DEF ReadSleep, TypeOK, Calls, Open, Left
<1>4. Tested'
  BY <1>0 DEF ReadSleep, TypeOK, Calls, Tested, Locked
<1>5. Sleeping'
  BY <1>0 DEF ReadSleep, TypeOK, Calls, Open, Tested, Sleeping, Locked
<1> QED
  BY <1>0, <1>1, <1>2, <1>3, <1>4, <1>5

LEMMA ReadDoneInv ==
  ASSUME Inv, NEW p \in Procs, ReadDone(p)
  PROVE  Inv'
<1> USE DEF Inv
<1>0. /\ Bounded' /\ (Full' <=> Full) /\ (Empty' <=> Empty)
      /\ nread' = nread /\ nwrite' = nwrite /\ data' = data
      /\ readopen' = readopen /\ writeopen' = writeopen
  BY PipeKept DEF ReadDone, Return, WakeWriters
<1>1. TypeOK'
  BY <1>0, SMTT(60) DEF ReadDone, Return, WakeWriters, TypeOK, PCs, Asleep, InCall
<1>2. Calls'
  BY <1>0 DEF ReadDone, Return, WakeWriters, TypeOK, Calls, WriteOnly, ReadOnly,
       Locked
<1>3. Open'
  BY <1>0 DEF ReadDone, Return, WakeWriters, TypeOK, Calls, Open, Left
<1>4. Tested'
  BY <1>0 DEF ReadDone, Return, WakeWriters, TypeOK, Calls, Tested, Locked
<1>5. Sleeping'
  BY <1>0 DEF ReadDone, Return, WakeWriters, TypeOK, Calls, Open, Tested,
       Sleeping, Locked
<1> QED
  BY <1>0, <1>1, <1>2, <1>3, <1>4, <1>5

LEMMA KillInv ==
  ASSUME Inv, NEW p \in Procs, Kill(p)
  PROVE  Inv'
<1> USE DEF Inv
<1>0. /\ Bounded' /\ (Full' <=> Full) /\ (Empty' <=> Empty)
      /\ nread' = nread /\ nwrite' = nwrite /\ data' = data
      /\ readopen' = readopen /\ writeopen' = writeopen
  BY PipeKept DEF Kill
<1>1. TypeOK'
  BY <1>0 DEF Kill, TypeOK, PCs, Asleep, InCall
<1>2. Calls'
  BY <1>0 DEF Kill, TypeOK, Calls, WriteOnly, ReadOnly, Locked
<1>3. Open'
  BY <1>0 DEF Kill, TypeOK, Calls, Open, Left
<1>4. Tested'
  BY <1>0 DEF Kill, TypeOK, Calls, Tested, Locked
<1>5. Sleeping'
  BY <1>0 DEF Kill, TypeOK, Calls, Open, Tested, Sleeping, Locked
<1> QED
  BY <1>0, <1>1, <1>2, <1>3, <1>4, <1>5

LEMMA CloseInv ==
  ASSUME Inv, NEW p \in Procs, Close(p)
  PROVE  Inv'
<1> USE DEF Inv
<1>0. /\ Bounded' /\ (Full' <=> Full) /\ (Empty' <=> Empty)
      /\ nread' = nread /\ nwrite' = nwrite /\ data' = data
      /\ readopen' = readopen /\ writeopen' = writeopen
  BY PipeKept DEF Close
<1>1. TypeOK'
  BY <1>0 DEF Close, TypeOK, PCs, Asleep, InCall
<1>2. Calls'
  BY <1>0 DEF Close, TypeOK, Calls, WriteOnly, ReadOnly, Locked
<1>3. Open'
  BY <1>0, SMTT(60) DEF Close, TypeOK, Calls, Open, Left
<1>4. Tested'
  BY <1>0 DEF Close, TypeOK, Calls, Tested, Locked
<1>5. Sleeping'
  BY <1>0 DEF Close, TypeOK, Calls, Open, Tested, Sleeping, Locked
<1> QED
  BY <1>0, <1>1, <1>2, <1>3, <1>4, <1>5

\* The counters after a byte has gone in, and after one has come out.
LEMMA ByteIn ==
  ASSUME Inv, ~Full, nwrite' = (nwrite + 1) % UINT, nread' = nread
  PROVE  /\ nwrite' \in 0 .. UINT - 1 /\ Bounded' /\ ~Empty'
<1>1. nread \in Index /\ nwrite \in Index
  BY DEF Inv, TypeOK, Index
<1>2. nwrite' = Succ(nwrite)
  BY DEF Succ
<1>3. Dist(nread, nwrite) < PIPESIZE /\ Dist(nread, nwrite) \in Nat
  BY FullIs, SMTT(60) DEF Inv, Bounded
<1>4. Succ(nwrite) \in Index /\ Dist(nread, Succ(nwrite)) = Dist(nread, nwrite) + 1
  BY <1>1, <1>3, SuccIs, DistPut, PipeRing, ZenonT(60)
<1>5. Dist(nread, nread) = 0
  BY <1>1, DistIs, PipeRing, SMTT(60) DEF Index
<1>6. nread # Succ(nwrite)
  BY <1>3, <1>4, <1>5, SMTT(60)
<1> QED
  BY <1>2, <1>3, <1>4, <1>6, SMTT(60) DEF Index, Bounded, Empty

LEMMA ByteOut ==
  ASSUME Inv, ~Empty, nread' = (nread + 1) % UINT, nwrite' = nwrite
  PROVE  nread' \in 0 .. UINT - 1 /\ Bounded'
<1>1. nread \in Index /\ nwrite \in Index /\ nread # nwrite
  BY DEF Inv, TypeOK, Index, Empty
<1>2. nread' = Succ(nread)
  BY DEF Succ
<1>3. Dist(nread, nwrite) <= PIPESIZE /\ Dist(nread, nwrite) \in Nat
  BY FullIs DEF Inv, Bounded
<1>4. Succ(nread) \in Index /\ Dist(Succ(nread), nwrite) = Dist(nread, nwrite) - 1
  BY <1>1, <1>3, SuccIs, DistGet, PipeRing, ZenonT(60)
<1> QED
  BY <1>2, <1>3, <1>4, SMTT(60) DEF Index, Bounded

LEMMA WriteByteInv ==
  ASSUME Inv, NEW p \in Procs, NEW ch \in Bytes, WriteByte(p, ch)
  PROVE  Inv'
<1> USE DEF Inv
<1>1. /\ nwrite' \in 0 .. UINT - 1 /\ Bounded' /\ ~Full /\ ~Empty'
      /\ data' \in [0 .. PIPESIZE - 1 -> Bytes]
  <2>1. nwrite % PIPESIZE \in 0 .. PIPESIZE - 1
    BY SMTT(60) DEF TypeOK
  <2>2. PICK x \in 0 .. PIPESIZE - 1 : data' = [data EXCEPT ![x] = ch]
    BY <2>1, ZenonT(60) DEF WriteByte
  <2>3. data' \in [0 .. PIPESIZE - 1 -> Bytes]
    BY <2>2 DEF TypeOK
  <2> QED
    BY <2>3, ByteIn, ZenonT(60) DEF WriteByte
<1>2. /\ pc[p] = "w_body" /\ pc' = [pc EXCEPT ![p] = "w_test"]
      /\ i' = [i EXCEPT ![p] = i[p] + 1] /\ nread' = nread
      /\ readopen' = readopen /\ writeopen' = writeopen
      /\ UNCHANGED <<lock, freed, ends, killed, n>>
      /\ i[p] < n[p] /\ p \in Writers
  BY ZenonT(60) DEF WriteByte, Stay, Tested, Calls, WriteOnly, ReadOnly, Procs
<1>3. TypeOK'
  BY <1>1, <1>2, SMTT(60) DEF TypeOK, PCs, Asleep, InCall
<1>4. Calls'
  BY <1>1, <1>2 DEF TypeOK, Calls, WriteOnly, ReadOnly, Locked
<1>5. Open'
  BY <1>1, <1>2 DEF TypeOK, Calls, Open, Left
<1>6. Tested'
  BY <1>1, <1>2 DEF TypeOK, Calls, Tested, Locked
<1>7. Sleeping'
  BY <1>1, <1>2 DEF TypeOK, Calls, Open, Tested, Sleeping, Locked
<1> QED
  BY <1>1, <1>3, <1>4, <1>5, <1>6, <1>7

LEMMA ReadByteInv ==
  ASSUME Inv, NEW p \in Procs, ReadByte(p)
  PROVE  Inv'
<1> USE DEF Inv
<1>0. nread' \in 0 .. UINT - 1 /\ Bounded' /\ ~Empty
  BY ByteOut, ZenonT(60) DEF ReadByte
<1>1. /\ pc[p] = "r_copy" /\ i[p] < n[p]
      /\ nwrite' = nwrite /\ data' = data
      /\ readopen' = readopen /\ writeopen' = writeopen
  BY ZenonT(60) DEF ReadByte
<1>2. CASE i' = [i EXCEPT ![p] = i[p] + 1] /\ Stay(p, "r_copy")
  <2>1. TypeOK'
    BY <1>0, <1>1, <1>2, SMTT(60) DEF Stay, TypeOK, PCs, Asleep, InCall
  <2>2. Calls'
    BY <1>0, <1>1, <1>2 DEF Stay, TypeOK, Calls, WriteOnly, ReadOnly, Locked
  <2>3. Open'
    BY <1>0, <1>1, <1>2 DEF Stay, TypeOK, Calls, Open, Left
  <2>4. Tested'
    BY <1>0, <1>1, <1>2 DEF Stay, TypeOK, Calls, Tested, Locked
  <2>5. Sleeping'
    <3>1. p \in Readers /\ pc' = pc /\ killed' = killed
      BY <1>1, <1>2 DEF Stay, TypeOK, Calls, ReadOnly
    <3>2. \A w \in Writers : pc[w] \notin {"w_test", "w_body"}
      BY <1>1 DEF Calls, Locked
    <3> QED
      BY <1>0, <1>1, <3>1, <3>2 DEF Sleeping
  <2> QED
    BY <1>0, <2>1, <2>2, <2>3, <2>4, <2>5
<1>3. CASE Return(p, WakeWriters(pc))
  <2>0. /\ pc' \in [Procs -> PCs]
        /\ \A q \in Procs : pc'[q] = IF q = p THEN "user" ELSE
                            IF pc[q] = "w_asleep" THEN "w_lock" ELSE pc[q]
        /\ lock' = None /\ freed' = freed /\ ends' = ends /\ killed' = killed
        /\ i' \in [Procs -> 0 .. MaxN] /\ n' \in [Procs -> 0 .. MaxN]
        /\ \A q \in Procs : q # p => i'[q] = i[q] /\ n'[q] = n[q]
    BY <1>3, SMTT(60) DEF Return, WakeWriters, TypeOK, PCs, Asleep, InCall
  <2>1. TypeOK'
    BY <1>0, <1>1, <2>0 DEF TypeOK, PCs, Asleep, InCall
  <2>2. Calls'
    BY <1>0, <1>1, <2>0 DEF Calls, WriteOnly, ReadOnly, Locked
  <2>3. Open'
    BY <1>0, <1>1, <2>0, SMTT(60) DEF Open, Left
  <2>4. Tested'
    BY <1>0, <1>1, <2>0 DEF Calls, Tested, Locked
  <2>5. Sleeping'
    BY <1>0, <1>1, <2>0, SMTT(60) DEF Calls, Open, Tested, Sleeping, Locked
  <2> QED
    BY <1>0, <2>1, <2>2, <2>3, <2>4, <2>5
<1> QED
  BY <1>2, <1>3, ZenonT(60) DEF ReadByte

LEMMA PipeCloseInv ==
  ASSUME Inv, NEW p \in Procs, PipeClose(p)
  PROVE  Inv'
<1> USE DEF Inv
<1>0. /\ pc[p] = "closing" /\ lock = None
      /\ Bounded' /\ (Full' <=> Full) /\ (Empty' <=> Empty)
      /\ nread' = nread /\ nwrite' = nwrite /\ data' = data
      /\ lock' = lock /\ ends' = ends /\ killed' = killed /\ i' = i /\ n' = n
  BY DEF PipeClose, Bounded, Full, Empty
<1>1. CASE /\ p \in Writers /\ writeopen' = 0 /\ readopen' = readopen
           /\ pc' = [WakeReaders(pc) EXCEPT ![p] = "gone"]
           /\ freed' = IF readopen = 0 THEN 1 ELSE freed
  <2>0. /\ pc' \in [Procs -> PCs]
        /\ \A q \in Procs : pc'[q] = IF q = p THEN "gone" ELSE
                            IF pc[q] = "r_asleep" THEN "r_lock" ELSE pc[q]
    BY <1>1 DEF WakeReaders, TypeOK, PCs, Asleep, InCall
  <2>1. TypeOK'
    BY <1>0, <1>1, <2>0 DEF TypeOK, PCs, Asleep, InCall
  <2>2. Calls'
    BY <1>0, <1>1, <2>0 DEF Calls, WriteOnly, ReadOnly, Locked
  <2>3. Open'
    BY <1>0, <1>1, <2>0 DEF Open, Left
  <2>4. Tested'
    BY <1>0, <1>1, <2>0 DEF Calls, Tested, Locked
  <2>5. Sleeping'
    BY <1>0, <1>1, <2>0 DEF Calls, Open, Tested, Sleeping, Locked
  <2> QED
    BY <1>0, <2>1, <2>2, <2>3, <2>4, <2>5
<1>2. CASE /\ p \in Readers /\ readopen' = 0 /\ writeopen' = writeopen
           /\ pc' = [WakeWriters(pc) EXCEPT ![p] = "gone"]
           /\ freed' = IF writeopen = 0 THEN 1 ELSE freed
  <2>0. /\ pc' \in [Procs -> PCs]
        /\ \A q \in Procs : pc'[q] = IF q = p THEN "gone" ELSE
                            IF pc[q] = "w_asleep" THEN "w_lock" ELSE pc[q]
    BY <1>2 DEF WakeWriters, TypeOK, PCs, Asleep, InCall
  <2>1. TypeOK'
    BY <1>0, <1>2, <2>0 DEF TypeOK, PCs, Asleep, InCall
  <2>2. Calls'
    BY <1>0, <1>2, <2>0 DEF Calls, WriteOnly, ReadOnly, Locked
  <2>3. Open'
    BY <1>0, <1>2, <2>0 DEF Open, Left
  <2>4. Tested'
    BY <1>0, <1>2, <2>0 DEF Calls, Tested, Locked
  <2>5. Sleeping'
    BY <1>0, <1>2, <2>0 DEF Calls, Open, Tested, Sleeping, Locked
  <2> QED
    BY <1>0, <2>1, <2>2, <2>3, <2>4, <2>5
<1> QED
  BY <1>1, <1>2, ZenonT(60) DEF PipeClose

-----------------------------------------------------------------------------
(* The invariant holds, and with it what Pipe states.                      *)

LEMMA InitInv == Init => Inv
<1> SUFFICES ASSUME Init PROVE Inv
  OBVIOUS
<1>1. Dist(0, 0) = 0
  <2>1. 0 \in Index
    BY SMTT(60) DEF Index
  <2> QED
    BY <2>1, DistIs, PipeRing, SMTT(60)
<1>2. TypeOK
  BY SMTT(60) DEF Init, TypeOK, PCs
<1>3. Calls /\ Open /\ Tested /\ Sleeping
  BY DEF Init, Calls, WriteOnly, ReadOnly, Locked, Open, Left, Tested, Sleeping
<1> QED
  BY <1>1, <1>2, <1>3, SMTT(60) DEF Init, Inv, Bounded

LEMMA StepInv ==
  ASSUME Inv, NEW p \in Procs, Step(p)
  PROVE  Inv'
BY LockWriteInv, WriteTestInv, WriteFailsInv, WriteSleepInv, WriteDoneInv,
   WriteByteInv, LockReadInv, ReadTestInv, ReadFailsInv, ReadSleepInv,
   ReadByteInv, ReadDoneInv, PipeCloseInv, ZenonT(60) DEF Step

LEMMA NextInv == Inv /\ [Next]_vars => Inv'
<1> SUFFICES ASSUME Inv, [Next]_vars PROVE Inv'
  OBVIOUS
<1>1. CASE Next
  BY <1>1, CallWriteInv, CallReadInv, StepInv, KillInv, CloseInv, ZenonT(60) DEF Next
<1>2. CASE UNCHANGED vars
  BY <1>2 DEF vars, Inv, TypeOK, Calls, Open, Tested, Sleeping, Bounded, Full, Empty
<1> QED
  BY <1>1, <1>2

LEMMA PipeInvariant == Spec => []Inv
BY InitInv, NextInv, PTL DEF Spec

LEMMA InvSleepers == Inv => SleepersMustWait
<1> SUFFICES ASSUME Inv PROVE SleepersMustWait
  OBVIOUS
<1> USE DEF Inv
<1>1. ASSUME lock = None, NEW p \in Procs
      PROVE  /\ pc[p] = "w_asleep" => Full /\ readopen = 1
             /\ pc[p] = "r_asleep" => /\ writeopen = 1
                                      /\ Empty \/ \E w \in Writers : killed[w] = 1
  <2>1. \A q \in Procs : pc[q] \notin Locked
    BY <1>1 DEF Calls
  <2> QED
    BY <2>1 DEF Sleeping, Locked
<1>2. ASSUME freed = 1
      PROVE  ends = {} /\ lock = None /\ \A p \in Procs : pc[p] = "gone"
  <2>1. \A p \in Procs : pc[p] = "gone"
    BY <1>2, SMTT(60) DEF Open
  <2> QED
    BY <2>1 DEF Open, Left, Calls, Locked, TypeOK
<1> QED
  BY <1>1, <1>2 DEF SleepersMustWait

(* Nobody sleeps on a pipe who could go on, but for the readers that a     *)
(* killed writer leaves behind; and the page goes back to kfree() when     *)
(* nobody is left in pipewrite(), piperead() or fileclose().               *)
THEOREM PipeSleepers == Spec => []SleepersMustWait
BY PipeInvariant, InvSleepers, PTL

-----------------------------------------------------------------------------
(* The pipe is a bounded queue.                                            *)

\* The queue that Pipe maps its state to, as the content of a ring and as it
\* stands there.
queue == Content(data, nread, nwrite)

mapped == [k \in 1 .. Count |-> data[(nread + k - 1) % PIPESIZE]]

SameQueue == mapped = queue

LEMMA QueueIs == TypeOK => SameQueue
<1> SUFFICES ASSUME TypeOK PROVE mapped = queue
  BY DEF SameQueue
<1>1. Count = Dist(nread, nwrite)
  BY ZenonT(60) DEF Count, Dist
<1>2. \A k \in 1 .. Count : nread + (k - 1) = nread + k - 1
  <2>1. nread \in Int /\ Count \in Int
    BY <1>1, FullIs, SMTT(60) DEF TypeOK
  <2> QED
    BY <2>1
<1>3. \A k \in 1 .. Count : data[(nread + (k - 1)) % PIPESIZE]
                             = data[(nread + k - 1) % PIPESIZE]
  BY <1>2, ZenonT(60)
<1> QED
  BY <1>1, <1>3, ZenonT(60) DEF mapped, queue, Content, Slot

LEMMA PutRefines ==
  ASSUME Inv, NEW p \in Procs, NEW ch \in Bytes, WriteByte(p, ch)
  PROVE  Len(queue) < PIPESIZE /\ queue' = Append(queue, ch)
<1>1. nread \in Index /\ nwrite \in Index /\ data \in [Slots -> Bytes]
  BY DEF Inv, TypeOK, Index, Slots
<1>2. /\ nread' = nread /\ nwrite' = Succ(nwrite)
      /\ data' = [data EXCEPT ![nwrite % PIPESIZE] = ch] /\ ~Full
  BY ZenonT(60) DEF WriteByte, Succ
<1>3. Dist(nread, nwrite) < PIPESIZE /\ Dist(nread, nwrite) \in Nat
  BY <1>2, FullIs, SMTT(60) DEF Inv, Bounded
<1>4. nwrite % PIPESIZE \in Slots
  BY <1>1, SMTT(60) DEF Index, Slots
<1>5. /\ data'[nwrite % PIPESIZE] = ch
      /\ \A d \in Slots \ {nwrite % PIPESIZE} : data'[d] = data[d]
  BY <1>1, <1>2, <1>4, ZenonT(60)
<1>6. Puts(data, data', nread, nwrite, ch)
  BY <1>1, <1>3, <1>5, ContentPut, PipeRing, ZenonT(60)
<1>7. Len(Content(data, nread, nwrite)) = Dist(nread, nwrite)
  BY <1>3, SMTT(60) DEF Content
<1>8. Len(queue) < PIPESIZE
  BY <1>3, <1>7, ZenonT(60) DEF queue
<1> QED
  BY <1>2, <1>6, <1>8, ZenonT(60) DEF queue, Puts

LEMMA GetRefines ==
  ASSUME Inv, NEW p \in Procs, ReadByte(p)
  PROVE  queue # <<>> /\ queue' = Tail(queue)
<1>1. nread \in Index /\ nwrite \in Index /\ nread # nwrite
  BY ZenonT(60) DEF Inv, TypeOK, Index, ReadByte, Empty
<1>2. nread' = Succ(nread) /\ nwrite' = nwrite /\ data' = data
  BY ZenonT(60) DEF ReadByte, Succ
<1>3. /\ Content(data, nread, nwrite) # <<>>
      /\ Content(data, Succ(nread), nwrite) = Tail(Content(data, nread, nwrite))
  BY <1>1, ContentGet, PipeRing
<1> QED
  BY <1>2, <1>3, ZenonT(60) DEF queue

LEMMA Stutters ==
  ASSUME nread' = nread, nwrite' = nwrite, data' = data
  PROVE  queue' = queue
BY ZenonT(60) DEF queue

LEMMA CountersKept ==
  ASSUME NEW p \in Procs,
         \/ Call(p, "w_lock") \/ Call(p, "r_lock") \/ Kill(p) \/ Close(p)
         \/ Step(p) /\ ~ReadByte(p) /\ ~\E ch \in Bytes : WriteByte(p, ch)
  PROVE  nread' = nread /\ nwrite' = nwrite /\ data' = data
BY ZenonT(60) DEF Step, Call, Kill, Close, Lock, WriteTest, WriteFails, WriteSleep,
     WriteDone,
       ReadTest, ReadFails, ReadSleep, ReadDone, PipeClose, pipe

\* A step of a process is a put, a get or no step of the queue.
LEMMA StepRefines == Inv /\ Inv' /\ [Next]_vars => [F!Next]_mapped
<1> SUFFICES ASSUME Inv, Inv', [Next]_vars PROVE [F!Next]_mapped
  OBVIOUS
<1>1. mapped = queue /\ mapped' = queue'
  <2>1. TypeOK /\ TypeOK'
    BY ZenonT(60) DEF Inv
  <2>2. SameQueue /\ SameQueue'
    BY <2>1, QueueIs, PTL
  <2> QED
    BY <2>2 DEF SameQueue
<1>2. CASE \E p \in Procs, ch \in Bytes : WriteByte(p, ch)
  BY <1>1, <1>2, PutRefines, ZenonT(60) DEF F!Next, F!Put, mapped
<1>3. CASE \E p \in Procs : ReadByte(p)
  BY <1>1, <1>3, GetRefines, ZenonT(60) DEF F!Next, F!Get, mapped
<1>4. CASE UNCHANGED vars
  BY <1>1, <1>4, Stutters, ZenonT(60) DEF vars
<1>5. CASE Next /\ ~(\E p \in Procs, ch \in Bytes : WriteByte(p, ch))
                /\ ~(\E p \in Procs : ReadByte(p))
  <2>1. nread' = nread /\ nwrite' = nwrite /\ data' = data
    BY <1>5, CountersKept, ZenonT(60) DEF Next, Procs
  <2> QED
    BY <1>1, <2>1, Stutters
<1> QED
  BY <1>2, <1>3, <1>4, <1>5, ZenonT(60)

(* Bytes come out of a pipe once, in the order they went in, for any size  *)
(* and any number of processes, also when nread and nwrite wrap around:    *)
(* pipewrite() and piperead() implement Fifo.                              *)
THEOREM PipeImplementsFifo == Spec => ImplementsFifo
<1>1. Init => F!Init
  <2> SUFFICES ASSUME Init PROVE F!Init
    OBVIOUS
  <2>1. Count = 0
    BY FullIs, InitInv DEF Init, Inv, Empty, Count, Dist
  <2> QED
    BY <2>1, SMTT(60) DEF F!Init
<1> QED
  BY <1>1, PipeInvariant, StepRefines, PTL DEF Spec, ImplementsFifo, F!Spec, mapped
=============================================================================
