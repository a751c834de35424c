----------------------------- MODULE LogProofs ------------------------------
(***************************************************************************)
(* Proofs about Log for every set of processes, blocks and contents and    *)
(* every log size: LogInv is inductive; what follows from it: nobody       *)
(* sleeps in begin_op() without a reason, begin_op() reserves enough of    *)
(* the log, and the log implements AtomicDisk.                             *)
(***************************************************************************)
EXTENDS Log, FiniteSetTheorems, TLAPS

USE ZenonT(60)
USE DEF Committing, Recovering, Waiting, PCs, disk, log, bcache, DoCommit, Absorbed

\* Active is a finite set, whatever the processes do.
LEMMA ActiveFinite == IsFiniteSet(Active)
BY LogConstants, FS_Subset DEF Active

\* A running operation is counted by log.outstanding.
LEMMA OpIsOutstanding ==
  ASSUME TypeOK, Phases, NEW p \in Procs, pc[p] = "op"
  PROVE  outstanding \in Nat \ {0}
<1>1. p \in Active
  BY DEF Active
<1>2. Active # {}
  BY <1>1
<1>3. Cardinality(Active) # 0
  BY <1>2, ActiveFinite, FS_EmptySet
<1> QED
  BY <1>3 DEF Phases, TypeOK

\* Initially every variable has its type.
LEMMA InitType == Init => TypeOK
BY LogConstants, SMTT(60) DEF Init, TypeOK, BootPc, Slots

\* begin_op, log_write and end_op keep the types.
LEMMA TypeOps ==
  ASSUME TypeOK, LogInv, NEW p \in Procs
  PROVE  /\ BeginSleep(p) \/ Kill(p) => TypeOK'
         /\ BeginOp(p) => TypeOK'
         /\ \A b \in Blocks, v \in Vals : LogWrite(p, b, v) => TypeOK'
         /\ \A b \in Blocks : LogWritePanic(p, b) => TypeOK'
         /\ EndOp(p) => TypeOK'
<1>1. BeginSleep(p) \/ Kill(p) => TypeOK'
  BY ZenonT(60) DEF TypeOK, BeginSleep, Kill
<1>2. BeginOp(p) => TypeOK'
  BY SMTT(60) DEF TypeOK, BeginOp
<1>3. \A b \in Blocks, v \in Vals : LogWrite(p, b, v) => TypeOK'
  <2> SUFFICES ASSUME NEW b \in Blocks, NEW v \in Vals, LogWrite(p, b, v)
               PROVE  TypeOK'
    OBVIOUS
  <2>1. lh' \in Seq(Blocks)
    <3>1. Append(lh, b) \in Seq(Blocks)
      BY SMTT(60) DEF TypeOK
    <3> QED
      BY <3>1, ZenonT(60) DEF TypeOK, LogWrite
  <2>4. pin' \in [Blocks -> Int]
    BY SMTT(60) DEF TypeOK, LogWrite
  <2>2. cache' \in [Blocks -> Vals \union {NotCached}]
    BY DEF TypeOK, LogWrite
  <2>3. wrote' \in [Procs -> SUBSET Blocks]
    BY DEF TypeOK, LogWrite
  <2> QED
    BY <2>1, <2>2, <2>3, <2>4 DEF TypeOK, LogWrite
<1>4. \A b \in Blocks : LogWritePanic(p, b) => TypeOK'
  BY DEF TypeOK, LogWritePanic
<1>5. EndOp(p) => TypeOK'
  BY OpIsOutstanding, SMTT(60) DEF TypeOK, EndOp, Wakeup, LogInv
<1> QED
  BY <1>1, <1>2, <1>3, <1>4, <1>5

\* commit() and recover_from_log() keep the types.
LEMMA TypeDisk ==
  ASSUME TypeOK, LogInv, NEW p \in Procs
  PROVE  /\ CommitStep(p) => TypeOK'
         /\ RecoverStep(p) => TypeOK'
<1>1. ASSUME WriteLog(p) PROVE TypeOK'
  <2>1. lh[tail[p]] \in Blocks
    BY <1>1, SMTT(60) DEF TypeOK, WriteLog, LogInv, Shape
  <2>2. Data(lh[tail[p]]) \in Vals
    BY <2>1 DEF TypeOK, Data
  <2> QED
    <3>1. logdisk' \in [Slots -> Vals]
      BY <1>1, <2>2, ZenonT(60) DEF TypeOK, WriteLog
    <3>2. cache' \in [Blocks -> Vals \union {NotCached}]
      BY <1>1, <2>2, ZenonT(60) DEF TypeOK, WriteLog
    <3>3. pc' \in [Procs -> PCs] /\ tail' \in [Procs -> Nat \ {0}]
      BY <1>1, SMTT(60) DEF TypeOK, WriteLog
    <3> QED
      BY <1>1, <3>1, <3>2, <3>3 DEF TypeOK, WriteLog
<1>2. WriteHead(p) => TypeOK'
  BY SMTT(60) DEF TypeOK, WriteHead
<1>3. ASSUME InstallTrans(p) \/ RecoverInstall(p) PROVE TypeOK'
  <2>1. tail[p] \in 1 .. Len(lh) /\ tail[p] \in Slots
    BY <1>3, LogConstants, SMTT(60)
       DEF TypeOK, InstallTrans, RecoverInstall, LogInv, Shape, Fits, Slots
  <2>2. lh[tail[p]] \in Blocks /\ logdisk[tail[p]] \in Vals
    BY <2>1, SMTT(60) DEF TypeOK
  <2>3. InstallBlock(p) => /\ home' \in [Blocks -> Vals]
                           /\ cache' \in [Blocks -> Vals \union {NotCached}]
                           /\ tail' \in [Procs -> Nat \ {0}]
    BY <2>2, SMTT(60) DEF TypeOK, InstallBlock
  <2>4. pin' \in [Blocks -> Int]
    BY <1>3, <2>2, SMTT(60) DEF TypeOK, InstallTrans, RecoverInstall
  <2>5. pc' \in [Procs -> PCs]
    BY <1>3, ZenonT(60) DEF TypeOK, InstallTrans, RecoverInstall
  <2> QED
    BY <1>3, <2>3, <2>4, <2>5, ZenonT(60)
       DEF TypeOK, InstallTrans, RecoverInstall, InstallBlock
<1>4. ClearHead(p) => TypeOK'
  BY SMTT(60) DEF TypeOK, ClearHead
<1>5. CommitDone(p) => TypeOK'
  BY DEF TypeOK, CommitDone, Wakeup
<1>6. ReadHead(p) => TypeOK'
  BY DEF TypeOK, ReadHead
<1>7. RecoverClear(p) => TypeOK'
  BY SMTT(60) DEF TypeOK, RecoverClear
<1> QED
  BY <1>1, <1>2, <1>3, <1>4, <1>5, <1>6, <1>7 DEF CommitStep, RecoverStep

\* Every step keeps the types.
LEMMA NextType == TypeOK /\ LogInv /\ [Next]_vars => TypeOK'
<1> SUFFICES ASSUME TypeOK, LogInv, [Next]_vars PROVE TypeOK'
  OBVIOUS
<1>1. ASSUME NEW p \in Procs, CrashReboot(p) PROVE TypeOK'
  BY <1>1, SMTT(60) DEF TypeOK, CrashReboot, BootPc
<1>2. ASSUME NEW b \in Blocks, Bread(b) \/ Evict(b) PROVE TypeOK'
  BY <1>2 DEF TypeOK, Bread, Evict
<1>3. CASE UNCHANGED vars
  BY <1>3 DEF TypeOK, vars
<1> QED
  BY <1>1, <1>2, <1>3, TypeOps, TypeDisk DEF Next

-----------------------------------------------------------------------------
(* Phases: who may be where, and what log.outstanding counts.              *)

\* begin_op lets one operation in, and no commit is running then.
LEMMA PhasesBegin ==
  ASSUME TypeOK, LogInv, NEW p \in Procs, BeginOp(p) PROVE Phases'
<1>1. p \notin Active /\ Active' = Active \union {p}
  BY DEF TypeOK, BeginOp, Active
<1>2. outstanding' = Cardinality(Active')
  BY <1>1, ActiveFinite, FS_AddElement DEF BeginOp, LogInv, Phases
<1>3. \A q \in Procs : pc[q] \notin Committing \union Recovering \union {"unborn"}
  BY SMTT(60) DEF TypeOK, BeginOp, LogInv, Phases, Alone
<1>4. \A q \in Procs : pc'[q] = IF q = p THEN "op" ELSE pc[q]
  BY DEF TypeOK, BeginOp
<1> QED
  BY <1>2, <1>3, <1>4, SMTT(60) DEF BeginOp, LogInv, Phases, Alone

\* end_op takes it out again; the last one starts the commit, alone.
LEMMA PhasesEnd ==
  ASSUME TypeOK, LogInv, NEW p \in Procs, EndOp(p) PROVE Phases'
<1>1. \A q \in Procs : pc[q] \notin Committing \union Recovering \union {"unborn"}
  BY ZenonT(60) DEF TypeOK, EndOp, LogInv, Phases, Alone
<1>2. committing = 0
  BY <1>1 DEF TypeOK, LogInv, Phases
<1>3. \A q \in Procs \ {p} : pc'[q] = pc[q] \/ (pc[q] = "sleeping" /\ pc'[q] = "begin")
  BY <1>2 DEF TypeOK, EndOp, Wakeup
<1>4. pc'[p] = IF outstanding' # 0 THEN "idle"
               ELSE IF lh = <<>> THEN "done" ELSE "write_log"
  BY <1>2, SMTT(60) DEF TypeOK, EndOp, Wakeup
<1>5. p \in Active /\ Active' = Active \ {p}
  <2>1. pc[p] = "op" /\ pc'[p] # "op"
    BY <1>4, SMTT(60) DEF EndOp
  <2>2. \A q \in Procs \ {p} : pc'[q] = "op" <=> pc[q] = "op"
    BY <1>3
  <2> QED
    BY <2>1, <2>2 DEF Active
<1>6. outstanding' = Cardinality(Active')
  BY <1>5, ActiveFinite, FS_RemoveElement, ZenonT(60) DEF EndOp, LogInv, Phases
<1>7. CASE outstanding' = 0
  <2>1. Active' = {}
    BY <1>5, <1>6, <1>7, ActiveFinite, FS_RemoveElement, FS_EmptySet, ZenonT(60)
  <2>2. \A q \in Procs \ {p} : pc'[q] \in Waiting
    BY <1>1, <1>3, <2>1 DEF TypeOK, Active
  <2>3. committing' = 1
    BY <1>7, ZenonT(60) DEF EndOp
  <2> QED
    BY <1>4, <1>6, <1>7, <2>2, <2>3, SMTT(60) DEF EndOp, Phases, Alone
<1>8. CASE outstanding' # 0
  <2>1. Active' # {}
    BY <1>6, <1>8, FS_EmptySet
  <2>2. PICK q \in Procs : pc'[q] = "op"
    BY <2>1 DEF Active
  <2>3. \A r \in Procs : pc'[r] \notin Committing \union Recovering \union {"unborn"}
    BY <1>1, <1>3, <1>4, <1>8
  <2>4. committing' = 0
    BY <1>2, <1>8 DEF EndOp
  <2> QED
    BY <1>6, <2>2, <2>3, <2>4, SMTT(60) DEF Phases, Alone
<1> QED
  BY <1>7, <1>8

\* Steps that move one process inside its phase keep Phases.
LEMMA PhasesMove ==
  ASSUME TypeOK, LogInv, NEW p \in Procs, NEW c \in PCs,
         pc' = [pc EXCEPT ![p] = c],
         \/ pc[p] \in Committing /\ c \in Committing
         \/ pc[p] \in Recovering /\ c \in Recovering
         \/ pc[p] \in Waiting /\ c \in Waiting,
         UNCHANGED <<outstanding, committing>>,
         lh' = lh \/ pc[p] \notin Waiting
  PROVE  Phases'
<1>1. \A q \in Procs : pc'[q] = IF q = p THEN c ELSE pc[q]
  BY DEF TypeOK
<1>2. Active' = Active
  BY <1>1 DEF Active
<1>3. outstanding' = Cardinality(Active')
  BY <1>2 DEF LogInv, Phases
<1>4. committing' = 1 <=> \E q \in Procs : pc'[q] \in Committing
  BY <1>1 DEF LogInv, Phases
<1>5. \A q \in Procs : Alone(q)'
  BY <1>1, SMTT(60) DEF LogInv, Phases, Alone
<1>6. (\E q \in Procs : pc'[q] = "unborn") => \E q \in Procs : pc'[q] \in Recovering
  BY <1>1 DEF LogInv, Phases
<1>7. (\A q \in Procs : pc'[q] \in Waiting) => lh' = <<>>
  BY <1>1 DEF LogInv, Phases
<1> QED
  BY <1>3, <1>4, <1>5, <1>6, <1>7 DEF Phases

\* The end of a commit, the end of recovery and a crash start a new phase.
LEMMA PhasesTurn ==
  ASSUME TypeOK, LogInv, NEW p \in Procs,
         CommitDone(p) \/ RecoverClear(p) \/ CrashReboot(p)
  PROVE  Phases'
<1>1. CASE CommitDone(p)
  <2>1. \A q \in Procs : pc'[q] \in Waiting /\ (q # p => pc[q] \in Waiting)
    BY <1>1, SMTT(60) DEF TypeOK, CommitDone, Wakeup, LogInv, Phases, Alone
  <2>2. Active' = Active
    BY <1>1, <2>1, ZenonT(60) DEF Active, CommitDone
  <2>3. lh' = <<>>
    BY <1>1 DEF CommitDone, LogInv, Shape
  <2>4. outstanding' = Cardinality(Active')
    BY <1>1, <2>2 DEF CommitDone, LogInv, Phases
  <2>5. committing' = 0
    BY <1>1 DEF CommitDone
  <2> QED
    BY <2>1, <2>3, <2>4, <2>5, SMTT(60) DEF Phases, Alone
<1>2. CASE RecoverClear(p)
  <2>1. \A q \in Procs : pc'[q] = "idle" /\ pc[q] \notin Committing \union {"op"}
    BY <1>2 DEF TypeOK, RecoverClear, LogInv, Phases, Alone
  <2>2. Active' = Active
    BY <2>1 DEF Active
  <2>3. committing' = 0
    BY <1>2, <2>1 DEF TypeOK, RecoverClear, LogInv, Phases
  <2>4. outstanding' = Cardinality(Active')
    BY <1>2, <2>2 DEF RecoverClear, LogInv, Phases
  <2> QED
    BY <1>2, <2>1, <2>3, <2>4, SMTT(60) DEF RecoverClear, Phases, Alone
<1>3. CASE CrashReboot(p)
  <2>1. \A q \in Procs : pc'[q] = IF q = p THEN "read_head" ELSE "unborn"
    BY <1>3 DEF CrashReboot, BootPc
  <2>2. Active' = {}
    BY <2>1 DEF Active
  <2>3. Cardinality(Active') = 0
    BY <2>2, FS_EmptySet
  <2> QED
    BY <1>3, <2>1, <2>3, SMTT(60) DEF CrashReboot, Phases, Alone
<1> QED
  BY <1>1, <1>2, <1>3

\* Steps that move no process keep Phases; they may touch log.lh only inside
\* an operation.
LEMMA PhasesStay ==
  ASSUME TypeOK, LogInv, UNCHANGED <<pc, outstanding, committing>>,
         lh' = lh \/ \E p \in Procs : pc[p] = "op"
  PROVE  Phases'
<1>1. Active' = Active
  BY DEF Active
<1> QED
  BY <1>1 DEF LogInv, Phases, Alone

\* Every step keeps Phases.
LEMMA NextPhases == TypeOK /\ LogInv /\ [Next]_vars => Phases'
<1> SUFFICES ASSUME TypeOK, LogInv, [Next]_vars PROVE Phases'
  OBVIOUS
<1>1. ASSUME NEW p \in Procs, BeginSleep(p) \/ Kill(p) PROVE Phases'
  BY <1>1, PhasesMove DEF BeginSleep, Kill
<1>2. ASSUME NEW p \in Procs, WriteLog(p) \/ WriteHead(p) PROVE Phases'
  <2>1. PICK c \in {"write_log", "write_head", "install"} : pc' = [pc EXCEPT ![p] = c]
    BY <1>2 DEF WriteLog, WriteHead
  <2> QED
    BY <1>2, <2>1, PhasesMove, ZenonT(60) DEF WriteLog, WriteHead
<1>3. ASSUME NEW p \in Procs, InstallTrans(p) \/ ClearHead(p) PROVE Phases'
  <2>1. PICK c \in {"install", "clear", "done"} : pc' = [pc EXCEPT ![p] = c]
    BY <1>3 DEF InstallTrans, ClearHead
  <2> QED
    BY <1>3, <2>1, PhasesMove, ZenonT(60) DEF InstallTrans, InstallBlock, ClearHead
<1>4. ASSUME NEW p \in Procs, ReadHead(p) \/ RecoverInstall(p) PROVE Phases'
  <2>1. PICK c \in {"rec_install", "rec_clear"} : pc' = [pc EXCEPT ![p] = c]
    BY <1>4 DEF ReadHead, RecoverInstall
  <2> QED
    BY <1>4, <2>1, PhasesMove, ZenonT(60) DEF ReadHead, RecoverInstall, InstallBlock
<1>5. ASSUME NEW p \in Procs, NEW b \in Blocks, NEW v \in Vals,
             LogWrite(p, b, v) \/ LogWritePanic(p, b)
      PROVE  Phases'
  BY <1>5, PhasesStay DEF LogWrite, LogWritePanic, OpMayWrite
<1>6. ASSUME NEW b \in Blocks, Bread(b) \/ Evict(b) PROVE Phases'
  BY <1>6, PhasesStay DEF Bread, Evict
<1>7. CASE UNCHANGED vars
  BY <1>7, PhasesStay DEF vars
<1>8. \E v \in Vals : TRUE
  BY LogConstants
<1> QED
  BY <1>1, <1>2, <1>3, <1>4, <1>5, <1>6, <1>7, <1>8, PhasesBegin, PhasesEnd,
     PhasesTurn DEF Next, CommitStep, RecoverStep

-----------------------------------------------------------------------------
(* Shape: what is in the two headers, and how far the loops have come.      *)

\* log_write appends a block that is not logged yet and fits the log area.
LEMMA FitsAppend ==
  ASSUME NEW s \in Seq(Blocks), NEW b \in Blocks, Fits(s), b \notin Range(s),
         Len(s) < LogSize - 1
  PROVE  Fits(Append(s, b))
<1>1. /\ Len(Append(s, b)) = Len(s) + 1
      /\ \A i \in 1 .. Len(s) : Append(s, b)[i] = s[i]
      /\ Append(s, b)[Len(s) + 1] = b
  BY SMTT(60)
<1>2. \A i \in 1 .. Len(s) : s[i] # b
  BY SMTT(60) DEF Range
<1> QED
  BY <1>1, <1>2, LogConstants, SMTT(60) DEF Fits

\* An empty header fits.
LEMMA FitsEmpty == Fits(<<>>)
BY LogConstants, SMTT(60) DEF Fits

\* Inside an operation the log on disk is empty and no loop is running.
LEMMA OpAlone ==
  ASSUME TypeOK, LogInv, NEW p \in Procs, pc[p] = "op"
  PROVE  /\ \A q \in Procs : pc[q] \notin Committing \union Recovering \union {"unborn"}
         /\ header = <<>>
         /\ committing = 0
<1>1. \A q \in Procs : pc[q] \notin Committing \union Recovering \union {"unborn"}
  BY ZenonT(60) DEF TypeOK, LogInv, Phases, Alone
<1>2. header = <<>>
  BY <1>1 DEF LogInv, Shape, HeaderOnDisk
<1>3. committing = 0
  BY <1>1 DEF TypeOK, LogInv, Phases
<1> QED
  BY <1>1, <1>2, <1>3

\* Steps outside commit and recovery that leave both headers alone.
LEMMA ShapeStay ==
  ASSUME TypeOK, LogInv, UNCHANGED <<lh, header, tail>>,
         \A q \in Procs : \/ pc'[q] = pc[q]
                          \/ pc[q] \in Waiting /\ pc'[q] \in Waiting \union {"op"}
  PROVE  Shape'
BY SMTT(60) DEF LogInv, Shape, Fits, HeaderOnDisk

\* begin_op, log_write and end_op keep Shape.
LEMMA ShapeOps ==
  ASSUME TypeOK, LogInv, NEW p \in Procs
  PROVE  /\ BeginSleep(p) \/ Kill(p) \/ BeginOp(p) => Shape'
         /\ \A b \in Blocks, v \in Vals : LogWrite(p, b, v) => Shape'
         /\ \A b \in Blocks : LogWritePanic(p, b) => Shape'
         /\ EndOp(p) => Shape'
<1>1. BeginSleep(p) \/ Kill(p) \/ BeginOp(p) => Shape'
  BY ShapeStay DEF TypeOK, BeginSleep, Kill, BeginOp
<1>2. ASSUME NEW b \in Blocks, NEW v \in Vals, LogWrite(p, b, v) PROVE Shape'
  <2>0. Len(lh) < LogSize - 1 /\ lh \in Seq(Blocks) /\ Fits(lh)
    BY <1>2, LogConstants, SMTT(60) DEF TypeOK, LogWrite, TooBig, LogInv, Shape
  <2>1. Fits(lh)'
    <3>1. CASE lh' = lh
      BY <2>0, <3>1 DEF Fits
    <3>2. CASE b \notin Range(lh) /\ lh' = Append(lh, b)
      BY <2>0, <3>2, FitsAppend DEF Fits
    <3> QED
      BY <1>2, <3>1, <3>2 DEF LogWrite
  <2>2. pc' = pc /\ header' = header
    BY <1>2 DEF LogWrite
  <2>3. pc[p] = "op"
    BY <1>2 DEF LogWrite, OpMayWrite
  <2> QED
    BY <2>1, <2>2, <2>3, OpAlone, FitsEmpty DEF Shape, HeaderOnDisk
<1>3. \A b \in Blocks : LogWritePanic(p, b) => Shape'
  BY ShapeStay DEF LogWritePanic
<1>4. ASSUME EndOp(p) PROVE Shape'
  <2>1. pc[p] = "op"
    BY <1>4 DEF EndOp
  <2>2. /\ \A q \in Procs \ {p} : pc'[q] \in Waiting \union {"op"}
        /\ pc'[p] \in {"idle", "done", "write_log"}
        /\ pc'[p] = "done" => lh = <<>>
        /\ pc'[p] = "write_log" => lh # <<>>
    BY <1>4, <2>1, OpAlone, SMTT(60) DEF TypeOK, EndOp, Wakeup
  <2>3. lh # <<>> => 1 <= Len(lh)
    BY SMTT(60) DEF TypeOK
  <2>4. tail'[p] = 1 /\ lh' = lh /\ header' = header
    BY <1>4 DEF TypeOK, EndOp
  <2>5. Fits(lh)' /\ Fits(header)' /\ header' = <<>>
    BY <2>1, <2>4, OpAlone, SMTT(60) DEF LogInv, Shape, Fits
  <2>6. \A q \in Procs \ {p} : pc'[q] \notin Committing \union Recovering
    BY <2>2
  <2> QED
    BY <2>2, <2>3, <2>4, <2>5, <2>6 DEF Shape, HeaderOnDisk
<1> QED
  BY <1>1, <1>2, <1>3, <1>4

\* In commit and recovery only the process that runs it matters.
LEMMA ShapeRunner ==
  ASSUME NEW p \in Procs,
         \A q \in Procs \ {p} : pc'[q] \in Waiting \union {"unborn"},
         Fits(lh)', Fits(header)',
         pc'[p] \notin HeaderOnDisk => header' = <<>>,
         pc'[p] \in HeaderOnDisk \ {"read_head"} => header' = lh',
         pc'[p] \in {"write_log", "install", "rec_install"} => tail'[p] <= Len(lh'),
         pc'[p] \in {"clear", "rec_clear"} => tail'[p] > Len(lh'),
         pc'[p] = "write_head" => Len(lh') >= 1,
         pc'[p] \in {"read_head", "done"} => lh' = <<>>,
         pc'[p] = "read_head" => tail'[p] = 1
  PROVE  Shape'
BY DEF Shape, HeaderOnDisk

\* The steps of commit() and recover_from_log() keep Shape.
LEMMA ShapeDisk ==
  ASSUME TypeOK, LogInv, NEW p \in Procs,
         CommitStep(p) \/ RecoverStep(p) \/ CrashReboot(p)
  PROVE  Shape'
<1>1. CASE WriteLog(p) \/ WriteHead(p) \/ InstallTrans(p) \/ ClearHead(p)
  <2>1. \A q \in Procs \ {p} : pc'[q] \in Waiting
    BY <1>1 DEF TypeOK, WriteLog, WriteHead, InstallTrans, ClearHead, LogInv,
         Phases, Alone
  <2>2. CASE WriteLog(p)
    BY <2>1, <2>2, ShapeRunner, SMTT(60) DEF TypeOK, WriteLog, LogInv, Shape,
         Fits, HeaderOnDisk
  <2>3. CASE WriteHead(p)
    BY <2>1, <2>3, ShapeRunner, SMTT(60) DEF TypeOK, WriteHead, LogInv, Shape,
         Fits, HeaderOnDisk
  <2>4. CASE InstallTrans(p)
    BY <2>1, <2>4, ShapeRunner, SMTT(60)
       DEF TypeOK, InstallTrans, InstallBlock, LogInv, Shape, Fits, HeaderOnDisk
  <2>5. CASE ClearHead(p)
    BY <2>1, <2>5, ShapeRunner, FitsEmpty DEF TypeOK, ClearHead, HeaderOnDisk
  <2> QED
    BY <1>1, <2>2, <2>3, <2>4, <2>5
<1>2. CASE CommitDone(p)
  <2>1. \A q \in Procs : pc'[q] \in Waiting
    BY <1>2, SMTT(60) DEF TypeOK, CommitDone, Wakeup, LogInv, Phases, Alone
  <2>2. header = <<>>
    BY <1>2 DEF TypeOK, CommitDone, LogInv, Phases, Alone, Shape, HeaderOnDisk
  <2>3. header' = <<>> /\ Fits(header)' /\ Fits(lh)'
    BY <1>2, <2>2, SMTT(60) DEF CommitDone, LogInv, Shape, Fits
  <2> QED
    BY <2>1, <2>3 DEF Shape, HeaderOnDisk
<1>3. CASE ReadHead(p) \/ RecoverInstall(p)
  <2>1. \A q \in Procs \ {p} : pc'[q] = "unborn"
    BY <1>3 DEF TypeOK, ReadHead, RecoverInstall, LogInv, Phases, Alone
  <2>2. CASE ReadHead(p)
    BY <2>1, <2>2, ShapeRunner, SMTT(60) DEF TypeOK, ReadHead, LogInv, Shape,
         Fits, HeaderOnDisk
  <2>3. CASE RecoverInstall(p)
    BY <2>1, <2>3, ShapeRunner, SMTT(60)
       DEF TypeOK, RecoverInstall, InstallBlock, LogInv, Shape, Fits, HeaderOnDisk
  <2> QED
    BY <1>3, <2>2, <2>3
<1>4. CASE RecoverClear(p)
  BY <1>4, ShapeRunner, FitsEmpty DEF RecoverClear, HeaderOnDisk
<1>5. CASE CrashReboot(p)
  BY <1>5, ShapeRunner, FitsEmpty, SMTT(60)
     DEF CrashReboot, BootPc, LogInv, Shape, Fits, HeaderOnDisk
<1> QED
  BY <1>1, <1>2, <1>3, <1>4, <1>5 DEF CommitStep, RecoverStep

\* Every step keeps Shape.
LEMMA NextShape == TypeOK /\ LogInv /\ [Next]_vars => Shape'
<1> SUFFICES ASSUME TypeOK, LogInv, [Next]_vars PROVE Shape'
  OBVIOUS
<1>1. ASSUME NEW b \in Blocks, Bread(b) \/ Evict(b) PROVE Shape'
  BY <1>1, ShapeStay DEF Bread, Evict
<1>2. CASE UNCHANGED vars
  BY <1>2, ShapeStay DEF vars
<1> QED
  BY <1>1, <1>2, ShapeOps, ShapeDisk DEF Next

-----------------------------------------------------------------------------
(* PinnedUntilHome.                                                        *)

\* Nothing pends on an empty log.
LEMMA PinnedEmpty ==
  ASSUME lh' = <<>>, pin' = [b \in Blocks |-> 0] PROVE PinnedUntilHome'
BY SMTT(60) DEF PinnedUntilHome, Pending

\* Steps that leave log and pins alone and evict no pinned buffer.
LEMMA PinnedStay ==
  ASSUME TypeOK, LogInv, UNCHANGED <<lh, pin>>,
         \A b \in Blocks : pin[b] = 1 => (cache[b] # NotCached => cache'[b] # NotCached),
         \A i \in 1 .. Len(lh) : Installed(i)' <=> Installed(i),
         \A q \in Procs : pc'[q] \in Recovering <=> pc[q] \in Recovering
  PROVE  PinnedUntilHome'
<1>1. \A b \in Blocks : Pending(b)' <=> Pending(b)
  BY DEF Pending
<1> QED
  BY <1>1 DEF LogInv, PinnedUntilHome

\* Outside install_trans nothing counts as installed.
LEMMA NoneInstalled ==
  ASSUME \A q \in Procs : pc[q] \notin {"install", "clear"}
  PROVE  \A i \in 1 .. Len(lh) : ~Installed(i)
BY DEF Installed

\* begin_op, log_write (bpin once per logged block) and end_op keep the pins.
LEMMA PinnedOps ==
  ASSUME TypeOK, LogInv, NEW p \in Procs
  PROVE  /\ BeginSleep(p) \/ Kill(p) \/ BeginOp(p) => PinnedUntilHome'
         /\ \A b \in Blocks, v \in Vals : LogWrite(p, b, v) => PinnedUntilHome'
         /\ \A b \in Blocks : LogWritePanic(p, b) => PinnedUntilHome'
         /\ EndOp(p) => PinnedUntilHome'
<1>1. ASSUME BeginSleep(p) \/ Kill(p) \/ BeginOp(p) PROVE PinnedUntilHome'
  <2>1. \A q \in Procs : pc'[q] = IF q = p THEN pc'[p] ELSE pc[q]
    BY <1>1 DEF TypeOK, BeginSleep, Kill, BeginOp
  <2>2. pc[p] \in Waiting /\ pc'[p] \in Waiting \union {"op"}
    BY <1>1 DEF TypeOK, BeginSleep, Kill, BeginOp
  <2>3. UNCHANGED <<lh, pin, cache, tail>>
    BY <1>1 DEF BeginSleep, Kill, BeginOp
  <2> QED
    BY <2>1, <2>2, <2>3, PinnedStay DEF Installed
<1>2. ASSUME NEW b \in Blocks, NEW v \in Vals, LogWrite(p, b, v)
      PROVE  PinnedUntilHome'
  <2>1. pc[p] = "op" /\ pc' = pc
    BY <1>2 DEF LogWrite, OpMayWrite
  <2>2. \A i : ~Installed(i) /\ ~Installed(i)'
    BY <2>1, OpAlone DEF Installed
  <2>3. \A c \in Blocks : /\ Pending(c) <=> \E i \in 1 .. Len(lh) : lh[i] = c
                          /\ Pending(c)' <=> \E i \in 1 .. Len(lh') : lh'[i] = c
    BY <2>1, <2>2, OpAlone DEF Pending
  <2>4. \A c \in Blocks : cache'[c] = IF c = b THEN v ELSE cache[c]
    BY <1>2 DEF TypeOK, LogWrite
  <2>5. v # NotCached
    BY LogConstants
  <2>6. CASE b \in Range(lh) /\ UNCHANGED <<lh, pin>>
    BY <2>3, <2>4, <2>5, <2>6, SMTT(60) DEF LogInv, PinnedUntilHome
  <2>7. CASE b \notin Range(lh) /\ lh' = Append(lh, b) /\ pin' = [pin EXCEPT ![b] = @ + 1]
    <3>0. /\ Len(lh) \in Nat
          /\ Len(lh') = Len(lh) + 1
          /\ \A i \in 1 .. Len(lh) : lh'[i] = lh[i]
          /\ lh'[Len(lh) + 1] = b
      BY <2>7, SMTT(60) DEF TypeOK
    <3>1. \A c \in Blocks : Pending(c)' <=> Pending(c) \/ c = b
      BY <2>3, <3>0, SMTT(60)
    <3>2. ~Pending(b)
      <4>1. \A i \in 1 .. Len(lh) : lh[i] # b
        BY <2>7, SMTT(60) DEF TypeOK, Range
      <4> QED
        BY <2>3, <4>1
    <3>3. \A c \in Blocks : pin'[c] = IF c = b THEN pin[c] + 1 ELSE pin[c]
      BY <2>7 DEF TypeOK
    <3> QED
      BY <3>1, <3>2, <3>3, <2>4, <2>5, SMTT(60) DEF LogInv, PinnedUntilHome
  <2> QED
    BY <1>2, <2>6, <2>7 DEF LogWrite
<1>3. \A b \in Blocks : LogWritePanic(p, b) => PinnedUntilHome'
  BY PinnedStay DEF LogWritePanic, Installed
<1>4. ASSUME EndOp(p) PROVE PinnedUntilHome'
  <2>1. pc[p] = "op"
    BY <1>4 DEF EndOp
  <2>2. \A q \in Procs : pc'[q] \notin Recovering \union {"install", "clear"}
    BY <1>4, <2>1, OpAlone DEF TypeOK, EndOp, Wakeup
  <2>3. \A i : ~Installed(i) /\ ~Installed(i)'
    BY <2>1, <2>2, OpAlone DEF Installed
  <2> QED
    BY <1>4, <2>1, <2>2, <2>3, OpAlone, PinnedStay, ZenonT(60) DEF EndOp
<1> QED
  BY <1>1, <1>2, <1>3, <1>4

\* Unpinning follows the copy home, block by block.
LEMMA PinnedInstall ==
  ASSUME TypeOK, LogInv, NEW p \in Procs, InstallTrans(p)
  PROVE  PinnedUntilHome'
<1>1. tail[p] \in 1 .. Len(lh) /\ lh[tail[p]] \in Blocks /\ pc[p] = "install"
  BY SMTT(60) DEF TypeOK, InstallTrans, LogInv, Shape
<1>2. \A q \in Procs \ {p} : pc[q] \in Waiting /\ pc'[q] = pc[q]
  BY DEF TypeOK, InstallTrans, LogInv, Phases, Alone
<1>3. pc'[p] \in {"install", "clear"} /\ tail'[p] = tail[p] + 1 /\ lh' = lh
  BY DEF TypeOK, InstallTrans, InstallBlock
<1>4. \A i \in 1 .. Len(lh) : Installed(i) <=> i < tail[p]
  BY <1>1, <1>2 DEF Installed
<1>10. \A i \in 1 .. Len(lh) : Installed(i)' <=> i < tail[p] + 1
  BY <1>2, <1>3 DEF Installed
<1>5. \A b \in Blocks :
        /\ Pending(b) <=> \E i \in 1 .. Len(lh) : lh[i] = b /\ ~(i < tail[p])
        /\ Pending(b)' <=> \E i \in 1 .. Len(lh) : lh[i] = b /\ ~(i < tail[p] + 1)
  <2>1. \A q \in Procs : pc[q] \notin Recovering /\ pc'[q] \notin Recovering
    BY <1>1, <1>2, <1>3
  <2>2. \A b \in Blocks :
          Pending(b) <=> \E i \in 1 .. Len(lh) : lh[i] = b /\ ~(i < tail[p])
    <3> SUFFICES ASSUME NEW b \in Blocks
                 PROVE  Pending(b) <=> \E i \in 1 .. Len(lh) : lh[i] = b /\ ~(i < tail[p])
      OBVIOUS
    <3>1. Pending(b) <=> \E i \in 1 .. Len(lh) : lh[i] = b /\ ~Installed(i)
      BY <2>1, ZenonT(60) DEF Pending
    <3> QED
      BY <1>4, <3>1, ZenonT(60)
  <2>3. \A b \in Blocks :
          Pending(b)' <=> \E i \in 1 .. Len(lh) : lh[i] = b /\ ~(i < tail[p] + 1)
    <3> SUFFICES ASSUME NEW b \in Blocks
                 PROVE  Pending(b)' <=> \E i \in 1 .. Len(lh) : lh[i] = b /\ ~(i < tail[p] + 1)
      OBVIOUS
    <3>1. Pending(b)' <=> \E i \in 1 .. Len(lh) : lh[i] = b /\ ~Installed(i)'
      BY <1>3, <2>1, ZenonT(60) DEF Pending
    <3> QED
      BY <1>10, <3>1, ZenonT(60)
  <2> QED
    BY <2>2, <2>3
<1>6. \A b \in Blocks : Pending(b)' <=> Pending(b) /\ b # lh[tail[p]]
  <2>1. Len(lh) \in Nat
    BY SMTT(60) DEF TypeOK
  <2>2. \A i \in 1 .. Len(lh) : ~(i < tail[p] + 1) <=> ~(i < tail[p]) /\ i # tail[p]
    BY <1>1, <2>1, SMTT(60)
  <2>3. \A i \in 1 .. Len(lh) : i # tail[p] <=> lh[i] # lh[tail[p]]
    BY <1>1 DEF LogInv, Shape, Fits
  <2> QED
    BY <1>5, <2>2, <2>3
<1>7. Pending(lh[tail[p]])
  <2>1. ~(tail[p] < tail[p])
    BY <1>1, SMTT(60) DEF TypeOK
  <2> QED
    BY <1>1, <1>5, <2>1
<1>8. \A b \in Blocks : pin'[b] = IF b = lh[tail[p]] THEN pin[b] - 1 ELSE pin[b]
  BY <1>1 DEF TypeOK, InstallTrans
<1>9. \A b \in Blocks : b # lh[tail[p]] => cache'[b] = cache[b]
  BY DEF TypeOK, InstallTrans, InstallBlock
<1> QED
  BY <1>6, <1>7, <1>8, <1>9, SMTT(60) DEF LogInv, PinnedUntilHome

\* The steps of commit() keep the pins.
LEMMA PinnedDisk ==
  ASSUME TypeOK, LogInv, NEW p \in Procs,
         CommitStep(p) \/ RecoverStep(p) \/ CrashReboot(p)
  PROVE  PinnedUntilHome'
<1>1. CASE WriteLog(p)
  <2>1. \A q \in Procs : /\ pc[q] \notin Recovering \union {"install", "clear"}
                         /\ pc'[q] \notin Recovering \union {"install", "clear"}
    BY <1>1, ZenonT(60) DEF TypeOK, WriteLog, LogInv, Phases, Alone
  <2>2. lh[tail[p]] \in Blocks /\ Data(lh[tail[p]]) # NotCached
    BY <1>1, LogConstants, SMTT(60) DEF TypeOK, WriteLog, LogInv, Shape, Data
  <2>3. \A b \in Blocks : cache[b] # NotCached => cache'[b] # NotCached
    BY <1>1, <2>2 DEF TypeOK, WriteLog
  <2>4. \A i : ~Installed(i) /\ ~Installed(i)'
    BY <2>1 DEF Installed
  <2> QED
    BY <1>1, <2>1, <2>3, <2>4, PinnedStay DEF WriteLog
<1>2. CASE WriteHead(p)
  <2>1. /\ \A q \in Procs \ {p} : pc[q] \in Waiting /\ pc'[q] = pc[q]
        /\ pc[p] = "write_head" /\ pc'[p] = "install" /\ tail'[p] = 1
    BY <1>2 DEF TypeOK, WriteHead, LogInv, Phases, Alone
  <2>2. \A i \in 1 .. Len(lh) : ~Installed(i) /\ ~Installed(i)'
    BY <2>1, SMTT(60) DEF Installed
  <2> QED
    BY <1>2, <2>1, <2>2, PinnedStay, ZenonT(60) DEF WriteHead
<1>3. CASE ClearHead(p)
  <2>1. \A i \in 1 .. Len(lh) : Installed(i)
    BY <1>3, SMTT(60) DEF TypeOK, ClearHead, LogInv, Shape, Installed
  <2>2. \A b \in Blocks : pin[b] = 0
    BY <2>1 DEF LogInv, PinnedUntilHome, Pending
  <2> QED
    BY <1>3, <2>2, PinnedEmpty DEF TypeOK, ClearHead
<1>4. CASE CommitDone(p)
  <2>1. lh = <<>>
    BY <1>4, ZenonT(60) DEF CommitDone, LogInv, Shape
  <2>2. \A b \in Blocks : pin[b] = 0
    BY <2>1, SMTT(60) DEF LogInv, PinnedUntilHome, Pending
  <2> QED
    BY <1>4, <2>1, <2>2, PinnedEmpty DEF TypeOK, CommitDone
<1>5. CASE RecoverStep(p)
  <2>1. \A b \in Blocks : ~Pending(b)
    BY <1>5 DEF RecoverStep, ReadHead, RecoverInstall, RecoverClear, Pending
  <2>2. pin = [b \in Blocks |-> 0] /\ pin' = pin
    BY <1>5, <2>1 DEF TypeOK, LogInv, PinnedUntilHome, RecoverStep, ReadHead,
                      RecoverInstall, RecoverClear
  <2>3. lh' = <<>> \/ pc'[p] \in Recovering
    BY <1>5 DEF TypeOK, RecoverStep, ReadHead, RecoverInstall, RecoverClear
  <2>4. \A b \in Blocks : ~Pending(b)'
    BY <2>3, SMTT(60) DEF Pending
  <2> QED
    BY <2>2, <2>4 DEF PinnedUntilHome
<1>6. CASE CrashReboot(p)
  BY <1>6, PinnedEmpty DEF CrashReboot
<1> QED
  BY <1>1, <1>2, <1>3, <1>4, <1>5, <1>6, PinnedInstall DEF CommitStep

\* Every step keeps the pins.
LEMMA NextPinned == TypeOK /\ LogInv /\ [Next]_vars => PinnedUntilHome'
<1> SUFFICES ASSUME TypeOK, LogInv, [Next]_vars PROVE PinnedUntilHome'
  OBVIOUS
<1>1. ASSUME NEW b \in Blocks, Bread(b) \/ Evict(b) PROVE PinnedUntilHome'
  <2>1. UNCHANGED <<lh, pin, pc, tail>>
    BY <1>1 DEF Bread, Evict
  <2>2. \A c \in Blocks : pin[c] = 1 => (cache[c] # NotCached => cache'[c] # NotCached)
    BY <1>1, SMTT(60) DEF TypeOK, Bread, Evict
  <2> QED
    BY <2>1, <2>2, PinnedStay DEF Installed
<1>2. CASE UNCHANGED vars
  BY <1>2, PinnedStay DEF vars, Installed
<1> QED
  BY <1>1, <1>2, PinnedOps, PinnedDisk DEF Next

-----------------------------------------------------------------------------
(* Contents: where the newest copy of each block is.                       *)

\* Steps that change no content and move no process into or out of the loops.
LEMMA ContentsStay ==
  ASSUME TypeOK, LogInv, UNCHANGED <<home, logdisk, lh, tail, pin, cache>>,
         \A q \in Procs : \/ pc'[q] = pc[q]
                          \/ pc[q] \in Waiting /\ pc'[q] \in Waiting \union {"op"}
  PROVE  Contents'
BY SMTT(60) DEF LogInv, Contents, HeaderOnDisk

\* begin_op, log_write and end_op keep Contents.
LEMMA ContentsOps ==
  ASSUME TypeOK, LogInv, NEW p \in Procs
  PROVE  /\ BeginSleep(p) \/ Kill(p) \/ BeginOp(p) => Contents'
         /\ \A b \in Blocks, v \in Vals : LogWrite(p, b, v) => Contents'
         /\ \A b \in Blocks : LogWritePanic(p, b) => Contents'
         /\ EndOp(p) => Contents'
<1>1. BeginSleep(p) \/ Kill(p) \/ BeginOp(p) => Contents'
  BY ContentsStay DEF TypeOK, BeginSleep, Kill, BeginOp
<1>2. ASSUME NEW b \in Blocks, NEW v \in Vals, LogWrite(p, b, v)
      PROVE  Contents'
  <2>1. pc[p] = "op" /\ pc' = pc /\ home' = home
    BY <1>2, ZenonT(60) DEF LogWrite, OpMayWrite
  <2>2. \A q \in Procs : pc'[q] \notin Committing \union HeaderOnDisk
    BY <2>1, OpAlone DEF HeaderOnDisk
  <2>3. PinnedUntilHome'
    BY <1>2, PinnedOps
  <2>4. \A c \in Blocks : c # b => cache'[c] = cache[c] /\ pin'[c] = pin[c]
    BY <1>2 DEF TypeOK, LogWrite
  <2>5. pin'[b] # 0
    <3>1. \A c \in Blocks : pin[c] \in {0, 1}
      BY DEF LogInv, PinnedUntilHome
    <3>2. CASE b \in Range(lh) /\ pin' = pin
      <4>0. DOMAIN lh = 1 .. Len(lh)
        BY SMTT(60) DEF TypeOK
      <4>1. \E i \in 1 .. Len(lh) : lh[i] = b
        BY <3>2, <4>0 DEF Range
      <4>2. Pending(b)
        BY <2>1, <4>1, OpAlone, NoneInstalled DEF Pending
      <4> QED
        BY <3>2, <4>2, SMTT(60) DEF LogInv, PinnedUntilHome
    <3>3. CASE pin' = [pin EXCEPT ![b] = @ + 1]
      <4>1. pin'[b] = pin[b] + 1
        BY <3>3 DEF TypeOK
      <4> QED
        BY <3>1, <4>1, SMTT(60)
    <3> QED
      BY <1>2, <3>2, <3>3 DEF LogWrite
  <2> QED
    BY <2>1, <2>2, <2>4, <2>5, ZenonT(60) DEF LogInv, Contents, HeaderOnDisk
<1>3. \A b \in Blocks : LogWritePanic(p, b) => Contents'
  BY ContentsStay DEF LogWritePanic
<1>4. ASSUME EndOp(p) PROVE Contents'
  <2>1. pc[p] = "op"
    BY <1>4 DEF EndOp
  <2>2. /\ \A q \in Procs \ {p} : pc'[q] \in Waiting \union {"op"}
        /\ pc'[p] \in {"idle", "done", "write_log"}
        /\ tail'[p] = 1
    BY <1>4, <2>1, OpAlone, SMTT(60) DEF TypeOK, EndOp, Wakeup
  <2>3. UNCHANGED <<home, logdisk, lh, pin, cache>>
    BY <1>4 DEF EndOp
  <2>4. \A q \in Procs, i \in 1 .. Len(lh) :
          /\ pc'[q] \notin HeaderOnDisk \union {"write_head"}
          /\ pc'[q] = "write_log" => ~(i < tail'[q])
    BY <2>2, SMTT(60) DEF HeaderOnDisk
  <2> QED
    BY <2>3, <2>4, ZenonT(60) DEF LogInv, Contents, HeaderOnDisk
<1> QED
  BY <1>1, <1>2, <1>3, <1>4

\* A block that commit() has still to copy is pinned in the cache.
LEMMA LoopPending ==
  ASSUME TypeOK, LogInv, NEW q \in Procs, NEW i \in 1 .. Len(lh),
         \/ pc[q] \in {"write_log", "write_head"}
         \/ pc[q] = "install" /\ ~(i < tail[q])
  PROVE  /\ lh[i] \in Blocks
         /\ Pending(lh[i])
         /\ pin[lh[i]] = 1
         /\ cache[lh[i]] # NotCached
<1>1. \A r \in Procs \ {q} : pc[r] \in Waiting
  BY DEF LogInv, Phases, Alone
<1>2. ~Installed(i)
  BY <1>1 DEF Installed
<1>3. lh[i] \in Blocks
  BY SMTT(60) DEF TypeOK
<1>4. Pending(lh[i])
  BY <1>1, <1>2 DEF Pending
<1> QED
  BY <1>3, <1>4 DEF LogInv, PinnedUntilHome

\* Reading a block in, or recycling a buffer nobody pinned, loses nothing.
LEMMA ContentsCache ==
  ASSUME TypeOK, LogInv, NEW b \in Blocks, Bread(b) \/ Evict(b)
  PROVE  Contents'
<1>1. UNCHANGED <<home, logdisk, lh, pin, pc, tail>>
  BY ZenonT(60) DEF Bread, Evict
<1>2. \A c \in Blocks : c # b => cache'[c] = cache[c]
  BY DEF TypeOK, Bread, Evict
<1>3. cache'[b] \in {NotCached, home[b]}
  BY DEF TypeOK, Bread, Evict
<1>4. ~Pending(b)
  BY SMTT(60) DEF Bread, Evict, LogInv, PinnedUntilHome
<1>5. \A c \in Blocks : pin'[c] = 0 /\ cache'[c] # NotCached => cache'[c] = home'[c]
  BY <1>1, <1>2, <1>3, ZenonT(60) DEF LogInv, Contents
<1>6. ASSUME NEW q \in Procs, NEW i \in 1 .. Len(lh)
      PROVE  /\ pc[q] = "write_log" /\ i < tail[q] => logdisk[i] = cache'[lh[i]]
             /\ pc[q] = "write_head" => logdisk[i] = cache'[lh[i]]
             /\ pc[q] = "install" /\ i >= tail[q] => logdisk[i] = cache'[lh[i]]
  <2>1. pc[q] = "install" /\ i >= tail[q] => ~(i < tail[q])
    BY SMTT(60) DEF TypeOK
  <2>2. \/ pc[q] \in {"write_log", "write_head"}
        \/ pc[q] = "install" /\ i >= tail[q]
        => lh[i] \in Blocks /\ lh[i] # b
    BY <1>4, <2>1, LoopPending, ZenonT(60)
  <2> QED
    BY <1>2, <2>2, ZenonT(60) DEF LogInv, Contents
<1> QED
  BY <1>1, <1>5, <1>6, ZenonT(80) DEF LogInv, Contents

\* In commit and recovery the assertions about the running process suffice.
LEMMA ContentsRunner ==
  ASSUME NEW p \in Procs,
         \A q \in Procs \ {p} : pc'[q] \in Waiting \union {"unborn"},
         \A b \in Blocks : pin'[b] = 0 /\ cache'[b] # NotCached => cache'[b] = home'[b],
         \A i \in 1 .. Len(lh') :
           /\ pc'[p] = "write_log" /\ i < tail'[p] => logdisk'[i] = cache'[lh'[i]]
           /\ pc'[p] = "write_head" => logdisk'[i] = cache'[lh'[i]]
           /\ pc'[p] = "install" /\ i >= tail'[p] => logdisk'[i] = cache'[lh'[i]]
           /\ pc'[p] \in HeaderOnDisk /\ i < tail'[p] => home'[lh'[i]] = logdisk'[i]
  PROVE  Contents'
BY DEF Contents, HeaderOnDisk

\* write_log copies the buffers, in order, to the log area.
LEMMA ContentsWriteLog ==
  ASSUME TypeOK, LogInv, NEW p \in Procs, WriteLog(p) PROVE Contents'
<1> DEFINE t == tail[p]
<1>1. t \in 1 .. Len(lh) /\ t \in Slots
  BY LogConstants, SMTT(60) DEF TypeOK, WriteLog, LogInv, Shape, Fits, Slots
<1>2. pc[p] = "write_log" /\ \A q \in Procs \ {p} : pc'[q] \in Waiting
  BY DEF TypeOK, WriteLog, LogInv, Phases, Alone
<1>3. lh[t] \in Blocks /\ Data(lh[t]) = cache[lh[t]]
  BY <1>1, <1>2, LoopPending DEF Data
<1>4. cache' = cache
  BY <1>3 DEF TypeOK, WriteLog
<1>5. UNCHANGED <<home, pin, lh>> /\ tail'[p] = t + 1
  BY DEF TypeOK, WriteLog
<1>6. \A i \in Slots : logdisk'[i] = IF i = t THEN cache[lh[t]] ELSE logdisk[i]
  BY <1>3 DEF TypeOK, WriteLog
<1>7. \A i \in 1 .. Len(lh) : i \in Slots
  BY LogConstants, SMTT(60) DEF TypeOK, LogInv, Shape, Fits, Slots
<1>8. \A i \in 1 .. Len(lh) : i < t + 1 => logdisk'[i] = cache[lh[i]]
  <2>1. \A i \in 1 .. Len(lh) : i < t + 1 => i = t \/ i < t
    BY <1>1, SMTT(60) DEF TypeOK
  <2> QED
    BY <1>2, <1>6, <1>7, <2>1 DEF LogInv, Contents
<1>9. pc'[p] = "write_log" \/ (pc'[p] = "write_head" /\ ~(t < Len(lh)))
  BY <1>2 DEF TypeOK, WriteLog
<1>10. ~(t < Len(lh)) => \A i \in 1 .. Len(lh) : i < t + 1
  BY <1>1, SMTT(60) DEF TypeOK
<1>11. \A b \in Blocks : pin'[b] = 0 /\ cache'[b] # NotCached => cache'[b] = home'[b]
  BY <1>4, <1>5 DEF LogInv, Contents
<1> QED
  BY <1>2, <1>4, <1>5, <1>8, <1>9, <1>10, <1>11, ContentsRunner DEF HeaderOnDisk

\* install_trans copies the log home; before the commit and during recovery
\* no buffer holds anything newer than that.
LEMMA ContentsInstall ==
  ASSUME TypeOK, LogInv, NEW p \in Procs, InstallTrans(p) \/ RecoverInstall(p)
  PROVE  Contents'
<1> DEFINE t == tail[p]
<1>1. t \in 1 .. Len(lh) /\ lh[t] \in Blocks
  BY SMTT(60) DEF TypeOK, InstallTrans, RecoverInstall, LogInv, Shape
<1>2. \A q \in Procs \ {p} : pc'[q] \in Waiting \union {"unborn"}
  BY DEF TypeOK, InstallTrans, RecoverInstall, LogInv, Phases, Alone
<1>3. UNCHANGED <<logdisk, lh>> /\ tail'[p] = t + 1
  BY DEF TypeOK, InstallTrans, RecoverInstall, InstallBlock
<1>4. \A b \in Blocks : /\ home'[b] = IF b = lh[t] THEN logdisk[t] ELSE home[b]
                        /\ cache'[b] = IF b = lh[t] THEN logdisk[t] ELSE cache[b]
  BY DEF TypeOK, InstallTrans, RecoverInstall, InstallBlock
<1>5. \A b \in Blocks : b # lh[t] => pin'[b] = pin[b]
  BY DEF TypeOK, InstallTrans, RecoverInstall
<1>6. \A b \in Blocks : pin'[b] = 0 /\ cache'[b] # NotCached => cache'[b] = home'[b]
  BY <1>4, <1>5, ZenonT(60) DEF LogInv, Contents
<1>7. \A i \in 1 .. Len(lh) : lh[i] \in Blocks /\ (lh[i] = lh[t] => i = t)
  BY <1>1, SMTT(60) DEF TypeOK, LogInv, Shape, Fits
<1>8. \A i \in 1 .. Len(lh) : i < t + 1 => home'[lh[i]] = logdisk[i]
  <2>1. \A i \in 1 .. Len(lh) : i < t + 1 => i = t \/ i < t
    BY <1>1, SMTT(60) DEF TypeOK
  <2>2. \A i \in 1 .. Len(lh) : i < t => home[lh[i]] = logdisk[i]
    BY DEF InstallTrans, RecoverInstall, LogInv, Contents, HeaderOnDisk
  <2> QED
    BY <1>4, <1>7, <2>1, <2>2
<1>9. pc'[p] \in {"install", "clear", "rec_install", "rec_clear"}
  BY DEF TypeOK, InstallTrans, RecoverInstall
<1>10. pc'[p] = "install" =>
         \A i \in 1 .. Len(lh) : i >= t + 1 => logdisk[i] = cache'[lh[i]]
  <2> SUFFICES ASSUME pc'[p] = "install", NEW i \in 1 .. Len(lh), i >= t + 1
               PROVE  logdisk[i] = cache'[lh[i]]
    BY ZenonT(60)
  <2>1. pc[p] = "install"
    BY DEF TypeOK, InstallTrans, RecoverInstall
  <2>2. i >= t /\ i # t
    BY <1>1, SMTT(60) DEF TypeOK
  <2>3. logdisk[i] = cache[lh[i]]
    BY <2>1, <2>2 DEF LogInv, Contents
  <2> QED
    BY <1>4, <1>7, <2>2, <2>3, ZenonT(60)
<1> HIDE DEF t
<1> QED
  BY <1>2, <1>3, <1>6, <1>8, <1>9, <1>10, ContentsRunner, SMTT(60) DEF HeaderOnDisk

\* The steps of commit() and recover_from_log() keep Contents.
LEMMA ContentsDisk ==
  ASSUME TypeOK, LogInv, NEW p \in Procs,
         CommitStep(p) \/ RecoverStep(p) \/ CrashReboot(p)
  PROVE  Contents'
<1>1. CASE WriteHead(p)
  <2>1. \A q \in Procs \ {p} : pc'[q] \in Waiting
    BY <1>1 DEF TypeOK, WriteHead, LogInv, Phases, Alone
  <2>2. /\ pc[p] = "write_head" /\ pc'[p] = "install" /\ tail'[p] = 1
        /\ UNCHANGED <<home, logdisk, lh, pin, cache>>
    BY <1>1 DEF TypeOK, WriteHead
  <2>3. \A i \in 1 .. Len(lh) : logdisk[i] = cache[lh[i]]
    BY <2>2, ZenonT(60) DEF LogInv, Contents
  <2>4. \A i \in 1 .. Len(lh) : ~(i < 1)
    BY SMTT(60) DEF TypeOK
  <2>5. \A b \in Blocks : pin[b] = 0 /\ cache[b] # NotCached => cache[b] = home[b]
    BY DEF LogInv, Contents
  <2> QED
    BY <2>1, <2>2, <2>3, <2>4, <2>5, ContentsRunner, ZenonT(60)
<1>2. CASE ClearHead(p) \/ CommitDone(p) \/ RecoverClear(p)
  <2>1. lh' = <<>> /\ UNCHANGED <<home, pin, cache>>
    BY <1>2 DEF ClearHead, CommitDone, RecoverClear, LogInv, Shape
  <2>2. \A i \in 1 .. Len(lh') : FALSE
    BY <2>1, SMTT(60)
  <2>3. \A b \in Blocks : pin[b] = 0 /\ cache[b] # NotCached => cache[b] = home[b]
    BY DEF LogInv, Contents
  <2> QED
    BY <2>1, <2>2, <2>3 DEF Contents
<1>3. CASE ReadHead(p)
  <2>1. \A q \in Procs \ {p} : pc'[q] = "unborn"
    BY <1>3 DEF TypeOK, ReadHead, LogInv, Phases, Alone
  <2>2. /\ pc'[p] \in {"rec_install", "rec_clear"}
        /\ tail'[p] = 1
        /\ UNCHANGED <<home, logdisk, pin, cache>>
        /\ lh' \in Seq(Blocks)
    BY <1>3 DEF TypeOK, ReadHead, LogInv, Shape
  <2>3. \A i \in 1 .. Len(lh') : ~(i < 1)
    BY <2>2, SMTT(60)
  <2>4. \A b \in Blocks : pin[b] = 0 /\ cache[b] # NotCached => cache[b] = home[b]
    BY DEF LogInv, Contents
  <2> QED
    BY <2>1, <2>2, <2>3, <2>4, ContentsRunner, ZenonT(60)
<1>4. CASE CrashReboot(p)
  <2>1. lh' = <<>> /\ cache' = [b \in Blocks |-> NotCached]
    BY <1>4 DEF CrashReboot
  <2>2. \A i \in 1 .. Len(lh') : FALSE
    BY <2>1, SMTT(60)
  <2>3. \A b \in Blocks : cache'[b] = NotCached
    BY <2>1
  <2> QED
    BY <2>2, <2>3, ZenonT(60) DEF Contents
<1> QED
  BY <1>1, <1>2, <1>3, <1>4, ContentsWriteLog, ContentsInstall
     DEF CommitStep, RecoverStep

\* Every step keeps Contents.
LEMMA NextContents == TypeOK /\ LogInv /\ [Next]_vars => Contents'
<1> SUFFICES ASSUME TypeOK, LogInv, [Next]_vars PROVE Contents'
  OBVIOUS
<1>1. CASE UNCHANGED vars
  BY <1>1, ContentsStay DEF vars
<1> QED
  BY <1>1, ContentsOps, ContentsCache, ContentsDisk DEF Next

-----------------------------------------------------------------------------
(* The invariance theorems.                                                *)

\* A freshly booted kernel over an empty log satisfies the invariant.
LEMMA InitInv == Init => LogInv
<1> SUFFICES ASSUME Init PROVE LogInv
  OBVIOUS
<1>1. PICK p \in Procs : pc = BootPc(p)
  BY DEF Init
<1>2. \A q \in Procs : pc[q] = IF q = p THEN "read_head" ELSE "unborn"
  BY <1>1 DEF BootPc
<1>3. Active = {}
  BY <1>2 DEF Active
<1>4. Phases
  BY <1>2, <1>3, FS_EmptySet, SMTT(60) DEF Init, Phases, Alone
<1>5. Shape
  BY <1>2, FitsEmpty DEF Init, Shape, HeaderOnDisk
<1>6. PinnedUntilHome
  BY SMTT(60) DEF Init, PinnedUntilHome, Pending
<1>7. Contents
  BY SMTT(60) DEF Init, Contents
<1> QED
  BY <1>4, <1>5, <1>6, <1>7 DEF LogInv

\* LogInv, with the types, is an inductive invariant of the log.
THEOREM LogInvariant == Spec => [](TypeOK /\ LogInv)
<1>1. Init => TypeOK /\ LogInv
  BY InitType, InitInv
<1>2. TypeOK /\ LogInv /\ [Next]_vars => TypeOK' /\ LogInv'
  BY NextType, NextPhases, NextShape, NextPinned, NextContents DEF LogInv
<1> QED
  BY <1>1, <1>2, PTL DEF Spec

\* Every variable of the log keeps its type, for every log size.
THEOREM LogTypes == Spec => []TypeOK
BY LogInvariant, PTL

\* A logged block is pinned exactly once until it is home (log_write's bpin
\* against install_trans's bunpin).
THEOREM LogPins == Spec => []PinnedUntilHome
<1>1. LogInv => PinnedUntilHome
  BY DEF LogInv
<1> QED
  BY <1>1, LogInvariant, PTL

\* No commit overlaps an operation or another commit, so the two assertion
\* panics of end_op and log_write are unreachable.
THEOREM LogExclusion == Spec => []CommitExcludesOps
<1>1. TypeOK /\ LogInv => CommitExcludesOps
  <2> SUFFICES ASSUME TypeOK, LogInv PROVE CommitExcludesOps
    OBVIOUS
  <2>1. committing = 1 => Active = {}
    BY DEF LogInv, Phases, Alone, Active
  <2>2. \A p, q \in Procs : pc[p] \in Committing /\ pc[q] \in Committing => p = q
    BY DEF LogInv, Phases, Alone
  <2> QED
    BY <2>1, <2>2 DEF LogInv, Phases, CommitExcludesOps
<1> QED
  BY <1>1, LogInvariant, PTL

-----------------------------------------------------------------------------
(* The reservation of begin_op(), its sleepers, and the refinement.        *)

\* LogFull only becomes more so while operations enter and log blocks.
LEMMA LogFullGrows ==
  ASSUME TypeOK, TypeOK', LogFull, outstanding' \in {outstanding, outstanding + 1},
         Len(lh') >= Len(lh)
  PROVE  LogFull'
<1> DEFINE r == (outstanding + 1) * MAXOPBLOCKS
           s == (outstanding' + 1) * MAXOPBLOCKS
<1>1. outstanding \in Nat /\ outstanding' \in Nat /\ Len(lh) \in Nat /\ Len(lh') \in Nat
  BY SMTT(60) DEF TypeOK
<1>2. s \in {r, r + MAXOPBLOCKS}
  <2>1. (outstanding + 1 + 1) * MAXOPBLOCKS = r + MAXOPBLOCKS
    BY <1>1, LogConstants, SMTT(60)
  <2> QED
    BY <2>1
<1>3. r \in Nat /\ MAXOPBLOCKS \in Nat /\ LOGSIZE \in Nat
  BY <1>1, LogConstants, SMTT(60)
<1>4. Len(lh) + r > LOGSIZE
  BY DEF LogFull
<1> HIDE DEF r, s
<1>5. Len(lh') + s > LOGSIZE
  BY <1>1, <1>2, <1>3, <1>4, SMTT(60)
<1> QED
  BY <1>5 DEF LogFull, s

\* Steps after which nobody sleeps, or that only make the log fuller.
LEMMA SleepsStay ==
  ASSUME TypeOK, TypeOK', SleepsForAReason, committing' = committing,
         outstanding' \in {outstanding, outstanding + 1}, Len(lh') >= Len(lh),
         \A q \in Procs : pc'[q] = "sleeping" => pc[q] = "sleeping"
  PROVE  SleepsForAReason'
<1>1. LogFull => LogFull'
  BY LogFullGrows
<1> QED
  BY <1>1 DEF SleepsForAReason

\* Every step leaves each sleeper in begin_op() a reason to sleep.
LEMMA NextSleeps ==
  TypeOK /\ LogInv /\ SleepsForAReason /\ [Next]_vars => SleepsForAReason'
<1> SUFFICES ASSUME TypeOK, LogInv, SleepsForAReason, [Next]_vars
             PROVE  SleepsForAReason'
  OBVIOUS
<1>0. TypeOK' /\ Len(lh) >= Len(lh) /\ outstanding \in Nat
  BY NextType, SMTT(60) DEF TypeOK
<1>1. ASSUME NEW p \in Procs, BeginSleep(p) \/ Kill(p) PROVE SleepsForAReason'
  BY <1>1 DEF BeginSleep, Kill, SleepsForAReason, LogFull, TypeOK
<1>2. ASSUME NEW p \in Procs, BeginOp(p) PROVE SleepsForAReason'
  BY <1>0, <1>2, SleepsStay DEF BeginOp, TypeOK
<1>3. ASSUME NEW p \in Procs, NEW b \in Blocks, NEW v \in Vals, LogWrite(p, b, v)
      PROVE  SleepsForAReason'
  <2>1. Len(Append(lh, b)) >= Len(lh)
    BY SMTT(60) DEF TypeOK
  <2>2. Len(lh') >= Len(lh)
    BY <1>0, <1>3, <2>1 DEF LogWrite
  <2> QED
    BY <1>0, <1>3, <2>2, SleepsStay DEF LogWrite
<1>4. ASSUME NEW p \in Procs, NEW b \in Blocks, LogWritePanic(p, b)
      PROVE  SleepsForAReason'
  BY <1>0, <1>4, SleepsStay DEF LogWritePanic
<1>5. ASSUME NEW p \in Procs, EndOp(p) PROVE SleepsForAReason'
  <2>1. committing = 0
    BY <1>5, OpAlone DEF EndOp
  <2>2. outstanding' # 0 => \A q \in Procs : pc'[q] # "sleeping"
    BY <1>5, <2>1, SMTT(60) DEF TypeOK, EndOp, Wakeup
  <2>3. outstanding' = 0 => committing' = 1
    BY <1>5, ZenonT(60) DEF EndOp
  <2> QED
    BY <2>2, <2>3 DEF SleepsForAReason
<1>6. ASSUME NEW p \in Procs, WriteLog(p) \/ WriteHead(p) \/ InstallTrans(p)
      PROVE  SleepsForAReason'
  <2>1. UNCHANGED <<lh, outstanding, committing>>
    BY <1>6 DEF WriteLog, WriteHead, InstallTrans, InstallBlock
  <2>2. \A q \in Procs : pc'[q] = "sleeping" => pc[q] = "sleeping"
    BY <1>6 DEF TypeOK, WriteLog, WriteHead, InstallTrans
  <2> QED
    BY <1>0, <2>1, <2>2, SleepsStay
<1>7. ASSUME NEW p \in Procs, ClearHead(p) PROVE SleepsForAReason'
  BY <1>7 DEF ClearHead, LogInv, Phases, SleepsForAReason
<1>8. ASSUME NEW p \in Procs, CommitDone(p) PROVE SleepsForAReason'
  BY <1>8 DEF TypeOK, CommitDone, Wakeup, SleepsForAReason
<1>9. ASSUME NEW p \in Procs, RecoverStep(p) PROVE SleepsForAReason'
  <2>1. \A q \in Procs : pc'[q] # "sleeping"
    BY <1>9 DEF TypeOK, RecoverStep, ReadHead, RecoverInstall, RecoverClear,
                LogInv, Phases, Alone
  <2> QED
    BY <2>1 DEF SleepsForAReason
<1>10. ASSUME NEW p \in Procs, CrashReboot(p) PROVE SleepsForAReason'
  BY <1>10 DEF CrashReboot, BootPc, SleepsForAReason
<1>11. ASSUME NEW b \in Blocks, Bread(b) \/ Evict(b) PROVE SleepsForAReason'
  BY <1>0, <1>11, SleepsStay DEF Bread, Evict
<1>12. CASE UNCHANGED vars
  BY <1>0, <1>12, SleepsStay DEF vars
<1> QED
  BY <1>1, <1>2, <1>3, <1>4, <1>5, <1>6, <1>7, <1>8, <1>9, <1>10, <1>11, <1>12
     DEF Next, CommitStep

\* No wakeup is lost: a process asleep in begin_op() still has a reason to.
THEOREM LogNoLostWakeup == Spec => []SleepsForAReason
<1>1. Init => SleepsForAReason
  BY DEF Init, BootPc, SleepsForAReason
<1>2. TypeOK /\ LogInv /\ SleepsForAReason /\ [Next]_vars => SleepsForAReason'
  BY NextSleeps
<1> QED
  BY <1>1, <1>2, LogInvariant, PTL DEF Spec

-----------------------------------------------------------------------------
(* The log implements AtomicDisk.                                          *)

\* An overlay shows the log block of a logged home block, ...
LEMMA OverlayLogged ==
  ASSUME NEW hd \in Seq(Blocks), NEW ld, NEW hm, Fits(hd), NEW i \in 1 .. Len(hd)
  PROVE  Overlay(hd, ld, hm)[hd[i]] = ld[i]
<1>1. hd[i] \in Blocks /\ hd[i] \in Range(hd)
  BY SMTT(60) DEF Range
<1>2. (CHOOSE j \in 1 .. Len(hd) : hd[j] = hd[i]) = i
  BY DEF Fits
<1> QED
  BY <1>1, <1>2, ZenonT(60) DEF Overlay

\* ... and the home block otherwise.
LEMMA OverlayHome ==
  ASSUME NEW hd \in Seq(Blocks), NEW ld, NEW hm, NEW b \in Blocks,
         \A i \in 1 .. Len(hd) : hd[i] # b
  PROVE  Overlay(hd, ld, hm)[b] = hm[b]
<1>1. b \notin Range(hd)
  BY SMTT(60) DEF Range
<1> QED
  BY <1>1 DEF Overlay

\* An empty log overlays nothing.
LEMMA OverlayEmpty ==
  ASSUME NEW ld, NEW hm \in [Blocks -> Vals]
  PROVE  Overlay(<<>>, ld, hm) = hm
<1>1. \A b \in Blocks : b \notin Range(<<>>)
  BY SMTT(60) DEF Range
<1> QED
  BY <1>1 DEF Overlay

\* Installing a log block where the header says changes no overlay.
LEMMA OverlayInstall ==
  ASSUME NEW hd \in Seq(Blocks), NEW ld, NEW hm \in [Blocks -> Vals],
         NEW i \in 1 .. Len(hd)
  PROVE  Overlay(hd, ld, [hm EXCEPT ![hd[i]] = ld[i]]) = Overlay(hd, ld, hm)
<1>1. hd[i] \in Range(hd)
  BY SMTT(60) DEF Range
<1>2. \A b \in Blocks : b \notin Range(hd) => [hm EXCEPT ![hd[i]] = ld[i]][b] = hm[b]
  BY <1>1
<1> QED
  BY <1>2, SMTT(60) DEF Overlay

\* If every log block is home already, the overlay is the home blocks.
LEMMA OverlayInstalled ==
  ASSUME NEW hd \in Seq(Blocks), NEW ld, NEW hm \in [Blocks -> Vals], Fits(hd),
         \A i \in 1 .. Len(hd) : hm[hd[i]] = ld[i]
  PROVE  Overlay(hd, ld, hm) = hm
<1>1. ASSUME NEW b \in Blocks PROVE Overlay(hd, ld, hm)[b] = hm[b]
  <2>1. CASE \E i \in 1 .. Len(hd) : hd[i] = b
    BY <2>1, OverlayLogged, SMTT(60)
  <2>2. CASE \A i \in 1 .. Len(hd) : hd[i] # b
    BY <2>2, OverlayHome, SMTT(60)
  <2> QED
    BY <2>1, <2>2
<1> QED
  BY <1>1, ZenonT(60) DEF Overlay

\* The step that commits: before it the overlay is the old content, after it
\* what bread() returns.
LEMMA CommitPoint ==
  ASSUME TypeOK, LogInv, NEW p \in Procs, WriteHead(p)
  PROVE  /\ Active = {} /\ Active' = {}
         /\ View' = View
         /\ Recovered' = View
<1>1. \A q \in Procs : pc[q] \notin Recovering \union {"op"} /\ pc'[q] \notin Recovering \union {"op"}
  BY ZenonT(60) DEF TypeOK, WriteHead, LogInv, Phases, Alone
<1>2. Active = {} /\ Active' = {}
  BY <1>1 DEF Active
<1>3. UNCHANGED <<home, logdisk, cache, lh>> /\ header' = lh
  BY DEF WriteHead
<1>4. View = [b \in Blocks |-> Data(b)]
  BY <1>1 DEF View
<1>5. View' = [b \in Blocks |-> Data(b)]
  BY <1>1, <1>3 DEF View, Data
<1>6. Recovered' = Overlay(lh, logdisk, home)
  BY <1>3 DEF Recovered
<1>7. ASSUME NEW b \in Blocks PROVE Overlay(lh, logdisk, home)[b] = Data(b)
  <2>0. lh \in Seq(Blocks) /\ Fits(lh) /\ pc[p] = "write_head"
    BY DEF TypeOK, LogInv, Shape, WriteHead
  <2>1. CASE \E i \in 1 .. Len(lh) : lh[i] = b
    <3>1. PICK i \in 1 .. Len(lh) : lh[i] = b
      BY <2>1
    <3>2. Overlay(lh, logdisk, home)[b] = logdisk[i]
      BY <2>0, <3>1, OverlayLogged, SMTT(60)
    <3>3. logdisk[i] = cache[b] /\ cache[b] # NotCached
      BY <2>0, <3>1, LoopPending DEF LogInv, Contents
    <3> QED
      BY <3>2, <3>3 DEF Data
  <2>2. CASE \A i \in 1 .. Len(lh) : lh[i] # b
    <3>1. ~Pending(b)
      BY <2>2 DEF Pending
    <3>2. pin[b] = 0
      BY <3>1 DEF LogInv, PinnedUntilHome
    <3>3. cache[b] # NotCached => cache[b] = home[b]
      BY <3>2, ZenonT(60) DEF LogInv, Contents
    <3>4. Overlay(lh, logdisk, home)[b] = home[b]
      BY <2>0, <2>2, OverlayHome, SMTT(60)
    <3> QED
      BY <3>3, <3>4 DEF Data
  <2> QED
    BY <2>1, <2>2
<1> QED
  BY <1>2, <1>4, <1>5, <1>6, <1>7, ZenonT(60) DEF Overlay

\* The other steps of commit() are invisible.
LEMMA CommitInvisible ==
  ASSUME TypeOK, LogInv, NEW p \in Procs,
         WriteLog(p) \/ InstallTrans(p) \/ ClearHead(p) \/ CommitDone(p)
  PROVE  Recovered' = Recovered /\ View' = View /\ Active' = Active
<1>1. \A q \in Procs : /\ pc[q] \notin Recovering \union {"op"}
                       /\ pc'[q] \notin Recovering \union {"op"}
  <2>1. pc[p] \in Committing
    BY DEF WriteLog, InstallTrans, ClearHead, CommitDone
  <2>2. \A q \in Procs \ {p} : pc[q] \in Waiting
    BY <2>1 DEF LogInv, Phases, Alone
  <2>3. /\ pc'[p] \in Committing \union Waiting
        /\ \A q \in Procs \ {p} : pc'[q] \in {pc[q], "begin"}
    BY DEF TypeOK, WriteLog, InstallTrans, ClearHead, CommitDone, Wakeup
  <2> QED
    BY <2>1, <2>2, <2>3
<1>2. Active' = Active
  BY <1>1, ZenonT(60) DEF Active
<1>3. View = [b \in Blocks |-> Data(b)] /\ View' = [b \in Blocks |-> Data(b)']
  BY <1>1, ZenonT(60) DEF View
<1>4. CASE WriteLog(p)
  <2>1. header = <<>> /\ header' = <<>> /\ home' = home
    BY <1>1, <1>4 DEF TypeOK, WriteLog, LogInv, Shape, HeaderOnDisk, Phases, Alone
  <2>2. Recovered' = Recovered
    BY <2>1, OverlayEmpty DEF TypeOK, Recovered
  <2>3. ASSUME NEW b \in Blocks PROVE Data(b)' = Data(b)
    <3>1. cache \in [Blocks -> Vals \union {NotCached}]
      BY DEF TypeOK
    <3>2. cache' = [cache EXCEPT ![lh[tail[p]]] = Data(lh[tail[p]])]
      BY <1>4, ZenonT(60) DEF WriteLog
    <3>3. CASE b = lh[tail[p]]
      <4>1. cache'[b] = Data(b)
        BY <3>1, <3>2, <3>3, ZenonT(60)
      <4> QED
        BY <2>1, <4>1, ZenonT(60) DEF Data
    <3>4. CASE b # lh[tail[p]]
      <4>1. cache'[b] = cache[b]
        BY <3>1, <3>2, <3>4, ZenonT(60)
      <4> QED
        BY <2>1, <4>1, ZenonT(60) DEF Data
    <3> QED
      BY <3>3, <3>4, ZenonT(60)
  <2> QED
    BY <1>2, <1>3, <2>2, <2>3
<1>5. CASE InstallTrans(p)
  <2>1. tail[p] \in 1 .. Len(lh) /\ lh[tail[p]] \in Blocks /\ header = lh /\ pc[p] = "install"
    BY <1>5, SMTT(60) DEF TypeOK, InstallTrans, LogInv, Shape, HeaderOnDisk
  <2>2. Recovered' = Recovered
    <3>1. /\ header \in Seq(Blocks) /\ home \in [Blocks -> Vals]
          /\ UNCHANGED <<header, logdisk>>
          /\ home' = [home EXCEPT ![header[tail[p]]] = logdisk[tail[p]]]
      BY <1>5, <2>1 DEF TypeOK, InstallTrans, InstallBlock
    <3>2. tail[p] \in 1 .. Len(header)
      BY <2>1, ZenonT(60)
    <3>3. Overlay(header, logdisk, [home EXCEPT ![header[tail[p]]] = logdisk[tail[p]]])
            = Overlay(header, logdisk, home)
      BY <3>1, <3>2, OverlayInstall, ZenonT(60)
    <3> QED
      BY <3>1, <3>3 DEF Recovered
  <2>3. logdisk[tail[p]] = cache[lh[tail[p]]] /\ cache[lh[tail[p]]] # NotCached
    <3>1. tail[p] >= tail[p] /\ ~(tail[p] < tail[p])
      BY SMTT(60) DEF TypeOK
    <3> QED
      BY <2>1, <3>1, LoopPending, ZenonT(60) DEF LogInv, Contents
  <2>4. \A b \in Blocks : Data(b)' = Data(b)
    BY <1>5, <2>1, <2>3 DEF TypeOK, InstallTrans, InstallBlock, Data
  <2> QED
    BY <1>2, <1>3, <2>2, <2>4
<1>6. CASE ClearHead(p)
  <2>1. /\ header = lh /\ header' = <<>> /\ UNCHANGED <<home, logdisk, cache>>
        /\ \A i \in 1 .. Len(header) : home[header[i]] = logdisk[i]
    BY <1>6, SMTT(60) DEF TypeOK, ClearHead, LogInv, Shape, Contents, HeaderOnDisk
  <2>2. Recovered = home
    BY <2>1, OverlayInstalled, ZenonT(60) DEF TypeOK, LogInv, Shape, Recovered
  <2>3. Recovered' = home
    BY <2>1, OverlayEmpty DEF TypeOK, Recovered
  <2> QED
    BY <1>2, <1>3, <2>1, <2>2, <2>3, ZenonT(80) DEF Data
<1>7. CASE CommitDone(p)
  BY <1>2, <1>3, <1>7 DEF CommitDone, Recovered, Data
<1> QED
  BY <1>4, <1>5, <1>6, <1>7

\* So is recovery: bread() will return exactly what the crash left durable.
LEMMA RecoverInvisible ==
  ASSUME TypeOK, LogInv, NEW p \in Procs, RecoverStep(p)
  PROVE  Recovered' = Recovered /\ View' = View /\ Active' = Active
<1>1. pc[p] \in Recovering /\ \A q \in Procs : pc[q] # "op" /\ pc'[q] # "op"
  BY DEF TypeOK, RecoverStep, ReadHead, RecoverInstall, RecoverClear, LogInv,
       Phases, Alone
<1>2. Active' = Active
  BY <1>1 DEF Active
<1>3. View = Recovered
  BY <1>1 DEF View
<1>4. CASE ReadHead(p) \/ RecoverInstall(p)
  <2>1. pc'[p] \in Recovering
    BY <1>4 DEF TypeOK, ReadHead, RecoverInstall
  <2>2. View' = Recovered'
    BY <2>1 DEF View
  <2>3. CASE ReadHead(p)
    BY <2>3, <1>2, <1>3, <2>2 DEF ReadHead, Recovered
  <2>4. CASE RecoverInstall(p)
    <3>1. tail[p] \in 1 .. Len(lh) /\ header = lh
      BY <2>4, SMTT(60) DEF TypeOK, RecoverInstall, LogInv, Shape, HeaderOnDisk
    <3>2. Recovered' = Recovered
      <4>1. /\ header \in Seq(Blocks) /\ home \in [Blocks -> Vals]
            /\ UNCHANGED <<header, logdisk>>
            /\ home' = [home EXCEPT ![header[tail[p]]] = logdisk[tail[p]]]
        BY <2>4, <3>1 DEF TypeOK, RecoverInstall, InstallBlock
      <4>2. tail[p] \in 1 .. Len(header)
        BY <3>1
      <4>3. Overlay(header, logdisk, [home EXCEPT ![header[tail[p]]] = logdisk[tail[p]]])
              = Overlay(header, logdisk, home)
        BY <4>1, <4>2, OverlayInstall, ZenonT(80)
      <4> QED
        BY <4>1, <4>3 DEF Recovered
    <3> QED
      BY <1>2, <1>3, <2>2, <3>2
  <2> QED
    BY <1>4, <2>3, <2>4
<1>5. CASE RecoverClear(p)
  <2>1. /\ header = lh /\ header' = <<>> /\ UNCHANGED <<home, logdisk, cache>>
        /\ \A i \in 1 .. Len(header) : home[header[i]] = logdisk[i]
    BY <1>5, SMTT(60) DEF TypeOK, RecoverClear, LogInv, Shape, Contents, HeaderOnDisk
  <2>2. Recovered = home
    BY <2>1, OverlayInstalled, ZenonT(60) DEF TypeOK, LogInv, Shape, Recovered
  <2>3. Recovered' = home
    BY <2>1, OverlayEmpty DEF TypeOK, Recovered
  <2>4. \A b \in Blocks : pin[b] = 0
    BY <1>1 DEF LogInv, PinnedUntilHome, Pending
  <2>5. \A b \in Blocks : Data(b)' = home[b]
    BY <2>1, <2>4 DEF LogInv, Contents, Data
  <2>6. View' = [b \in Blocks |-> Data(b)']
    BY <1>5 DEF RecoverClear, View
  <2>7. View' = home
    BY <2>5, <2>6 DEF TypeOK
  <2> QED
    BY <1>2, <1>3, <2>2, <2>3, <2>7
<1> QED
  BY <1>4, <1>5 DEF RecoverStep

\* What the calls of the file system do to the abstract disk.
LEMMA OpsVisible ==
  ASSUME TypeOK, LogInv, NEW p \in Procs
  PROVE  /\ BeginSleep(p) \/ Kill(p) => Recovered' = Recovered /\ View' = View /\ Active' = Active
         /\ BeginOp(p) => AD!Begin(p)
         /\ \A b \in Blocks, v \in Vals : LogWrite(p, b, v) => AD!Write(p, b, v)
         /\ \A b \in Blocks : LogWritePanic(p, b)
              => Recovered' = Recovered /\ View' = View /\ Active' = Active
         /\ EndOp(p) => AD!End(p)
         /\ CrashReboot(p) => AD!Crash
<1>1. ASSUME BeginSleep(p) \/ Kill(p)
      PROVE  Recovered' = Recovered /\ View' = View /\ Active' = Active
  <2>1. \A q \in Procs : /\ pc'[q] = "op" <=> pc[q] = "op"
                         /\ pc'[q] \in Recovering <=> pc[q] \in Recovering
    BY <1>1 DEF TypeOK, BeginSleep, Kill
  <2>2. Active' = Active
    BY <2>1 DEF Active
  <2>3. UNCHANGED <<home, logdisk, header, cache>>
    BY <1>1 DEF BeginSleep, Kill
  <2>4. Recovered' = Recovered
    BY <2>3 DEF Recovered
  <2> QED
    BY <2>1, <2>2, <2>3, <2>4 DEF View, Data
<1>2. ASSUME BeginOp(p) PROVE AD!Begin(p)
  <2>1. \A q \in Procs : pc'[q] = IF q = p THEN "op" ELSE pc[q]
    BY <1>2 DEF TypeOK, BeginOp
  <2>2. Active' = Active \union {p}
    BY <2>1 DEF Active
  <2>3. UNCHANGED <<home, logdisk, header, cache>> /\ pc[p] \notin Recovering
    BY <1>2 DEF BeginOp
  <2>4. Recovered' = Recovered
    BY <2>3 DEF Recovered
  <2>5. \A q \in Procs : pc'[q] \in Recovering <=> pc[q] \in Recovering
    BY <2>1, <2>3
  <2>6. View' = View
    BY <2>3, <2>4, <2>5 DEF View, Data
  <2> QED
    BY <2>2, <2>4, <2>6 DEF AD!Begin
<1>3. ASSUME NEW b \in Blocks, NEW v \in Vals, LogWrite(p, b, v)
      PROVE  AD!Write(p, b, v)
  <2>1. pc[p] = "op" /\ pc' = pc /\ UNCHANGED <<home, logdisk, header>>
    BY <1>3 DEF LogWrite, OpMayWrite
  <2>2. \A q \in Procs : pc[q] \notin Recovering /\ pc'[q] \notin Recovering
    BY <2>1, OpAlone
  <2>3. p \in Active /\ Active' = Active
    BY <2>1 DEF Active
  <2>4. Recovered' = Recovered
    BY <2>1 DEF Recovered
  <2>5. View = [c \in Blocks |-> Data(c)] /\ View' = [c \in Blocks |-> Data(c)']
    BY <2>2 DEF View
  <2>6. \A c \in Blocks : Data(c)' = IF c = b THEN v ELSE Data(c)
    BY <1>3, <2>1, LogConstants DEF TypeOK, LogWrite, Data
  <2>7. View' = [View EXCEPT ![b] = v]
    BY <2>5, <2>6
  <2> QED
    BY <2>3, <2>4, <2>7 DEF AD!Write
<1>4. ASSUME NEW b \in Blocks, LogWritePanic(p, b)
      PROVE  Recovered' = Recovered /\ View' = View /\ Active' = Active
  BY <1>4, ZenonT(60) DEF LogWritePanic, Recovered, View, Data, Active
<1>5. ASSUME EndOp(p) PROVE AD!End(p)
  <2>1. pc[p] = "op" /\ UNCHANGED <<home, logdisk, header, cache>>
    BY <1>5 DEF EndOp
  <2>2. \A q \in Procs : /\ pc[q] \notin Recovering /\ pc'[q] \notin Recovering
                         /\ pc'[q] = "op" <=> pc[q] = "op" /\ q # p
    BY <1>5, <2>1, OpAlone, SMTT(60) DEF TypeOK, EndOp, Wakeup
  <2>3. p \in Active /\ Active' = Active \ {p}
    BY <2>1, <2>2 DEF Active
  <2>4. Recovered' = Recovered
    BY <2>1 DEF Recovered
  <2>5. View' = View
    BY <2>1, <2>2 DEF View, Data
  <2> QED
    BY <2>3, <2>4, <2>5 DEF AD!End
<1>6. ASSUME CrashReboot(p) PROVE AD!Crash
  <2>1. \A q \in Procs : pc'[q] = IF q = p THEN "read_head" ELSE "unborn"
    BY <1>6 DEF CrashReboot, BootPc
  <2>2. Active' = {}
    BY <2>1 DEF Active
  <2>3. Recovered' = Recovered
    BY <1>6 DEF CrashReboot, Recovered
  <2>4. View' = Recovered'
    BY <2>1 DEF View
  <2> QED
    BY <2>2, <2>3, <2>4 DEF AD!Crash
<1> QED
  BY <1>1, <1>2, <1>3, <1>4, <1>5, <1>6

\* The buffer cache is transparent.
LEMMA CacheInvisible ==
  ASSUME TypeOK, LogInv, NEW b \in Blocks, Bread(b) \/ Evict(b)
  PROVE  Recovered' = Recovered /\ View' = View /\ Active' = Active
<1>1. UNCHANGED <<home, logdisk, header, pc>>
  BY DEF Bread, Evict
<1>2. Recovered' = Recovered /\ Active' = Active
  BY <1>1 DEF Recovered, Active
<1>3. \A c \in Blocks : Data(c)' = Data(c)
  BY <1>1 DEF TypeOK, Bread, Evict, LogInv, Contents, Data
<1>4. [c \in Blocks |-> Data(c)'] = [c \in Blocks |-> Data(c)]
  BY <1>3
<1>5. View' = IF \E p \in Procs : pc[p] \in Recovering THEN Recovered
              ELSE [c \in Blocks |-> Data(c)']
  BY <1>1, <1>2 DEF View
<1> QED
  BY <1>2, <1>4, <1>5 DEF View

\* Every step of the log is a step of the atomic disk, or invisible.
LEMMA StepRefines == TypeOK /\ LogInv /\ [Next]_vars => [AD!Next]_(AD!vars)
<1> SUFFICES ASSUME TypeOK, LogInv, [Next]_vars PROVE [AD!Next]_(AD!vars)
  OBVIOUS
<1>0. Recovered' = Recovered /\ View' = View /\ Active' = Active => UNCHANGED AD!vars
  BY DEF AD!vars
<1>1. ASSUME NEW p \in Procs,
             BeginSleep(p) \/ Kill(p) \/ BeginOp(p) \/ EndOp(p) \/ CrashReboot(p)
      PROVE  [AD!Next]_(AD!vars)
  BY <1>0, <1>1, OpsVisible DEF AD!Next
<1>2. ASSUME NEW p \in Procs, NEW b \in Blocks, NEW v \in Vals, LogWrite(p, b, v)
      PROVE  AD!Next
  BY <1>2, OpsVisible DEF AD!Next
<1>3. ASSUME NEW p \in Procs, NEW b \in Blocks, LogWritePanic(p, b)
      PROVE  UNCHANGED AD!vars
  BY <1>0, <1>3, OpsVisible
<1>4. ASSUME NEW p \in Procs, CommitStep(p) PROVE [AD!Next]_(AD!vars)
  <2>1. CASE WriteHead(p)
    BY <2>1, CommitPoint DEF AD!Next, AD!Commit
  <2>2. CASE ~WriteHead(p)
    BY <1>0, <1>4, <2>2, CommitInvisible DEF CommitStep
  <2> QED
    BY <2>1, <2>2
<1>5. ASSUME NEW p \in Procs, RecoverStep(p) PROVE UNCHANGED AD!vars
  BY <1>0, <1>5, RecoverInvisible
<1>6. ASSUME NEW b \in Blocks, Bread(b) \/ Evict(b) PROVE UNCHANGED AD!vars
  BY <1>0, <1>6, CacheInvisible
<1>7. CASE UNCHANGED vars
  BY <1>7 DEF vars, AD!vars, Recovered, View, Data, Active
<1> QED
  BY <1>1, <1>2, <1>3, <1>4, <1>5, <1>6, <1>7 DEF Next

\* The log implements the atomic disk, for every set of processes and blocks
\* and every size of the log.
THEOREM LogImplementsAtomicDisk == Spec => ImplementsAtomicDisk
<1>1. Init => AD!Init
  <2> SUFFICES ASSUME Init PROVE AD!Init
    OBVIOUS
  <2>1. Recovered = home
    BY OverlayEmpty DEF Init, Recovered
  <2>2. PICK p \in Procs : pc = BootPc(p)
    BY DEF Init
  <2>3. \A q \in Procs : pc[q] = IF q = p THEN "read_head" ELSE "unborn"
    BY <2>2 DEF BootPc
  <2>4. View = Recovered /\ Active = {}
    BY <2>3 DEF View, Active
  <2> QED
    BY <2>1, <2>4 DEF Init, AD!Init
<1>2. TypeOK /\ LogInv /\ [Next]_vars => [AD!Next]_(AD!vars)
  BY StepRefines
<1> QED
  BY <1>1, <1>2, LogInvariant, PTL DEF Spec, AD!Spec, ImplementsAtomicDisk

\* Between operations everything is on disk: end_op returns only after its
\* commit.
THEOREM LogSynced == Spec => []SyncedWhenIdle
<1>1. TypeOK /\ LogInv => SyncedWhenIdle
  <2> SUFFICES ASSUME TypeOK, LogInv, \A p \in Procs : pc[p] \in Waiting
               PROVE  Recovered = View
    BY DEF SyncedWhenIdle
  <2>1. lh = <<>> /\ header = <<>>
    BY DEF LogInv, Phases, Shape, HeaderOnDisk
  <2>2. Recovered = home
    BY <2>1, OverlayEmpty DEF TypeOK, Recovered
  <2>3. \A b \in Blocks : pin[b] = 0
    BY <2>1, SMTT(60) DEF LogInv, PinnedUntilHome, Pending
  <2>4. \A b \in Blocks : Data(b) = home[b]
    BY <2>3 DEF LogInv, Contents, Data
  <2>5. View = [b \in Blocks |-> Data(b)]
    BY DEF View
  <2> QED
    BY <2>2, <2>4, <2>5 DEF TypeOK
<1> QED
  BY <1>1, LogInvariant, PTL

-----------------------------------------------------------------------------
(* begin_op()'s reservation is never overdrawn.                            *)

LEMMA SpaceStay ==
  ASSUME SpaceInv, UNCHANGED <<lh, wrote>>,
         \A q \in Procs : pc'[q] = "op" <=> pc[q] = "op",
         (\A q \in Procs : pc'[q] \notin Recovering) =>
           \A q \in Procs : pc[q] \notin Recovering
  PROVE  SpaceInv'
<1>1. Active' = Active
  BY DEF Active
<1>2. Logged' = Logged
  BY <1>1 DEF Logged, Own
<1>3. SpaceReserved'
  BY <1>1, <1>2 DEF SpaceInv, SpaceReserved
<1> QED
  BY <1>2, <1>3 DEF SpaceInv

\* With no operation running, nothing is reserved.
NoOps ==
  /\ \A q \in Procs : pc[q] # "op" /\ wrote[q] = {}
  /\ (\A q \in Procs : pc[q] \notin Recovering) => lh = <<>>

LEMMA SpaceIdle == NoOps => SpaceInv
<1> SUFFICES ASSUME NoOps PROVE SpaceInv
  OBVIOUS
<1> USE DEF NoOps
<1>1. Active = {}
  BY DEF Active
<1>2. Logged = {}
  BY <1>1 DEF Logged
<1>3. IsFiniteSet({}) /\ Cardinality({}) = 0
  BY FS_EmptySet
<1>4. Len(<<>>) + 0 * MAXOPBLOCKS - 0 <= LOGSIZE /\ 0 <= MAXOPBLOCKS
  BY LogConstants, SMTT(60)
<1>5. SpaceReserved
  BY <1>1, <1>2, <1>3, <1>4 DEF SpaceReserved
<1> QED
  BY <1>2, <1>3, <1>4, <1>5 DEF SpaceInv

LEMMA SpaceBegin ==
  ASSUME TypeOK, LogInv, SpaceInv, NEW p \in Procs, BeginOp(p)
  PROVE  SpaceInv'
<1>1. /\ pc[p] # "op" /\ wrote[p] = {} /\ lh' = lh /\ wrote' = wrote
      /\ ~LogFull /\ \A q \in Procs : pc'[q] = IF q = p THEN "op" ELSE pc[q]
  BY DEF BeginOp, TypeOK, SpaceInv
<1>2. Active' = Active \union {p} /\ p \notin Active
  BY <1>1 DEF Active
<1>3. Logged' = Logged
  <2>1. Own(p)' = {} /\ \A q \in Active : Own(q)' = Own(q)
    BY <1>1, SMTT(60) DEF Own
  <2> QED
    BY <1>2, <2>1, SMTT(60) DEF Logged
<1>4. Cardinality(Active') = Cardinality(Active) + 1
  BY <1>2, ActiveFinite, FS_AddElement
<1>5. outstanding = Cardinality(Active)
  BY DEF LogInv, Phases
<1>6. Cardinality(Logged) \in Nat
  BY FS_CardinalityType DEF SpaceInv
<1>7. Len(lh) + (outstanding + 1) * MAXOPBLOCKS <= LOGSIZE
  <2>1. PICK r : r = (outstanding + 1) * MAXOPBLOCKS
    OBVIOUS
  <2>2. r \in Nat /\ Len(lh) \in Nat /\ LOGSIZE \in Nat
    BY <2>1, LogConstants, SMTT(60) DEF TypeOK
  <2> QED
    BY <1>1, <2>1, <2>2, SMTT(60) DEF LogFull
<1>8. SpaceReserved'
  <2>1. PICK r : r = (outstanding + 1) * MAXOPBLOCKS
    OBVIOUS
  <2>2. r \in Nat /\ Len(lh) \in Nat /\ LOGSIZE \in Nat /\ Len(lh) + r <= LOGSIZE
    BY <2>1, <1>7, LogConstants, SMTT(60) DEF TypeOK
  <2>3. Len(lh) + r - Cardinality(Logged) <= LOGSIZE
    BY <2>2, <1>6, SMTT(60)
  <2> QED
    BY <1>1, <1>3, <1>4, <1>5, <2>1, <2>3 DEF SpaceReserved
<1>9. \A q \in Procs : wrote[q] \subseteq (IF pc'[q] = "op" THEN Range(lh) ELSE {})
  BY <1>1 DEF SpaceInv
<1> QED
  BY <1>1, <1>3, <1>8, <1>9 DEF SpaceInv

\* A block that is new to the header is new to the operation.
LEMMA SpaceWrite ==
  ASSUME TypeOK, LogInv, SpaceInv, NEW p \in Procs, NEW b \in Blocks, NEW v \in Vals,
         LogWrite(p, b, v)
  PROVE  SpaceInv'
<1>1. /\ pc[p] = "op" /\ pc' = pc /\ Cardinality(wrote[p] \union {b}) <= MAXOPBLOCKS
      /\ \A q \in Procs : wrote'[q] = IF q = p THEN wrote[p] \union {b} ELSE wrote[q]
  BY DEF LogWrite, OpMayWrite, TypeOK
<1>2. \/ b \in Range(lh) /\ lh' = lh
      \/ b \notin Range(lh) /\ lh' = Append(lh, b)
  BY DEF LogWrite
<1>3. Active' = Active /\ p \in Active
  BY <1>1 DEF Active
<1>4. Logged' = Logged \union {<<p, b>>}
  <2>1. {p} \X (wrote[p] \union {b}) = ({p} \X wrote[p]) \union {<<p, b>>}
    BY SMTT(60)
  <2>2. /\ Own(p)' = Own(p) \union {<<p, b>>}
        /\ \A q \in Active \ {p} : Own(q)' = Own(q)
    BY <1>1, <2>1 DEF Active, Own
  <2> QED
    BY <1>3, <2>2, SMTT(60) DEF Logged
<1>5. <<p, b>> \in Logged => b \in Range(lh)
  <2>1. ASSUME NEW q \in Active, <<p, b>> \in Own(q) PROVE b \in wrote[p]
    BY <2>1, SMTT(60) DEF Own
  <2> QED
    BY <1>1, <2>1 DEF Logged, SpaceInv
<1>6. /\ IsFiniteSet(Logged') /\ Cardinality(Logged) \in Nat
      /\ Cardinality(Logged') = IF <<p, b>> \in Logged THEN Cardinality(Logged)
                                                       ELSE Cardinality(Logged) + 1
  BY <1>4, FS_AddElement, FS_CardinalityType DEF SpaceInv
<1>7. /\ Len(lh) \in Nat /\ Range(lh) \subseteq Range(lh') /\ b \in Range(lh')
      /\ Len(lh') = IF b \in Range(lh) THEN Len(lh) ELSE Len(lh) + 1
  <2>1. CASE b \in Range(lh) /\ lh' = lh
    BY <2>1, SMTT(60) DEF TypeOK
  <2>2. CASE b \notin Range(lh) /\ lh' = Append(lh, b)
    <3>1. /\ Len(lh) \in Nat /\ Len(lh') = Len(lh) + 1 /\ lh'[Len(lh) + 1] = b
          /\ \A i \in 1 .. Len(lh) : lh'[i] = lh[i]
          /\ DOMAIN lh = 1 .. Len(lh) /\ DOMAIN lh' = 1 .. Len(lh) + 1
      BY <2>2, SMTT(60) DEF TypeOK
    <3>2. DOMAIN lh \subseteq DOMAIN lh' /\ Len(lh) + 1 \in DOMAIN lh'
      BY <3>1, SMTT(60)
    <3> QED
      BY <2>2, <3>1, <3>2 DEF Range
  <2> QED
    BY <1>2, <2>1, <2>2
<1>8. \A q \in Procs : /\ IsFiniteSet(wrote'[q]) /\ Cardinality(wrote'[q]) <= MAXOPBLOCKS
                       /\ wrote'[q] \subseteq (IF pc'[q] = "op" THEN Range(lh') ELSE {})
  <2>1. IsFiniteSet(wrote[p] \union {b})
    BY FS_AddElement DEF SpaceInv
  <2> QED
    BY <1>1, <1>7, <2>1 DEF SpaceInv
<1>9. SpaceReserved'
  <2>1. PICK r : r = Cardinality(Active) * MAXOPBLOCKS
    OBVIOUS
  <2>2. r \in Nat /\ LOGSIZE \in Nat
    BY <2>1, ActiveFinite, FS_CardinalityType, LogConstants, SMTT(60)
  <2>3. Len(lh) + r - Cardinality(Logged) <= LOGSIZE
        => Len(lh') + r - Cardinality(Logged') <= LOGSIZE
    BY <1>5, <1>6, <1>7, <2>2, SMTT(60)
  <2> QED
    BY <1>1, <1>3, <2>1, <2>3 DEF SpaceInv, SpaceReserved
<1> QED
  BY <1>6, <1>8, <1>9 DEF SpaceInv

\* The end of an operation gives back what it reserved and did not use.
LEMMA SpaceEnd ==
  ASSUME TypeOK, LogInv, SpaceInv, NEW p \in Procs, EndOp(p)
  PROVE  SpaceInv'
<1>1. /\ pc[p] = "op" /\ lh' = lh
      /\ \A q \in Procs : wrote'[q] = IF q = p THEN {} ELSE wrote[q]
  BY DEF EndOp, TypeOK
<1>2. \A q \in Procs : /\ pc'[q] = "op" <=> q # p /\ pc[q] = "op"
                       /\ pc[q] \notin Recovering
  <2>1. committing = 0 /\ \A q \in Procs : pc[q] \notin Recovering
    BY <1>1, OpAlone
  <2> QED
    BY <2>1, SMTT(60) DEF EndOp, TypeOK, Wakeup
<1>3. Active' = Active \ {p} /\ p \in Active
  BY <1>1, <1>2 DEF Active
<1>4. Logged' = Logged \ Own(p) /\ Own(p) \subseteq Logged
  <2>1. ASSUME NEW q \in Active, q # p PROVE Own(q)' = Own(q) /\ Own(q) \intersect Own(p) = {}
    BY <1>1, <2>1, SMTT(60) DEF Own, Active
  <2> QED
    BY <1>3, <2>1, SMTT(60) DEF Logged
<1>5. IsFiniteSet(Own(p)) /\ Cardinality(Own(p)) \in Nat /\ Cardinality(Own(p)) <= MAXOPBLOCKS
  <2>1. IsFiniteSet({p}) /\ Cardinality({p}) = 1
    BY FS_Singleton
  <2>2. IsFiniteSet(wrote[p]) /\ Cardinality(wrote[p]) <= MAXOPBLOCKS
    BY DEF SpaceInv
  <2>3. IsFiniteSet(Own(p)) /\ Cardinality(Own(p)) = 1 * Cardinality(wrote[p])
    BY <2>1, <2>2, FS_Product DEF Own
  <2>4. Cardinality(wrote[p]) \in Nat
    BY <2>2, FS_CardinalityType
  <2> QED
    BY <2>2, <2>3, <2>4, SMTT(60)
<1>6. /\ IsFiniteSet(Logged') /\ Cardinality(Logged) \in Nat
      /\ Cardinality(Logged') = Cardinality(Logged) - Cardinality(Own(p))
  <2>1. IsFiniteSet(Logged) /\ Logged \intersect Own(p) = Own(p)
    BY <1>4 DEF SpaceInv
  <2> QED
    BY <1>4, <2>1, FS_Difference, FS_CardinalityType
<1>7. Cardinality(Active') = Cardinality(Active) - 1 /\ Cardinality(Active) \in Nat
  BY <1>3, ActiveFinite, FS_RemoveElement, FS_CardinalityType
<1>8. SpaceReserved'
  <2>1. PICK n \in Nat : n = Cardinality(Active)
    BY <1>7
  <2>2. PICK r : r = n * MAXOPBLOCKS
    OBVIOUS
  <2>3. r \in Nat /\ LOGSIZE \in Nat /\ MAXOPBLOCKS \in Nat
        /\ (n - 1) * MAXOPBLOCKS = r - MAXOPBLOCKS /\ Len(lh) \in Nat
    BY <2>1, <2>2, LogConstants, SMTT(60) DEF TypeOK
  <2>4. Len(lh) + r - Cardinality(Logged) <= LOGSIZE
    BY <1>2, <2>1, <2>2 DEF SpaceInv, SpaceReserved
  <2>5. Len(lh) + (r - MAXOPBLOCKS) - Cardinality(Logged') <= LOGSIZE
    BY <1>5, <1>6, <2>3, <2>4, SMTT(60)
  <2> QED
    BY <1>1, <1>7, <2>1, <2>3, <2>5 DEF SpaceReserved
<1>9. \A q \in Procs : /\ IsFiniteSet(wrote'[q]) /\ Cardinality(wrote'[q]) <= MAXOPBLOCKS
                       /\ wrote'[q] \subseteq (IF pc'[q] = "op" THEN Range(lh) ELSE {})
  <2>1. IsFiniteSet({}) /\ Cardinality({}) = 0
    BY FS_EmptySet
  <2>2. 0 <= MAXOPBLOCKS
    BY LogConstants, SMTT(60)
  <2> QED
    BY <1>1, <1>2, <2>1, <2>2 DEF SpaceInv
<1> QED
  BY <1>1, <1>6, <1>8, <1>9 DEF SpaceInv

\* Every step keeps within the reservation.
LEMMA NextSpace == TypeOK /\ LogInv /\ SpaceInv /\ [Next]_vars => SpaceInv'
<1> SUFFICES ASSUME TypeOK, LogInv, SpaceInv, [Next]_vars PROVE SpaceInv'
  OBVIOUS
<1>0. NoOps' => SpaceInv'
  BY SpaceIdle, PTL
<1>1. ASSUME NEW p \in Procs, BeginSleep(p) \/ Kill(p) PROVE SpaceInv'
  BY <1>1, SpaceStay DEF BeginSleep, Kill, TypeOK
<1>2. ASSUME NEW p \in Procs, WriteLog(p) \/ WriteHead(p) \/ InstallTrans(p)
      PROVE  SpaceInv'
  BY <1>2, SpaceStay DEF WriteLog, WriteHead, InstallTrans, InstallBlock, TypeOK
<1>3. ASSUME NEW p \in Procs, CommitDone(p) PROVE SpaceInv'
  BY <1>3, SpaceStay DEF CommitDone, Wakeup, TypeOK
<1>4. ASSUME NEW p \in Procs, ClearHead(p) PROVE SpaceInv'
  <2>1. \A q \in Procs : pc'[q] # "op" /\ wrote'[q] = {}
    BY <1>4 DEF ClearHead, TypeOK, LogInv, Phases, Alone, SpaceInv
  <2> QED
    BY <1>0, <1>4, <2>1 DEF ClearHead, NoOps
<1>5. ASSUME NEW p \in Procs, RecoverStep(p) PROVE SpaceInv'
  <2>1. \A q \in Procs : pc[q] # "op" /\ wrote[q] = {}
    BY <1>5 DEF RecoverStep, ReadHead, RecoverInstall, RecoverClear, LogInv, Phases,
                Alone, SpaceInv
  <2>2. \A q \in Procs : pc'[q] # "op" /\ wrote'[q] = {}
    BY <1>5, <2>1 DEF RecoverStep, ReadHead, RecoverInstall, RecoverClear,
                      InstallBlock, TypeOK
  <2>3. (\A q \in Procs : pc'[q] \notin Recovering) => lh' = <<>>
    BY <1>5 DEF RecoverStep, ReadHead, RecoverInstall, RecoverClear, TypeOK
  <2> QED
    BY <1>0, <2>2, <2>3 DEF NoOps
<1>6. ASSUME NEW p \in Procs, CrashReboot(p) PROVE SpaceInv'
  BY <1>0, <1>6 DEF CrashReboot, BootPc, NoOps
<1>7. ASSUME NEW p \in Procs, NEW b \in Blocks, LogWritePanic(p, b) PROVE SpaceInv'
  BY <1>7, SpaceStay DEF LogWritePanic
<1>8. ASSUME NEW b \in Blocks, Bread(b) \/ Evict(b) PROVE SpaceInv'
  BY <1>8, SpaceStay DEF Bread, Evict
<1>9. CASE UNCHANGED vars
  BY <1>9, SpaceStay DEF vars
<1> QED
  BY <1>1, <1>2, <1>3, <1>4, <1>5, <1>6, <1>7, <1>8, <1>9, SpaceBegin, SpaceWrite,
     SpaceEnd DEF Next, CommitStep

\* The header in memory never outgrows logheader.block[LOGSIZE], however the
\* operations that begin_op() let in and the blocks they log interleave.
THEOREM LogSpace == Spec => []SpaceReserved
<1>1. Init => SpaceInv
  BY SpaceIdle DEF Init, BootPc, NoOps
<1>2. TypeOK /\ LogInv /\ SpaceInv /\ [Next]_vars => SpaceInv'
  BY NextSpace
<1>3. SpaceInv => SpaceReserved
  BY DEF SpaceInv
<1> QED
  BY <1>1, <1>2, <1>3, LogInvariant, PTL DEF Spec

=============================================================================
