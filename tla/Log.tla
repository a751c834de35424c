-------------------------------- MODULE Log ---------------------------------
(***************************************************************************)
(* The write-ahead log of kernel/log.c: begin_op, log_write, end_op with   *)
(* commit, and recover_from_log, with a crash possible between any two     *)
(* disk writes.  The buffer cache is reduced to what the log relies on:    *)
(* which blocks are cached, with which content, and how often log_write    *)
(* pinned them.  A disk write of one block is atomic (external: the disk). *)
(***************************************************************************)
EXTENDS Integers, Sequences, FiniteSets, FiniteSetsExt

CONSTANTS Procs,        \* processes that run file-system calls
          Blocks,       \* home block numbers (outside the log area)
          Vals,         \* contents of a block
          NotCached,    \* the block has no buffer in the cache
          MAXOPBLOCKS,  \* param.h: most blocks one operation writes
          LOGSIZE,      \* param.h: length of logheader.block[]
          LogSize       \* log.size, i.e. sb.nlog: header block + data blocks

ASSUME LogConstants ==
  /\ MAXOPBLOCKS \in Nat \ {0}
  /\ LOGSIZE \in Nat
  /\ MAXOPBLOCKS <= LOGSIZE
  /\ LogSize \in Nat \ {0, 1}
  /\ IsFiniteSet(Procs)
  /\ Procs # {}
  /\ Vals # {}
  /\ NotCached \notin Vals

VARIABLES home,         \* disk: the home blocks
          logdisk,      \* disk: the data blocks of the log, log.start+1 ...
          header,       \* disk: the header block, as the sequence block[0..n-1]
          lh,           \* log.lh, the header in memory, as the same sequence
          outstanding,  \* log.outstanding
          committing,   \* log.committing
          panicked,     \* log_write panicked, and holds log.lock for good
          cache,        \* content of a block's buffer, or NotCached
          pin,          \* bpin() count of a block's buffer
          pc,           \* where each process is
          tail,         \* loop counter of write_log / install_trans
          wrote         \* blocks the running operation has logged so far

disk == <<home, logdisk, header>>
log == <<lh, outstanding, committing, panicked>>
bcache == <<cache, pin>>
vars == <<home, logdisk, header, lh, outstanding, committing, panicked,
          cache, pin, pc, tail, wrote>>

Slots == 1 .. (LogSize - 1)     \* data blocks of the on-disk log

Committing == {"write_log", "write_head", "install", "clear", "done"}
Recovering == {"read_head", "rec_install", "rec_clear"}
Waiting == {"idle", "begin", "sleeping"}
PCs == Committing \union Recovering \union Waiting \union {"unborn", "op"}

\* bread(): the buffer's content, read from the disk if it has none.
Data(b) == IF cache[b] = NotCached THEN home[b] ELSE cache[b]

\* wakeup(&log): every process asleep in begin_op() becomes runnable.
NoWakeup(f) == f
Wakeup(f) == [q \in Procs |-> IF f[q] = "sleeping" THEN "begin" ELSE f[q]]

-----------------------------------------------------------------------------
(* begin_op: wait while a commit runs or while the log could overflow.     *)
LogFullByOne == Len(lh) + outstanding * MAXOPBLOCKS > LOGSIZE
LogFull == Len(lh) + (outstanding + 1) * MAXOPBLOCKS > LOGSIZE

BeginSleep(p) ==
  /\ panicked = 0
  /\ pc[p] \in {"idle", "begin"}
  /\ committing = 1 \/ LogFull
  /\ pc' = [pc EXCEPT ![p] = "sleeping"]
  /\ UNCHANGED <<disk, log, bcache, tail, wrote>>

\* kill() wakes a sleeper whatever it waits for; begin_op()'s loop looks again.
Kill(p) ==
  /\ pc[p] = "sleeping"
  /\ pc' = [pc EXCEPT ![p] = "begin"]
  /\ UNCHANGED <<disk, log, bcache, tail, wrote>>

BeginOp(p) ==
  /\ panicked = 0
  /\ pc[p] \in {"idle", "begin"}
  /\ committing = 0 /\ ~LogFull
  /\ outstanding' = outstanding + 1
  /\ pc' = [pc EXCEPT ![p] = "op"]
  /\ UNCHANGED <<disk, lh, committing, panicked, bcache, tail, wrote>>

(* bread; modify b->data; log_write; brelse.  The buffer's sleep-lock makes *)
(* the four one step.  An operation logs at most MAXOPBLOCKS blocks.        *)
OpMayWrite(p, b) ==
  /\ panicked = 0
  /\ pc[p] = "op"
  /\ Cardinality(wrote[p] \union {b}) <= MAXOPBLOCKS

TooBig == Len(lh) >= LOGSIZE \/ Len(lh) >= LogSize - 1

\* Log absorption: the block is in the header already.
NeverAbsorbed(b) == FALSE
Absorbed(b) == b \in Range(lh)

LogWrite(p, b, v) ==
  /\ OpMayWrite(p, b)
  /\ ~TooBig /\ outstanding >= 1
  /\ cache' = [cache EXCEPT ![b] = v]
  /\ wrote' = [wrote EXCEPT ![p] = @ \union {b}]
  /\ \/ /\ Absorbed(b)
        /\ UNCHANGED <<lh, pin>>
     \/ /\ ~Absorbed(b)
        /\ lh' = Append(lh, b)
        /\ pin' = [pin EXCEPT ![b] = @ + 1]
  /\ UNCHANGED <<disk, outstanding, committing, panicked, pc, tail>>

LogWritePanic(p, b) ==
  /\ OpMayWrite(p, b)
  /\ TooBig \/ outstanding < 1                   \* "log_write outside of trans"
  /\ panicked' = 1
  /\ UNCHANGED <<disk, lh, outstanding, committing, bcache, pc, tail, wrote>>

(* end_op: the last operation out commits, without holding log.lock.  The *)
(* code panics, after the decrement, if a commit is already running.       *)
DoCommitIfWorthIt == outstanding - 1 = 0 /\ Len(lh) # 1
DoCommit == outstanding - 1 = 0

EndOp(p) ==
  /\ panicked = 0
  /\ pc[p] = "op"
  /\ outstanding' = outstanding - 1
  /\ panicked' = committing
  /\ committing' = IF DoCommit THEN 1 ELSE committing
  /\ tail' = [tail EXCEPT ![p] = 1]
  /\ wrote' = [wrote EXCEPT ![p] = {}]
  /\ pc' = IF committing = 1 THEN pc
           ELSE IF ~DoCommit THEN Wakeup([pc EXCEPT ![p] = "idle"])
           ELSE IF lh = <<>> THEN [pc EXCEPT ![p] = "done"]
           ELSE [pc EXCEPT ![p] = "write_log"]
  /\ UNCHANGED <<disk, lh, bcache>>

-----------------------------------------------------------------------------
(* commit(): one action per disk write.                                    *)
WriteLog(p) ==
  /\ pc[p] = "write_log"
  /\ logdisk' = [logdisk EXCEPT ![tail[p]] = Data(lh[tail[p]])]
  /\ cache' = [cache EXCEPT ![lh[tail[p]]] = Data(lh[tail[p]])]
  /\ tail' = [tail EXCEPT ![p] = @ + 1]
  /\ pc' = [pc EXCEPT ![p] = IF tail[p] < Len(lh) THEN @ ELSE "write_head"]
  /\ UNCHANGED <<home, header, log, pin, wrote>>

WriteHead(p) ==
  /\ pc[p] = "write_head"
  /\ header' = lh
  /\ tail' = [tail EXCEPT ![p] = 1]
  /\ pc' = [pc EXCEPT ![p] = "install"]
  /\ UNCHANGED <<home, logdisk, log, bcache, wrote>>

\* One turn of install_trans's loop: home and buffer get the log block.
InstallBlock(p) ==
  /\ home' = [home EXCEPT ![lh[tail[p]]] = logdisk[tail[p]]]
  /\ cache' = [cache EXCEPT ![lh[tail[p]]] = logdisk[tail[p]]]
  /\ tail' = [tail EXCEPT ![p] = @ + 1]
  /\ UNCHANGED <<logdisk, header, log, wrote>>

InstallTrans(p) ==
  /\ pc[p] = "install"
  /\ InstallBlock(p)
  /\ pin' = [pin EXCEPT ![lh[tail[p]]] = @ - 1]
  /\ pc' = [pc EXCEPT ![p] = IF tail[p] < Len(lh) THEN @ ELSE "clear"]

ClearHead(p) ==
  /\ pc[p] = "clear"
  /\ lh' = <<>>
  /\ header' = <<>>
  /\ pc' = [pc EXCEPT ![p] = "done"]
  /\ UNCHANGED <<home, logdisk, outstanding, committing, panicked, bcache,
                 tail, wrote>>

CommitDone(p) ==
  /\ pc[p] = "done"
  /\ committing' = 0
  /\ pc' = Wakeup([pc EXCEPT ![p] = "idle"])
  /\ UNCHANGED <<disk, lh, outstanding, panicked, bcache, tail, wrote>>

-----------------------------------------------------------------------------
(* bget() of a block nobody has cached, and its recycling of a buffer that *)
(* nobody holds or pins.                                                   *)
Bread(b) ==
  /\ \A p \in Procs : pc[p] \notin Recovering
  /\ cache[b] = NotCached
  /\ cache' = [cache EXCEPT ![b] = home[b]]
  /\ UNCHANGED <<disk, log, pin, pc, tail, wrote>>

Evict(b) ==
  /\ cache[b] # NotCached
  /\ pin[b] = 0
  /\ cache' = [cache EXCEPT ![b] = NotCached]
  /\ UNCHANGED <<disk, log, pin, pc, tail, wrote>>

-----------------------------------------------------------------------------
(* A crash loses everything but the disk.  After the reboot one process    *)
(* runs fsinit -> initlog -> recover_from_log before any other exists.     *)
BootPc(p) == [q \in Procs |-> IF q = p THEN "read_head" ELSE "unborn"]

CrashReboot(p) ==
  /\ lh' = <<>>
  /\ outstanding' = 0
  /\ committing' = 0
  /\ panicked' = 0
  /\ cache' = [b \in Blocks |-> NotCached]
  /\ pin' = [b \in Blocks |-> 0]
  /\ pc' = BootPc(p)
  /\ tail' = [q \in Procs |-> 1]
  /\ wrote' = [q \in Procs |-> {}]
  /\ UNCHANGED disk

ReadHeadOnly(p) ==
  /\ pc[p] = "read_head"
  /\ lh' = header
  /\ pc' = [pc EXCEPT ![p] = "rec_clear"]
  /\ UNCHANGED <<disk, outstanding, committing, panicked, bcache, tail, wrote>>
ReadHead(p) ==
  /\ pc[p] = "read_head"
  /\ lh' = header
  /\ pc' = [pc EXCEPT ![p] = IF header = <<>> THEN "rec_clear"
                                              ELSE "rec_install"]
  /\ UNCHANGED <<disk, outstanding, committing, panicked, bcache, tail, wrote>>

RecoverInstall(p) ==
  /\ pc[p] = "rec_install"
  /\ InstallBlock(p)
  /\ pc' = [pc EXCEPT ![p] = IF tail[p] < Len(lh) THEN @ ELSE "rec_clear"]
  /\ UNCHANGED pin

RecoverClear(p) ==
  /\ pc[p] = "rec_clear"
  /\ lh' = <<>>
  /\ header' = <<>>
  /\ pc' = [q \in Procs |-> "idle"]
  /\ UNCHANGED <<home, logdisk, outstanding, committing, panicked, bcache,
                 tail, wrote>>

-----------------------------------------------------------------------------
Init ==
  /\ home \in [Blocks -> Vals]
  /\ logdisk \in [Slots -> Vals]
  /\ header = <<>>                       \* mkfs leaves the log empty
  /\ lh = <<>>
  /\ outstanding = 0
  /\ committing = 0
  /\ panicked = 0
  /\ cache = [b \in Blocks |-> NotCached]
  /\ pin = [b \in Blocks |-> 0]
  /\ \E p \in Procs : pc = BootPc(p)
  /\ tail = [q \in Procs |-> 1]
  /\ wrote = [q \in Procs |-> {}]

CommitStep(p) ==
  \/ WriteLog(p)
  \/ WriteHead(p)
  \/ InstallTrans(p)
  \/ ClearHead(p)
  \/ CommitDone(p)

RecoverStep(p) ==
  \/ ReadHead(p)
  \/ RecoverInstall(p)
  \/ RecoverClear(p)

Next ==
  \/ \E p \in Procs :
       \/ BeginSleep(p) \/ Kill(p)
       \/ BeginOp(p)
       \/ EndOp(p)
       \/ CommitStep(p)
       \/ RecoverStep(p)
       \/ CrashReboot(p)
  \/ \E p \in Procs, b \in Blocks, v \in Vals : LogWrite(p, b, v)
  \/ \E p \in Procs, b \in Blocks : LogWritePanic(p, b)
  \/ \E b \in Blocks : Bread(b) \/ Evict(b)

Spec == Init /\ [][Next]_vars

\* A runnable process runs on, every operation reaches its end_op(), and the
\* disk completes every request.  Nothing forces a process to call begin_op().
Fairness ==
  \A p \in Procs :
    /\ WF_vars(pc[p] = "begin" /\ (BeginSleep(p) \/ BeginOp(p)))
    /\ WF_vars(EndOp(p))
    /\ WF_vars(CommitStep(p))
    /\ WF_vars(RecoverStep(p))

FairSpec == Spec /\ Fairness

-----------------------------------------------------------------------------
TypeOK ==
  /\ home \in [Blocks -> Vals]
  /\ logdisk \in [Slots -> Vals]
  /\ header \in Seq(Blocks) /\ lh \in Seq(Blocks)
  /\ outstanding \in Nat
  /\ committing \in {0, 1} /\ panicked \in {0, 1}
  /\ cache \in [Blocks -> Vals \union {NotCached}]
  /\ pin \in [Blocks -> Int]
  /\ pc \in [Procs -> PCs]
  /\ tail \in [Procs -> Nat \ {0}]
  /\ wrote \in [Procs -> SUBSET Blocks]

\* The home blocks hm with the log blocks ld laid over them as header hd says.
Overlay(hd, ld, hm) ==
  [b \in Blocks |-> IF b \in Range(hd)
                    THEN ld[CHOOSE i \in 1 .. Len(hd) : hd[i] = b]
                    ELSE hm[b]]

\* What a reboot would find: the committed log, if any, over the home blocks.
Recovered == Overlay(header, logdisk, home)

\* What bread() returns now (during recovery nobody can ask yet).
View ==
  IF \E p \in Procs : pc[p] \in Recovering THEN Recovered
  ELSE [b \in Blocks |-> Data(b)]

Active == {p \in Procs : pc[p] = "op"}

AD == INSTANCE AtomicDisk
        WITH durable <- Recovered, current <- View, active <- Active

\* The log implements the atomic disk: whatever the interleaving of
\* operations, commits and crashes, the durable content moves only by whole
\* groups of finished operations (commit, install_trans, recover_from_log).
ImplementsAtomicDisk == AD!Spec

\* No operation is in progress while a commit runs, and log.outstanding counts
\* the operations exactly: neither panic("log.committing") in end_op nor
\* panic("log_write outside of trans") can be reached.
CommitExcludesOps ==
  /\ outstanding = Cardinality(Active)
  /\ committing = 1 => Active = {}
  /\ committing = 1 <=> \E p \in Procs : pc[p] \in Committing
  /\ \A p, q \in Procs : pc[p] \in Committing /\ pc[q] \in Committing => p = q

\* The i-th logged block has been copied home by the running commit.
Installed(i) ==
  \E p \in Procs : pc[p] \in {"install", "clear"} /\ i < tail[p]

Pending(b) ==
  /\ \E i \in 1 .. Len(lh) : lh[i] = b /\ ~Installed(i)
  /\ \A p \in Procs : pc[p] \notin Recovering

\* log_write pins a block once however often it is logged, install_trans
\* undoes exactly that: a logged block stays in the cache until it is home,
\* and nothing stays pinned afterwards.
PinnedUntilHome ==
  \A b \in Blocks : IF Pending(b) THEN pin[b] = 1 /\ cache[b] # NotCached
                                  ELSE pin[b] = 0

\* begin_op's reservation covers every block the running operations may still
\* log, the reserved blocks less those each has logged already: the in-memory
\* header never outgrows logheader.block[LOGSIZE].
Own(p) == {p} \X wrote[p]
Logged == UNION {Own(p) : p \in Active}
SpaceReserved ==
  (\A p \in Procs : pc[p] \notin Recovering)
    => Len(lh) + Cardinality(Active) * MAXOPBLOCKS - Cardinality(Logged) <= LOGSIZE

\* When no operation and no commit is in progress, everything written is on
\* disk: the end_op that ends the last operation returns after the commit.
SyncedWhenIdle ==
  (\A p \in Procs : pc[p] \in Waiting) => Recovered = View

\* A process sleeps in begin_op() only while it has to: whenever the commit is
\* over or a finished operation gave back its reservation, end_op has woken it.
SleepsForAReason ==
  \A p \in Procs : pc[p] = "sleeping" => committing = 1 \/ LogFull

\* Every process asleep in begin_op() is woken again, by the end of another
\* operation or of the commit (or the machine crashes, or log_write panics).
EveryWaiterWoken ==
  \A p \in Procs : pc[p] = "sleeping" ~> pc[p] # "sleeping" \/ panicked = 1

-----------------------------------------------------------------------------
(* The inductive invariant behind the theorems of LogProofs.               *)

Alone(p) ==
  /\ pc[p] \in Committing => \A q \in Procs \ {p} : pc[q] \in Waiting
  /\ pc[p] \in Recovering => \A q \in Procs \ {p} : pc[q] = "unborn"

Phases ==
  /\ outstanding = Cardinality(Active)
  /\ committing = 1 <=> \E p \in Procs : pc[p] \in Committing
  /\ \A p \in Procs : Alone(p)
  /\ (\E p \in Procs : pc[p] = "unborn") => \E p \in Procs : pc[p] \in Recovering
  /\ (\A p \in Procs : pc[p] \in Waiting) => lh = <<>>

Fits(s) ==
  /\ Len(s) <= LogSize - 1
  /\ \A i, j \in 1 .. Len(s) : s[i] = s[j] => i = j

HeaderOnDisk == {"read_head", "install", "clear", "rec_install", "rec_clear"}

Shape ==
  /\ Fits(lh) /\ Fits(header)
  /\ (\A p \in Procs : pc[p] \notin HeaderOnDisk) => header = <<>>
  /\ \A p \in Procs :
       /\ pc[p] \in HeaderOnDisk \ {"read_head"} => header = lh
       /\ pc[p] \in {"write_log", "install", "rec_install"} => tail[p] <= Len(lh)
       /\ pc[p] \in {"clear", "rec_clear"} => tail[p] > Len(lh)
       /\ pc[p] = "write_head" => Len(lh) >= 1
       /\ pc[p] \in {"read_head", "done"} => lh = <<>>
       /\ pc[p] = "read_head" => tail[p] = 1

Contents ==
  /\ \A b \in Blocks : pin[b] = 0 /\ cache[b] # NotCached => cache[b] = home[b]
  /\ \A p \in Procs, i \in 1 .. Len(lh) :
       /\ pc[p] = "write_log" /\ i < tail[p] => logdisk[i] = cache[lh[i]]
       /\ pc[p] = "write_head" => logdisk[i] = cache[lh[i]]
       /\ pc[p] = "install" /\ i >= tail[p] => logdisk[i] = cache[lh[i]]
       /\ pc[p] \in HeaderOnDisk /\ i < tail[p] => home[lh[i]] = logdisk[i]

LogInv == Phases /\ Shape /\ PinnedUntilHome /\ Contents

\* The operations running have logged at most what they reserved.
SpaceInv ==
  /\ IsFiniteSet(Logged)
  /\ \A p \in Procs :
       /\ IsFiniteSet(wrote[p]) /\ Cardinality(wrote[p]) <= MAXOPBLOCKS
       /\ wrote[p] \subseteq (IF pc[p] = "op" THEN Range(lh) ELSE {})
  /\ SpaceReserved

=============================================================================
