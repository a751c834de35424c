----------------------------- MODULE ProcProofs -----------------------------
(***************************************************************************)
(* The safety properties of Proc, for any number of slots and CPUs, any    *)
(* programs and any victims of kill(): together they are inductive.        *)
(***************************************************************************)
EXTENDS Proc, TLAPS

USE ZenonT(60) DEF Goto, locks, Runs, Unlocked, WaitHeld, TicksHeld, Forking,
                 Orphaned, Live, AsleepInWait

\* The part of OneStackOneCpu about CPUs.
Stacks ==
  /\ \A c, d \in CPUs : cpu[c] = cpu[d] => c = d \/ cpu[c] = None
  /\ \A p \in Slots :
       (\E c \in CPUs : cpu[c] = p) <=> (state[p] = "RUNNING" \/ p \in plock)
  /\ \A p \in plock : state[p] \in {"RUNNABLE", "SLEEPING", "ZOMBIE"}

Inv == TypeOK /\ Stacks /\ Control /\ NoMissedWakeup /\ ParentCanWait

USE DEF Inv

-----------------------------------------------------------------------------
(* Constants and places in the code.                                       *)

LEMMA Constants ==
  /\ NPROC \in Nat /\ NPROC >= 1 /\ initproc \in Slots
  /\ 0 \in 0 .. NPROC /\ \A n \in Slots : n \in 0 .. NPROC /\ n \in Int /\ n >= 1
  /\ Ticks \notin Slots /\ None \notin Slots /\ Clock \notin Slots /\ Clock # None
  BY ProcConstants, SMTT(60) DEF Slots, initproc, Ticks

USE Constants

LEMMA Spins ==
  /\ DOMAIN Spin = {"fork_parent", "exit", "wait", "sleep", "sleep_again"}
  /\ Spin["fork_parent"] = "fork_spin" /\ Spin["exit"] = "exit_spin"
  /\ Spin["wait"] = "wait_spin" /\ Spin["sleep"] = "sleep_spin"
  /\ Spin["sleep_again"] = "again_spin"
  BY DEF Spin

LEMMA Places ==
  PCs = {"user", "fork_parent", "fork_run", "exit", "wait", "sleep", "sleep_again",
         "fork_spin", "exit_spin", "wait_spin", "sleep_spin", "again_spin",
         "none", "wait_scan", "wait_check", "wait_sleep", "wake_init",
         "wake_parent", "exit_zombie", "sleep_test", "sleep_sleep", "panic"}
  BY Spins DEF PCs

LEMMA Scans ==
  ASSUME NEW i \in Slots
  PROVE  ScanNext(i) \in 0 .. NPROC /\ (ScanNext(i) # 0 => ScanNext(i) = i + 1)
         /\ (ScanNext(i) = 0 => \A q \in Slots : q <= i)
  BY SMTT(60) DEF Slots, ScanNext

LEMMA ScanSlot ==
  ASSUME TypeOK, Control, NEW p \in Slots,
         pc[p] \in {"wait_scan", "wake_init", "wake_parent"}
  PROVE  idx[p] \in Slots
  BY SMTT(60) DEF TypeOK, Control, Slots

LEMMA ForkSlot ==
  ASSUME TypeOK, Control, NEW p \in Slots, pc[p] \in Forking
  PROVE  local[p] \in Slots /\ state[local[p]] = "USED"
  BY SMTT(60) DEF TypeOK, Control, Slots

LEMMA Running ==
  ASSUME TypeOK, Stacks, NEW p \in Slots, Runs(p)
  PROVE  state[p] = "RUNNING"
  BY DEF TypeOK, Stacks

\* A turn of wakeup(ch) at slot i wakes i if it sleeps on ch, and does no more.
LEMMA Wakes ==
  ASSUME TypeOK, NEW i \in Slots, NEW ch, WakeupAt(i, ch)
  PROVE  /\ state' \in [Slots -> States]
         /\ \A q \in Slots :
              \/ state'[q] = state[q]
              \/ q = i /\ state[q] = "SLEEPING" /\ state'[q] = "RUNNABLE"
         /\ state[i] = "SLEEPING" /\ chan[i] = ch => state'[i] = "RUNNABLE"
  BY DEF TypeOK, WakeupAt, States

-----------------------------------------------------------------------------
(* Every action keeps the invariant.                                       *)

LEMMA DispatchInv ==
  ASSUME Inv, NEW c \in CPUs, NEW p \in Slots, Dispatch(c, p)
  PROVE  Inv'
<1>1. TypeOK'
  BY Places DEF TypeOK, States, Dispatch
<1>2. Stacks'
  BY SMTT(60) DEF TypeOK, Stacks, Dispatch
<1>3. Control'
  BY SMTT(60) DEF TypeOK, Control, Dispatch
<1>4. NoMissedWakeup'
  BY SMTT(60) DEF TypeOK, Control, NoMissedWakeup, ZombiesSeen, ParentAwake,
       ScannedAlive,
         TicksSeen, Dispatch
<1>5. ParentCanWait'
  BY SMTT(60) DEF TypeOK, Control, ParentCanWait, Dispatch
<1> QED
  BY <1>1, <1>2, <1>3, <1>4, <1>5, ZenonT(60)

LEMMA SwitchOutInv ==
  ASSUME Inv, NEW c \in CPUs, SwitchOut(c)
  PROVE  Inv'
<1>1. TypeOK'
  BY Places DEF TypeOK, States, SwitchOut
<1>2. Stacks'
  BY SMTT(60) DEF TypeOK, Stacks, SwitchOut
<1>3. Control'
  BY SMTT(60) DEF TypeOK, Control, SwitchOut
<1>4. NoMissedWakeup'
  BY SMTT(60) DEF TypeOK, Control, NoMissedWakeup, ZombiesSeen, ParentAwake,
       ScannedAlive,
         TicksSeen, SwitchOut
<1>5. ParentCanWait'
  BY DEF TypeOK, Control, ParentCanWait, SwitchOut
<1> QED
  BY <1>1, <1>2, <1>3, <1>4, <1>5, ZenonT(60)

LEMMA YieldInv ==
  ASSUME Inv, NEW p \in Slots, Yield(p)
  PROVE  Inv'
<1>1. state[p] = "RUNNING"
  BY Running DEF Yield
<1>2. TypeOK'
  BY <1>1, Places DEF TypeOK, States, Yield
<1>3. Stacks'
  BY <1>1, SMTT(60) DEF TypeOK, Stacks, Yield
<1>4. Control'
  BY <1>1, SMTT(60) DEF TypeOK, Control, Yield
<1>5. NoMissedWakeup'
  BY <1>1, SMTT(60)
     DEF TypeOK, Control, NoMissedWakeup, ZombiesSeen, ParentAwake, ScannedAlive,
         TicksSeen, Yield
<1>6. ParentCanWait'
  BY <1>1, SMTT(60) DEF TypeOK, Control, ParentCanWait, Yield
<1> QED
  BY <1>2, <1>3, <1>4, <1>5, <1>6, ZenonT(60)

\* A process only moves on: it holds what it held.
LEMMA MoveInv ==
  ASSUME Inv, NEW p \in Slots,
         PushOff(p) \/ Exit(p) \/ Wait(p) \/ SysSleep(p) \/ WaitCheck(p) \/ SleepTest(p)
  PROVE  Inv'
<1>1. /\ Runs(p)
      /\ UNCHANGED <<state, parent, killed, chan, locks, cpu, idx, local, elapsed, clk>>
  BY ZenonT(60) DEF PushOff, Exit, Wait, SysSleep, WaitCheck, SleepTest
<1>2. PICK l \in PCs :
        /\ pc' = [pc EXCEPT ![p] = l]
        /\ \/ pc[p] = "user" /\ l \in {"panic", "wait", "sleep"}
           \/ pc[p] = "user" /\ l = "exit" /\ p # initproc
           \/ pc[p] = "fork_parent" /\ l = "fork_spin"
           \/ pc[p] = "exit" /\ l = "exit_spin"
           \/ pc[p] \in {"wait", "sleep", "sleep_again"}
              /\ l \in {"wait_spin", "sleep_spin", "again_spin"}
           \/ pc[p] = "wait_check" /\ l = "wait_sleep"
           \/ pc[p] = "sleep_test" /\ l = "sleep_sleep" /\ elapsed[p] = 0
  BY Spins, Places DEF PushOff, Exit, Wait, SysSleep, WaitCheck, SleepTest
<1>3. state[p] = "RUNNING"
  BY <1>1, Running
<1>4. TypeOK'
  BY <1>1, <1>2 DEF TypeOK
<1>5. Stacks'
  BY <1>1, ZenonT(60) DEF Stacks
<1>6. Control'
  BY <1>1, <1>2, <1>3, SMTT(60) DEF TypeOK, Control
<1>7. NoMissedWakeup'
  BY <1>1, <1>2, SMTT(60)
     DEF TypeOK, NoMissedWakeup, ZombiesSeen, ParentAwake, ScannedAlive, TicksSeen
<1>8. ParentCanWait'
  BY <1>1, <1>2 DEF TypeOK, ParentCanWait
<1> QED
  BY <1>4, <1>5, <1>6, <1>7, <1>8, ZenonT(60)

LEMMA ForkInv ==
  ASSUME Inv, NEW p \in Slots, NEW n \in Slots, Fork(p, n)
  PROVE  Inv'
<1>1. state[p] = "RUNNING"
  BY Running DEF Fork
<1>2. TypeOK'
  BY <1>1, Places DEF TypeOK, States, Fork, Free
<1>3. Stacks'
  BY <1>1 DEF TypeOK, Stacks, Fork, Free
<1>4. Control'
  <2>1. /\ n # p /\ pc[n] = "none"
        /\ \A q \in Slots : pc[q] \in Forking => local[q] \in Slots /\ local[q] # n
    BY <1>1, ForkSlot DEF Control, Fork, Free
  <2>2. \A q \in Slots : /\ state'[q] = IF q = n THEN "USED" ELSE state[q]
                         /\ local'[q] = IF q = p THEN n ELSE local[q]
                         /\ pc'[q] = IF q = p THEN "fork_parent" ELSE pc[q]
    BY DEF TypeOK, Fork
  <2>3. ASSUME NEW q \in Slots, pc'[q] \in Forking
        PROVE  local'[q] # 0 /\ state'[local'[q]] = "USED"
    BY <2>1, <2>2, <2>3, ForkSlot, SMTT(60) DEF Slots
  <2> QED
    BY <1>1, <2>1, <2>2, <2>3, SMTT(60) DEF Control, Fork, Free
<1>5. NoMissedWakeup'
  BY <1>1, SMTT(60)
     DEF TypeOK, Control, NoMissedWakeup, ZombiesSeen, ParentAwake, ScannedAlive,
         TicksSeen, Fork, Free
<1>6. ParentCanWait'
  BY <1>1, SMTT(60) DEF TypeOK, Control, ParentCanWait, Fork, Free
<1> QED
  BY <1>2, <1>3, <1>4, <1>5, <1>6, ZenonT(60)

LEMMA ForkFailInv ==
  ASSUME Inv, NEW p \in Slots, NEW n \in Slots, ForkFail(p, n)
  PROVE  Inv'
<1>1. state[p] = "RUNNING"
  BY Running DEF ForkFail
<1>2. TypeOK'
  BY <1>1, Places DEF TypeOK, States, ForkFail, Free, FreeProc
<1>3. Stacks'
  BY <1>1 DEF TypeOK, Stacks, ForkFail, Free, FreeProc
<1>4. Control'
  BY <1>1, SMTT(60) DEF TypeOK, Control, ForkFail, Free, FreeProc
<1>5. NoMissedWakeup'
  BY <1>1, SMTT(60)
     DEF TypeOK, Control, NoMissedWakeup, ZombiesSeen, ParentAwake, ScannedAlive,
         TicksSeen, ForkFail, Free, FreeProc
<1>6. ParentCanWait'
  BY <1>1, SMTT(60)
     DEF TypeOK, Control, ParentCanWait, ForkFail, Free, FreeProc
<1> QED
  BY <1>2, <1>3, <1>4, <1>5, <1>6, ZenonT(60)

LEMMA ForkParentInv ==
  ASSUME Inv, NEW p \in Slots, ForkParent(p)
  PROVE  Inv'
<1>1. /\ state[p] = "RUNNING"
      /\ local[p] \in Slots /\ state[local[p]] = "USED"
  BY Running, ForkSlot DEF ForkParent
<1>2. TypeOK'
  BY <1>1, Places DEF TypeOK, States, ForkParent
<1>3. Stacks'
  BY <1>1 DEF TypeOK, Stacks, ForkParent
<1>4. Control'
  BY <1>1, SMTT(60) DEF TypeOK, Control, ForkParent
<1>5. NoMissedWakeup'
  BY <1>1, SMTT(60)
     DEF TypeOK, Control, NoMissedWakeup, ZombiesSeen, ParentAwake, ScannedAlive,
         TicksSeen, ForkParent
<1>6. ParentCanWait'
  <2>1. \A q \in Slots : pc[q] \in Forking /\ q # p => local[q] \in Slots /\ local[q] # local[p]
    BY ForkSlot, SMTT(60) DEF ForkParent, Control
  <2> QED
    BY <1>1, <2>1, SMTT(60) DEF TypeOK, Control, ParentCanWait, ForkParent
<1> QED
  BY <1>2, <1>3, <1>4, <1>5, <1>6, ZenonT(60)

LEMMA ForkRunInv ==
  ASSUME Inv, NEW p \in Slots, ForkRun(p)
  PROVE  Inv'
<1>1. /\ state[p] = "RUNNING"
      /\ local[p] \in Slots /\ state[local[p]] = "USED"
  BY Running, ForkSlot DEF ForkRun
<1>2. TypeOK'
  BY <1>1, Places DEF TypeOK, States, ForkRun
<1>3. Stacks'
  BY <1>1 DEF TypeOK, Stacks, ForkRun
<1>4. Control'
  BY <1>1, SMTT(60) DEF TypeOK, Control, ForkRun
<1>5. NoMissedWakeup'
  BY <1>1, SMTT(60)
     DEF TypeOK, Control, NoMissedWakeup, ZombiesSeen, ParentAwake, ScannedAlive,
         TicksSeen, ForkRun
<1>6. ParentCanWait'
  BY <1>1, SMTT(60) DEF TypeOK, Control, ParentCanWait, ForkRun
<1> QED
  BY <1>2, <1>3, <1>4, <1>5, <1>6, ZenonT(60)

LEMMA KillInv ==
  ASSUME Inv, NEW p \in Slots, NEW t \in Slots, Kill(p, t) \/ KillZero(p, t)
  PROVE  Inv'
<1>1. /\ killed' = [killed EXCEPT ![t] = 1] /\ t \notin plock
      /\ state' = IF state[t] = "SLEEPING" THEN [state EXCEPT ![t] = "RUNNABLE"]
                  ELSE state
      /\ UNCHANGED <<parent, chan, locks, cpu, pc, idx, local, elapsed, clk>>
  BY DEF Kill, KillZero, Free
<1>2. TypeOK'
  BY <1>1 DEF TypeOK, States
<1>3. Stacks'
  BY <1>1 DEF TypeOK, Stacks
<1>4. Control'
  BY <1>1, ForkSlot, SMTT(60) DEF TypeOK, Control
<1>5. NoMissedWakeup'
  BY <1>1, SMTT(60)
     DEF TypeOK, NoMissedWakeup, ZombiesSeen, ParentAwake, ScannedAlive, TicksSeen
<1>6. ParentCanWait'
  BY <1>1 DEF TypeOK, ParentCanWait
<1> QED
  BY <1>2, <1>3, <1>4, <1>5, <1>6, ZenonT(60)

LEMMA ExitReparentInv ==
  ASSUME Inv, NEW p \in Slots, ExitReparent(p)
  PROVE  Inv'
<1>1. state[p] = "RUNNING"
  BY Running DEF ExitReparent
<1>2. TypeOK'
  BY <1>1, Places, SMTT(60)
     DEF TypeOK, States, ExitReparent, Reparent, Children
<1>3. Stacks'
  BY <1>1 DEF TypeOK, Stacks, ExitReparent, Reparent, Children
<1>4. Control'
  BY <1>1, SMTT(60) DEF TypeOK, Control, ExitReparent, Reparent, Children
<1>5. /\ p # initproc /\ parent[p] \in Slots
      /\ \A q \in Slots : parent'[q] = IF parent[q] = p THEN initproc ELSE parent[q]
      /\ \A q \in Slots : pc[q] \notin WaitHeld
      /\ idx'[p] = 1 /\ \A q \in Slots : q # p => pc'[q] = pc[q]
      /\ pc'[p] = IF \A q \in Slots : parent[q] # p THEN "wake_parent" ELSE "wake_init"
  BY <1>1, SMTT(60)
     DEF TypeOK, ParentCanWait, Control, ExitReparent, Reparent, Children
<1>6. NoMissedWakeup'
  <2>1. ZombiesSeen'
    BY <1>5, SMTT(60) DEF NoMissedWakeup, ZombiesSeen, ExitReparent, initproc
  <2>2. ParentAwake'
    BY <1>5, SMTT(60) DEF ParentAwake, Slots, initproc
  <2>3. ScannedAlive'
    BY <1>5 DEF ScannedAlive
  <2>4. TicksSeen'
    BY <1>5, SMTT(60) DEF NoMissedWakeup, TicksSeen, ExitReparent
  <2> QED
    BY <2>1, <2>2, <2>3, <2>4, ZenonT(60) DEF NoMissedWakeup
<1>7. ParentCanWait'
  <2>1. UNCHANGED <<state, local>>
    BY DEF ExitReparent
  <2>2. \A q \in Slots : pc[q] = "fork_run" => local[q] \in Slots /\ q # p /\ pc[q] \in Forking
    BY ForkSlot DEF ExitReparent
  <2> QED
    BY <1>5, <2>1, <2>2, SMTT(60) DEF TypeOK, ParentCanWait
<1> QED
  BY <1>2, <1>3, <1>4, <1>6, <1>7, ZenonT(60)

LEMMA ExitWakeupInv ==
  ASSUME Inv, NEW p \in Slots, ExitWakeup(p)
  PROVE  Inv'
<1>1. /\ state[p] = "RUNNING" /\ idx[p] \in Slots
      /\ pc[p] \in {"wake_init", "wake_parent"}
  BY Running, ScanSlot DEF ExitWakeup
<1>2. PICK i \in Slots : i = idx[p]
  BY <1>1
<1>3. /\ state' \in [Slots -> States]
      /\ \A q \in Slots :
           \/ state'[q] = state[q]
           \/ q = i /\ state[q] = "SLEEPING" /\ state'[q] = "RUNNABLE"
      /\ pc[p] = "wake_init" => ~(state'[i] = "SLEEPING" /\ chan[i] = initproc)
      /\ pc[p] = "wake_parent" => ~(state'[i] = "SLEEPING" /\ chan[i] = parent[p])
  <2>1. CASE i = p
    BY <1>1, <1>2, <2>1 DEF TypeOK, ExitWakeup
  <2>2. CASE i # p
    BY <1>1, <1>2, <2>2, Wakes DEF ExitWakeup
  <2> QED
    BY <2>1, <2>2
<1>4. /\ \A q \in Slots : q # p => pc'[q] = pc[q] /\ idx'[q] = idx[q]
      /\ \/ pc'[p] = pc[p] /\ idx'[p] = i + 1 /\ i + 1 \in Slots
         \/ pc[p] = "wake_init" /\ pc'[p] = "wake_parent" /\ idx'[p] = 1 /\ i = NPROC
         \/ pc[p] = "wake_parent" /\ pc'[p] = "exit_zombie" /\ idx'[p] = 0 /\ i = NPROC
      /\ UNCHANGED <<parent, killed, chan, locks, cpu, local, elapsed, clk>>
  BY <1>1, <1>2, SMTT(60) DEF TypeOK, ExitWakeup, ScanNext, Slots
<1>5. TypeOK'
  <2>1. pc' \in [Slots -> PCs]
    BY <1>1, <1>2, Places DEF TypeOK, ExitWakeup
  <2>2. idx' \in [Slots -> 0 .. NPROC]
    BY <1>1, <1>2, Scans, SMTT(60) DEF TypeOK, ExitWakeup
  <2> QED
    BY <1>3, <1>4, <2>1, <2>2 DEF TypeOK
<1>6. Stacks'
  BY <1>3, <1>4 DEF TypeOK, Stacks
<1>7. Control'
  <2>1. \A q \in Slots : pc[q] \in Forking => local[q] \in Slots /\ state'[local[q]] = "USED"
    BY <1>3, ForkSlot
  <2>2. pc'[p] \in {"wake_init", "wake_parent", "exit_zombie"}
        /\ (pc'[p] # "exit_zombie" => idx'[p] # 0)
    BY <1>1, <1>2, <1>4, SMTT(60)
  <2>3. ASSUME NEW q \in Slots, q # p
        PROVE  /\ (pc[q] = "none") <=> state'[q] \notin Live
               /\ state'[q] \in Live \ {"RUNNING"} => pc[q] \in Unlocked
               /\ state'[q] = "SLEEPING" => \/ chan[q] = q /\ pc[q] = "wait"
                                            \/ chan[q] = Ticks /\ pc[q] = "sleep_again"
    BY <1>3, <2>3, SMTT(60) DEF Control
  <2>4. state'[p] = "RUNNING"
    BY <1>1, <1>3
  <2> QED
    BY <1>1, <1>4, <2>1, <2>2, <2>3, <2>4, SMTT(60) DEF Control
<1>8. NoMissedWakeup'
  <2>1. \A q \in Slots : q # p => pc[q] \notin WaitHeld
    BY <1>1, SMTT(60) DEF Control
  <2>2. ZombiesSeen'
    BY <1>1, <1>2, <1>3, <1>4, <2>1, SMTT(60)
       DEF NoMissedWakeup, ZombiesSeen, initproc
  <2>3. ParentAwake'
    <3>1. parent[p] \in Slots
      BY <1>1 DEF TypeOK, ParentCanWait
    <3> QED
      BY <1>1, <1>2, <1>3, <1>4, <2>1, <3>1, SMTT(60)
         DEF NoMissedWakeup, ParentAwake, Slots
  <2>4. ScannedAlive'
    BY <1>1, <1>4, <2>1 DEF ScannedAlive
  <2>5. TicksSeen'
    BY <1>3, <1>4 DEF NoMissedWakeup, TicksSeen
  <2> QED
    BY <2>2, <2>3, <2>4, <2>5, ZenonT(60) DEF NoMissedWakeup
<1>9. ParentCanWait'
  BY <1>1, <1>3, <1>4, ForkSlot, SMTT(60) DEF TypeOK, ParentCanWait
<1> QED
  BY <1>5, <1>6, <1>7, <1>8, <1>9, ZenonT(60)

LEMMA ExitZombieInv ==
  ASSUME Inv, NEW p \in Slots, ExitZombie(p)
  PROVE  Inv'
<1>1. state[p] = "RUNNING"
  BY Running DEF ExitZombie
<1>2. TypeOK'
  BY <1>1, Places DEF TypeOK, States, ExitZombie
<1>3. Stacks'
  BY <1>1, SMTT(60) DEF TypeOK, Stacks, ExitZombie
<1>4. Control'
  BY <1>1, SMTT(60) DEF TypeOK, Control, ExitZombie
<1>5. NoMissedWakeup'
  BY <1>1, SMTT(60)
     DEF TypeOK, Control, NoMissedWakeup, ZombiesSeen, ParentAwake, ScannedAlive,
         TicksSeen, ExitZombie
<1>6. ParentCanWait'
  BY <1>1, SMTT(60) DEF TypeOK, Control, ParentCanWait, ExitZombie
<1> QED
  BY <1>2, <1>3, <1>4, <1>5, <1>6, ZenonT(60)

LEMMA WaitLockInv ==
  ASSUME Inv, NEW p \in Slots, WaitLock(p)
  PROVE  Inv'
<1>1. state[p] = "RUNNING"
  BY Running DEF WaitLock
<1>2. TypeOK'
  BY <1>1, Places, SMTT(60) DEF TypeOK, States, WaitLock
<1>3. Stacks'
  BY <1>1 DEF TypeOK, Stacks, WaitLock
<1>4. Control'
  BY <1>1, SMTT(60) DEF TypeOK, Control, WaitLock
<1>5. NoMissedWakeup'
  <2>1. ZombiesSeen'
    BY <1>1, SMTT(60)
       DEF TypeOK, Control, ZombiesSeen, NoMissedWakeup, WaitLock
  <2>2. ParentAwake'
    BY <1>1, SMTT(60)
       DEF TypeOK, Control, ParentAwake, NoMissedWakeup, WaitLock
  <2>3. ScannedAlive'
    BY SMTT(60) DEF TypeOK, Control, ScannedAlive, NoMissedWakeup, WaitLock, Slots
  <2>4. TicksSeen'
    BY <1>1, SMTT(60)
       DEF TypeOK, Control, TicksSeen, NoMissedWakeup, WaitLock
  <2> QED
    BY <2>1, <2>2, <2>3, <2>4, ZenonT(60) DEF NoMissedWakeup
<1>6. ParentCanWait'
  BY <1>1, SMTT(60) DEF TypeOK, Control, ParentCanWait, WaitLock
<1> QED
  BY <1>2, <1>3, <1>4, <1>5, <1>6, ZenonT(60)

\* wait() returns without a child.
LEMMA WaitFailsInv ==
  ASSUME Inv, NEW p \in Slots, WaitFails(p) \/ WaitCopyoutFails(p)
  PROVE  Inv'
<1>1. /\ Runs(p) /\ pc[p] \in {"wait_scan", "wait_check"}
      /\ pc' = [pc EXCEPT ![p] = "user"]
      /\ WaitReturn(p) /\ UNCHANGED <<state, parent, killed, chan>>
  BY DEF WaitFails, WaitCopyoutFails
<1>2. state[p] = "RUNNING"
  BY <1>1, Running
<1>3. TypeOK'
  BY <1>1, Places DEF TypeOK, WaitReturn
<1>4. Stacks'
  BY <1>1, ZenonT(60) DEF Stacks, WaitReturn
<1>5. Control'
  BY <1>1, <1>2, SMTT(60) DEF TypeOK, Control, WaitReturn
<1>6. NoMissedWakeup'
  BY <1>1
     DEF TypeOK, NoMissedWakeup, ZombiesSeen, ParentAwake, ScannedAlive, TicksSeen,
         WaitReturn
<1>7. ParentCanWait'
  BY <1>1 DEF TypeOK, ParentCanWait, WaitReturn
<1> QED
  BY <1>3, <1>4, <1>5, <1>6, <1>7, ZenonT(60)

LEMMA WaitReapInv ==
  ASSUME Inv, NEW p \in Slots, WaitReap(p)
  PROVE  Inv'
<1>1. state[p] = "RUNNING" /\ idx[p] \in Slots
  BY Running, ScanSlot DEF WaitReap
<1>2. TypeOK'
  BY <1>1, Places
     DEF TypeOK, States, WaitReap, FreeProc, WaitReturn, ZombieAt
<1>3. Stacks'
  BY <1>1
     DEF TypeOK, Stacks, WaitReap, FreeProc, WaitReturn, ZombieAt
<1>4. Control'
  BY <1>1, SMTT(60)
     DEF TypeOK, Control, WaitReap, FreeProc, WaitReturn, ZombieAt
<1>5. NoMissedWakeup'
  BY <1>1, SMTT(60)
     DEF TypeOK, Control, NoMissedWakeup, ZombiesSeen, ParentAwake, ScannedAlive,
         TicksSeen, WaitReap, FreeProc, WaitReturn, ZombieAt
<1>6. ParentCanWait'
  BY <1>1, SMTT(60)
     DEF TypeOK, Control, ParentCanWait, WaitReap, FreeProc, WaitReturn, ZombieAt
<1> QED
  BY <1>2, <1>3, <1>4, <1>5, <1>6, ZenonT(60)

LEMMA WaitSkipInv ==
  ASSUME Inv, NEW p \in Slots, WaitSkip(p)
  PROVE  Inv'
<1>1. state[p] = "RUNNING" /\ idx[p] \in Slots
  BY Running, ScanSlot DEF WaitSkip
<1>2. TypeOK'
  BY <1>1, Places, Scans, SMTT(60) DEF TypeOK, States, WaitSkip
<1>3. Stacks'
  BY <1>1, Scans DEF TypeOK, Stacks, WaitSkip
<1>4. Control'
  BY <1>1, Scans, SMTT(60) DEF TypeOK, Control, WaitSkip
<1>5. NoMissedWakeup'
  <2>1. ZombiesSeen'
    BY <1>1, Scans, SMTT(60)
       DEF TypeOK, Control, ZombiesSeen, NoMissedWakeup, WaitSkip
  <2>2. ParentAwake'
    BY <1>1, Scans, SMTT(60)
       DEF TypeOK, Control, ParentAwake, NoMissedWakeup, WaitSkip
  <2>3. ScannedAlive'
    <3>1. PICK i \in Slots : i = idx[p]
      BY <1>1
    <3>2. /\ \A q \in Slots : q # p => pc'[q] = pc[q] /\ idx'[q] = idx[q]
          /\ UNCHANGED <<state, parent>> /\ ~(parent[i] = p /\ state[i] = "ZOMBIE")
          /\ \/ pc'[p] = "wait_scan" /\ idx'[p] = i + 1
             \/ pc'[p] = "wait_check" /\ i = NPROC
      BY <1>1, <3>1, SMTT(60) DEF TypeOK, WaitSkip, ScanNext
    <3>3. \A q \in Slots : q < i => ~(parent[q] = p /\ state[q] = "ZOMBIE")
      BY <3>1 DEF NoMissedWakeup, ScannedAlive, WaitSkip
    <3>4. \A q \in Slots : q < i \/ q = i \/ (q >= i + 1 /\ i # NPROC)
      BY SMTT(60) DEF Slots
    <3> QED
      BY <3>2, <3>3, <3>4, SMTT(60) DEF NoMissedWakeup, ScannedAlive
  <2>4. TicksSeen'
    BY <1>1, Scans, SMTT(60)
       DEF TypeOK, Control, TicksSeen, NoMissedWakeup, WaitSkip
  <2> QED
    BY <2>1, <2>2, <2>3, <2>4, ZenonT(60) DEF NoMissedWakeup
<1>6. ParentCanWait'
  BY <1>1, Scans, SMTT(60) DEF TypeOK, Control, ParentCanWait, WaitSkip
<1> QED
  BY <1>2, <1>3, <1>4, <1>5, <1>6, ZenonT(60)

LEMMA WaitSleepInv ==
  ASSUME Inv, NEW p \in Slots, WaitSleep(p)
  PROVE  Inv'
<1>1. state[p] = "RUNNING"
  BY Running DEF WaitSleep
<1>2. TypeOK'
  BY <1>1, Places DEF TypeOK, States, WaitSleep, Sleep
<1>3. Stacks'
  BY <1>1, SMTT(60) DEF TypeOK, Stacks, WaitSleep, Sleep
<1>4. Control'
  BY <1>1, SMTT(60) DEF TypeOK, Control, WaitSleep, Sleep
<1>5. NoMissedWakeup'
  <2>1. ZombiesSeen'
    BY <1>1, SMTT(60)
       DEF TypeOK, Control, ZombiesSeen, ScannedAlive, NoMissedWakeup, WaitSleep,
           Sleep
  <2>2. ParentAwake'
    BY <1>1, SMTT(60)
       DEF TypeOK, Control, ParentAwake, NoMissedWakeup, WaitSleep, Sleep
  <2>3. ScannedAlive'
    BY <1>1, SMTT(60)
       DEF TypeOK, Control, ScannedAlive, NoMissedWakeup, WaitSleep, Sleep
  <2>4. TicksSeen'
    BY <1>1, SMTT(60)
       DEF TypeOK, Control, TicksSeen, NoMissedWakeup, WaitSleep, Sleep
  <2> QED
    BY <2>1, <2>2, <2>3, <2>4, ZenonT(60) DEF NoMissedWakeup
<1>6. ParentCanWait'
  BY <1>1, SMTT(60) DEF TypeOK, Control, ParentCanWait, WaitSleep, Sleep
<1> QED
  BY <1>2, <1>3, <1>4, <1>5, <1>6, ZenonT(60)

\* tickslock is taken, or given back on the way out of sys_sleep().
LEMMA SleepLockInv ==
  ASSUME Inv, NEW p \in Slots, SleepLock(p) \/ SleepReturn(p)
  PROVE  Inv'
<1>1. /\ Runs(p)
      /\ UNCHANGED <<state, parent, killed, chan, plock, waitlk, cpu, idx, local, clk>>
      /\ \/ /\ pc[p] \in {"sleep_spin", "again_spin"} /\ tickslk = None /\ tickslk' = p
            /\ pc' = [pc EXCEPT ![p] = "sleep_test"]
         \/ /\ pc[p] = "sleep_test" /\ tickslk' = None
            /\ pc' = [pc EXCEPT ![p] = "user"]
      /\ elapsed' = elapsed \/ elapsed' = [elapsed EXCEPT ![p] = 0]
  BY DEF SleepLock, SleepReturn
<1>2. state[p] = "RUNNING"
  BY <1>1, Running, ZenonT(60)
<1>3. TypeOK'
  BY <1>1, Places, SMTT(60) DEF TypeOK
<1>4. Stacks'
  BY <1>1, ZenonT(60) DEF Stacks
<1>5. Control'
  BY <1>1, <1>2, SMTT(60) DEF TypeOK, Control
<1>6. NoMissedWakeup'
  BY <1>1, SMTT(60)
     DEF TypeOK, NoMissedWakeup, ZombiesSeen, ParentAwake, ScannedAlive, TicksSeen
<1>7. ParentCanWait'
  BY <1>1, SMTT(60) DEF TypeOK, ParentCanWait
<1> QED
  BY <1>3, <1>4, <1>5, <1>6, <1>7, ZenonT(60)

LEMMA SleepOnTicksInv ==
  ASSUME Inv, NEW p \in Slots, SleepOnTicks(p)
  PROVE  Inv'
<1>1. state[p] = "RUNNING"
  BY Running DEF SleepOnTicks
<1>2. TypeOK'
  BY <1>1, Places DEF TypeOK, States, SleepOnTicks, Sleep
<1>3. Stacks'
  BY <1>1, SMTT(60) DEF TypeOK, Stacks, SleepOnTicks, Sleep
<1>4. Control'
  BY <1>1, SMTT(60) DEF TypeOK, Control, SleepOnTicks, Sleep
<1>5. NoMissedWakeup'
  <2>1. ZombiesSeen'
    BY <1>1, SMTT(60)
       DEF TypeOK, Control, ZombiesSeen, NoMissedWakeup, SleepOnTicks, Sleep
  <2>2. ParentAwake'
    BY <1>1, SMTT(60)
       DEF TypeOK, Control, ParentAwake, NoMissedWakeup, SleepOnTicks, Sleep
  <2>3. ScannedAlive'
    BY <1>1, SMTT(60)
       DEF TypeOK, Control, ScannedAlive, NoMissedWakeup, SleepOnTicks, Sleep
  <2>4. TicksSeen'
    BY <1>1, SMTT(60)
       DEF TypeOK, Control, TicksSeen, NoMissedWakeup, SleepOnTicks, Sleep
  <2> QED
    BY <2>1, <2>2, <2>3, <2>4, ZenonT(60) DEF NoMissedWakeup
<1>6. ParentCanWait'
  BY <1>1, SMTT(60) DEF TypeOK, Control, ParentCanWait, SleepOnTicks, Sleep
<1> QED
  BY <1>2, <1>3, <1>4, <1>5, <1>6, ZenonT(60)

LEMMA ClockTickInv ==
  ASSUME Inv, ClockTick
  PROVE  Inv'
<1>1. TypeOK'
  BY Places, SMTT(60) DEF TypeOK, States, ClockTick, InSysSleep
<1>2. Stacks'
  BY DEF TypeOK, Stacks, ClockTick, InSysSleep
<1>3. Control'
  BY SMTT(60) DEF TypeOK, Control, ClockTick, InSysSleep
<1>4. NoMissedWakeup'
  <2>1. ZombiesSeen'
    BY SMTT(60) DEF TypeOK, Control, ZombiesSeen, NoMissedWakeup, ClockTick,
         InSysSleep
  <2>2. ParentAwake'
    BY DEF TypeOK, Control, ParentAwake, NoMissedWakeup, ClockTick, InSysSleep
  <2>3. ScannedAlive'
    BY SMTT(60) DEF TypeOK, Control, ScannedAlive, NoMissedWakeup, ClockTick,
         InSysSleep
  <2>4. TicksSeen'
    BY SMTT(60) DEF TypeOK, Control, TicksSeen, NoMissedWakeup, ClockTick, InSysSleep
  <2> QED
    BY <2>1, <2>2, <2>3, <2>4, ZenonT(60) DEF NoMissedWakeup
<1>5. ParentCanWait'
  BY DEF TypeOK, Control, ParentCanWait, ClockTick, InSysSleep
<1> QED
  BY <1>1, <1>2, <1>3, <1>4, <1>5, ZenonT(60)

LEMMA ClockWakeupInv ==
  ASSUME Inv, ClockWakeup
  PROVE  Inv'
<1>1. /\ clk \in Slots /\ state' \in [Slots -> States]
      /\ \A q \in Slots :
           \/ state'[q] = state[q]
           \/ q = clk /\ state[q] = "SLEEPING" /\ state'[q] = "RUNNABLE"
      /\ state[clk] = "SLEEPING" /\ chan[clk] = Ticks => state'[clk] = "RUNNABLE"
  <2>1. clk \in Slots
    BY <1>1, SMTT(60) DEF TypeOK, ClockWakeup, Slots
  <2> QED
    BY <2>1, Wakes DEF ClockWakeup
<1>2. TypeOK'
  BY <1>1, Places, Scans DEF TypeOK, States, ClockWakeup
<1>3. Stacks'
  BY <1>1, Scans DEF TypeOK, Stacks, ClockWakeup
<1>4. Control'
  <2>1. \A q \in Slots : pc[q] \in Forking => local[q] \in Slots /\ state'[local[q]] = "USED"
    BY <1>1, ForkSlot
  <2>2. /\ (tickslk' = Clock) <=> clk' # 0
        /\ \A q \in Slots : tickslk # q /\ tickslk' # q
    BY <1>1, SMTT(60) DEF Control, ClockWakeup
  <2>3. UNCHANGED <<chan, waitlk, pc, idx, local>>
    BY DEF ClockWakeup
  <2>4. ASSUME NEW q \in Slots
        PROVE  /\ (pc[q] = "none") <=> state'[q] \notin Live
               /\ state'[q] \in Live \ {"RUNNING"} => pc[q] \in Unlocked
               /\ state'[q] = "SLEEPING" => \/ chan[q] = q /\ pc[q] = "wait"
                                            \/ chan[q] = Ticks /\ pc[q] = "sleep_again"
    BY <1>1, <2>4, SMTT(60) DEF Control
  <2> QED
    BY <2>1, <2>2, <2>3, <2>4, SMTT(60) DEF Control
<1>5. NoMissedWakeup'
  <2>1. ZombiesSeen'
    BY <1>1, Scans, SMTT(60)
       DEF TypeOK, Control, ZombiesSeen, NoMissedWakeup, ClockWakeup
  <2>2. ParentAwake'
    <3>1. \A q \in Slots : pc[q] \in Orphaned => parent[q] \in Slots
      BY SMTT(60) DEF TypeOK, Control, ParentCanWait
    <3> QED
      BY <1>1, <3>1 DEF ParentAwake, NoMissedWakeup, ClockWakeup
  <2>3. ScannedAlive'
    BY <1>1, Scans, SMTT(60)
       DEF TypeOK, Control, ScannedAlive, NoMissedWakeup, ClockWakeup
  <2>4. TicksSeen'
    BY <1>1, Scans, SMTT(60)
       DEF TypeOK, Control, TicksSeen, NoMissedWakeup, ClockWakeup
  <2> QED
    BY <2>1, <2>2, <2>3, <2>4, ZenonT(60) DEF NoMissedWakeup
<1>6. ParentCanWait'
  <2>1. UNCHANGED <<parent, pc, local>>
    BY DEF ClockWakeup
  <2>2. \A q \in Slots : state'[q] \in Live <=> state[q] \in Live
    BY <1>1
  <2>3. \A q \in Slots : state'[q] = "ZOMBIE" => state[q] = "ZOMBIE"
    BY <1>1
  <2> QED
    BY <2>1, <2>2, <2>3 DEF TypeOK, ParentCanWait
<1> QED
  BY <1>2, <1>3, <1>4, <1>5, <1>6, ZenonT(60)

-----------------------------------------------------------------------------
(* The invariant, and the properties.                                      *)

LEMMA InitInv == Init => Inv
<1> SUFFICES ASSUME Init PROVE Inv
  OBVIOUS
<1>1. TypeOK
  BY Places DEF Init, TypeOK, States
<1>2. Stacks
  BY DEF Init, Stacks
<1>3. Control
  BY DEF Init, Control
<1>4. NoMissedWakeup
  BY DEF Init, NoMissedWakeup, ZombiesSeen, ParentAwake, ScannedAlive, TicksSeen
<1>5. ParentCanWait
  BY DEF Init, ParentCanWait
<1> QED
  BY <1>1, <1>2, <1>3, <1>4, <1>5, ZenonT(60) DEF Inv

LEMMA StutterInv ==
  ASSUME Inv, UNCHANGED vars
  PROVE  Inv'
<1>1. TypeOK' /\ Stacks'
  BY ZenonT(60) DEF Inv, vars, TypeOK, Stacks
<1>2. Control'
  BY SMTT(60) DEF Inv, vars, Control
<1>3. ZombiesSeen' /\ ParentAwake' /\ ScannedAlive' /\ TicksSeen'
  BY ZenonT(60) DEF Inv, vars, NoMissedWakeup, ZombiesSeen, ParentAwake, ScannedAlive,
               TicksSeen
<1>4. ParentCanWait'
  BY ZenonT(60) DEF Inv, vars, ParentCanWait
<1> QED
  BY <1>1, <1>2, <1>3, <1>4, ZenonT(60) DEF Inv, NoMissedWakeup

LEMMA StepInv == Inv /\ [Next]_vars => Inv'
<1> SUFFICES ASSUME Inv, [Next]_vars PROVE Inv'
  OBVIOUS
<1>1. ASSUME NEW p \in Slots, KernelStep(p) PROVE Inv'
  <2>1. CASE PushOff(p) \/ ForkStep(p) \/ ExitStep(p)
    BY <2>1, MoveInv, ForkParentInv, ForkRunInv, ExitReparentInv, ExitWakeupInv,
         ExitZombieInv, ZenonT(60) DEF ForkStep, ExitStep
  <2>2. CASE WaitStep(p)
    BY <2>2, WaitLockInv, WaitReapInv, WaitFailsInv, WaitSkipInv, MoveInv,
         WaitSleepInv, ZenonT(60) DEF WaitStep
  <2>3. CASE SleepStep(p)
    BY <2>3, SleepLockInv, MoveInv, SleepOnTicksInv, ZenonT(60)
       DEF SleepStep
  <2> QED
    BY <1>1, <2>1, <2>2, <2>3, ZenonT(60) DEF KernelStep
<1>2. ASSUME NEW p \in Slots, Yield(p) \/ Exit(p) \/ Wait(p) \/ SysSleep(p) PROVE Inv'
  BY <1>2, YieldInv, MoveInv, ZenonT(60)
<1>3. ASSUME NEW p \in Slots, NEW n \in Slots, Fork(p, n) \/ ForkFail(p, n) PROVE Inv'
  BY <1>3, ForkInv, ForkFailInv, ZenonT(60)
<1>4. ASSUME NEW p \in Slots, NEW t \in Victims, Kill(p, t) \/ KillZero(p, t) PROVE Inv'
  <2>1. t \in Slots
    BY ProcConstants, ZenonT(60)
  <2> QED
    BY <1>4, <2>1, KillInv, ZenonT(60)
<1>5. ASSUME NEW c \in CPUs, NEW p \in Slots, Dispatch(c, p) PROVE Inv'
  BY <1>5, DispatchInv, ZenonT(60)
<1>6. ASSUME NEW c \in CPUs, SwitchOut(c) PROVE Inv'
  BY <1>6, SwitchOutInv, ZenonT(60)
<1>7. CASE ClockTick \/ ClockWakeup
  BY <1>7, ClockTickInv, ClockWakeupInv, ZenonT(60)
<1>8. CASE UNCHANGED vars
  BY <1>8, StutterInv, ZenonT(60)
<1> QED
  BY <1>1, <1>2, <1>3, <1>4, <1>5, <1>6, <1>7, <1>8, ZenonT(60) DEF Next

LEMMA ProcInvariant == Spec => []Inv
  BY InitInv, StepInv, PTL DEF Spec

\* Whoever holds wait_lock or tickslock is in code that says so, and so runs.
LEMMA InvStacks == Inv => OneStackOneCpu
<1> SUFFICES ASSUME Inv PROVE OneStackOneCpu
  OBVIOUS
<1>1. TypeOK /\ Stacks /\ Control
  BY ZenonT(60) DEF Inv
<1>2. \A p \in Slots : waitlk = p \/ tickslk = p => Runs(p) /\ state[p] = "RUNNING"
  BY <1>1, SMTT(60) DEF Stacks, Control, TypeOK
<1> QED
  BY <1>1, <1>2, ZenonT(60) DEF OneStackOneCpu, Stacks

(* No kernel stack is in use by two CPUs or after its slot was given up,   *)
(* and a holder of wait_lock or tickslock stays on its CPU: the discipline *)
(* of p->lock across swtch() in sched(), yield(), sleep() and exit().      *)
THEOREM ProcStacks == Spec => []OneStackOneCpu
  BY ProcInvariant, InvStacks, PTL

(* Neither wait() nor sys_sleep() misses a wakeup: wait_lock and tickslock *)
(* cover the look at the condition and sleep() up to p->lock, exit() calls *)
(* wakeup() under wait_lock before it becomes a zombie.                    *)
THEOREM ProcWakeups == Spec => []NoMissedWakeup
<1>1. Inv => NoMissedWakeup
  BY ZenonT(60) DEF Inv
<1> QED
  BY <1>1, ProcInvariant, PTL

(* Every process has a parent that can still wait() for it: reparent() in  *)
(* exit() and the parent set by fork() under wait_lock.                    *)
THEOREM ProcParents == Spec => []ParentCanWait
<1>1. Inv => ParentCanWait
  BY ZenonT(60) DEF Inv
<1> QED
  BY <1>1, ProcInvariant, PTL
=============================================================================
