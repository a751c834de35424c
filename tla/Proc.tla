-------------------------------- MODULE Proc --------------------------------
(***************************************************************************)
(* The process table of kernel/proc.c: fork, exit, wait, kill, sleep and   *)
(* wakeup, yield and the per-CPU scheduler, with the traps that enter them *)
(* (kernel/trap.c) and sys_sleep with the clock interrupt.                 *)
(*                                                                         *)
(* A process takes steps only while a CPU runs it.  A critical section     *)
(* under one p->lock is one step; wait_lock, tickslock, and a p->lock held *)
(* across swtch() are explicit.  A pid is nonzero iff its slot is used, so *)
(* kill(pid) names a used slot and kill(0) the first free one.             *)
(***************************************************************************)
EXTENDS Integers, FiniteSets

CONSTANTS NPROC,     \* size of proc[]
          CPUs,      \* harts
          None,      \* no process, no CPU, nobody holds the lock
          Clock,     \* the clock interrupt, as holder of tickslock
          Calls,     \* system calls the program of a slot makes
          Victims    \* slots user code calls kill() on

Slots == 1 .. NPROC
initproc == 1
Ticks == 0           \* the channel &ticks
AllCalls == {"fork", "wait", "exit", "kill", "sleep"}

ASSUME ProcConstants ==
  /\ NPROC \in Nat \ {0}
  /\ Calls \in [Slots -> SUBSET AllCalls]
  /\ Victims \subseteq Slots
  /\ None \notin Slots \union CPUs
  /\ Clock \notin Slots \union {None}

VARIABLES state,     \* p->state
          parent,    \* p->parent
          killed,    \* p->killed
          chan,      \* p->chan: None, Ticks, or the slot that sleeps in wait()
          plock,     \* slots whose lock is held across a step, by themselves
          waitlk,    \* holder of wait_lock
          tickslk,   \* holder of tickslock
          cpu,       \* c->proc
          pc,        \* where the kernel thread of a slot is
          idx,       \* loop counter of the table scan it is in
          local,     \* fork: the new slot; wait: 1 iff havekids
          elapsed,   \* sys_sleep: ticks - ticks0 >= n
          clk        \* clock interrupt: 0, or the slot its wakeup looks at

locks == <<plock, waitlk, tickslk>>
vars == <<state, parent, killed, chan, plock, waitlk, tickslk, cpu, pc, idx,
          local, elapsed, clk>>

States == {"UNUSED", "USED", "SLEEPING", "RUNNABLE", "RUNNING", "ZOMBIE"}
Unlocked == {"user", "fork_parent", "fork_run", "exit", "wait", "sleep",
             "sleep_again"}
\* acquire() of wait_lock or tickslock: interrupts are off while it spins.
Spin == [fork_parent |-> "fork_spin", exit |-> "exit_spin", wait |-> "wait_spin",
         sleep |-> "sleep_spin", sleep_again |-> "again_spin"]
PCs == Unlocked \union {Spin[l] : l \in DOMAIN Spin} \union
       {"none", "wait_scan", "wait_check", "wait_sleep", "wake_init",
        "wake_parent", "exit_zombie", "sleep_test", "sleep_sleep", "panic"}

\* p is the current process of some CPU, and not on its way out of it.
Runs(p) == p \notin plock /\ \E c \in CPUs : cpu[c] = p

\* A turn of wakeup(ch) at slot i: nothing but a sleeper on ch changes.
WakeupAt(i, ch) ==
  state' = IF state[i] = "SLEEPING" /\ chan[i] = ch
           THEN [state EXCEPT ![i] = "RUNNABLE"]
           ELSE state

\* A bug: the loop stops short of the last slot.
ScanShort(i) == IF i + 1 >= NPROC THEN 0 ELSE i + 1
\* The slot after i in a scan of proc[]; 0 at the end.
ScanNext(i) == IF i = NPROC THEN 0 ELSE i + 1

Goto(p, l) == pc' = [pc EXCEPT ![p] = l]

PushOff(p) ==
  /\ Runs(p) /\ pc[p] \in DOMAIN Spin
  /\ Goto(p, Spin[pc[p]])
  /\ UNCHANGED <<state, parent, killed, chan, locks, cpu, idx, local, elapsed,
                 clk>>

-----------------------------------------------------------------------------
(* The scheduler, and the ways into it.                                    *)

\* scheduler() picks p; p releases its lock and, after sleep(), clears chan.
Dispatch(c, p) ==
  /\ cpu[c] = None
  /\ p \notin plock
  /\ state[p] = "RUNNABLE"
  /\ state' = [state EXCEPT ![p] = "RUNNING"]
  /\ chan' = [chan EXCEPT ![p] = None]
  /\ cpu' = [cpu EXCEPT ![c] = p]
  /\ UNCHANGED <<parent, killed, locks, pc, idx, local, elapsed, clk>>

\* swtch() has left p's stack: the scheduler releases p->lock.
SwitchOut(c) ==
  /\ cpu[c] \in plock
  /\ plock' = plock \ {cpu[c]}
  /\ cpu' = [cpu EXCEPT ![c] = None]
  /\ UNCHANGED <<state, parent, killed, chan, waitlk, tickslk, pc, idx, local,
                 elapsed, clk>>

\* A bug: the lock is dropped before swtch().
YieldUnlocked(p) ==
  /\ Runs(p)
  /\ pc[p] \in Unlocked
  /\ pc[p] = "user" => killed[p] = 0
  /\ state' = [state EXCEPT ![p] = "RUNNABLE"]
  /\ UNCHANGED <<parent, killed, chan, locks, cpu, pc, idx, local, elapsed, clk>>

\* A timer interrupt in user code (usertrap) or in kernel code that holds no
\* spinlock (kerneltrap) makes p yield.
Yield(p) ==
  /\ Runs(p)
  /\ pc[p] \in Unlocked
  /\ pc[p] = "user" => killed[p] = 0
  /\ state' = [state EXCEPT ![p] = "RUNNABLE"]
  /\ plock' = plock \union {p}
  /\ UNCHANGED <<parent, killed, chan, waitlk, tickslk, cpu, pc, idx, local,
                 elapsed, clk>>

\* sleep(ch, lk) up to sched(): p->lock is taken before lk is released.
Sleep(p, ch) ==
  /\ state' = [state EXCEPT ![p] = "SLEEPING"]
  /\ chan' = [chan EXCEPT ![p] = ch]
  /\ plock' = plock \union {p}

-----------------------------------------------------------------------------
(* fork                                                                     *)

Free(n) == n \notin plock /\ state[n] = "UNUSED"

FreeProc(n) ==
  /\ state' = [state EXCEPT ![n] = "UNUSED"]
  /\ parent' = [parent EXCEPT ![n] = None]
  /\ killed' = [killed EXCEPT ![n] = 0]
  /\ chan' = [chan EXCEPT ![n] = None]

\* allocproc() and the copies, under np->lock.  Its scan drops each lock
\* before it takes the next, so any slot that is free may be the one it finds.
Fork(p, n) ==
  /\ Runs(p) /\ pc[p] = "user" /\ killed[p] = 0 /\ "fork" \in Calls[p]
  /\ Free(n)
  /\ state' = [state EXCEPT ![n] = "USED"]
  /\ local' = [local EXCEPT ![p] = n]
  /\ Goto(p, "fork_parent")
  /\ UNCHANGED <<parent, killed, chan, locks, cpu, idx, elapsed, clk>>

\* Out of memory on the way: freeproc() wipes the slot.
ForkFail(p, n) ==
  /\ Runs(p) /\ pc[p] = "user" /\ killed[p] = 0 /\ "fork" \in Calls[p]
  /\ Free(n)
  /\ FreeProc(n)
  /\ UNCHANGED <<locks, cpu, pc, idx, local, elapsed, clk>>

ForkParent(p) ==
  /\ Runs(p) /\ pc[p] = "fork_spin"
  /\ waitlk = None
  /\ parent' = [parent EXCEPT ![local[p]] = p]
  /\ Goto(p, "fork_run")
  /\ UNCHANGED <<state, killed, chan, locks, cpu, idx, local, elapsed, clk>>

ForkRun(p) ==
  /\ Runs(p) /\ pc[p] = "fork_run"
  /\ state' = [state EXCEPT ![local[p]] = "RUNNABLE"]
  /\ pc' = [pc EXCEPT ![p] = "user", ![local[p]] = "user"]
  /\ local' = [local EXCEPT ![p] = 0]
  /\ UNCHANGED <<parent, killed, chan, locks, cpu, idx, elapsed, clk>>

-----------------------------------------------------------------------------
(* kill                                                                     *)

Kill(p, t) ==
  /\ Runs(p) /\ pc[p] = "user" /\ killed[p] = 0 /\ "kill" \in Calls[p]
  /\ t \notin plock /\ state[t] # "UNUSED"
  /\ killed' = [killed EXCEPT ![t] = 1]
  /\ state' = IF state[t] = "SLEEPING" THEN [state EXCEPT ![t] = "RUNNABLE"]
              ELSE state
  /\ UNCHANGED <<parent, chan, locks, cpu, pc, idx, local, elapsed, clk>>

\* kill(0): a free slot has pid 0.
KillZero(p, t) ==
  /\ Runs(p) /\ pc[p] = "user" /\ killed[p] = 0 /\ "kill" \in Calls[p]
  /\ Free(t)
  /\ killed' = [killed EXCEPT ![t] = 1]
  /\ UNCHANGED <<state, parent, chan, locks, cpu, pc, idx, local, elapsed, clk>>

-----------------------------------------------------------------------------
(* exit: called by the process, or by usertrap() once it is killed.         *)

Exit(p) ==
  /\ Runs(p) /\ pc[p] = "user"
  /\ killed[p] = 1 \/ (p # initproc /\ "exit" \in Calls[p])
  /\ Goto(p, IF p = initproc THEN "panic" ELSE "exit")
  /\ UNCHANGED <<state, parent, killed, chan, locks, cpu, idx, local, elapsed,
                 clk>>

Children(p) == {q \in Slots : parent[q] = p}

\* A bug: zombies are not handed over.
ReparentLive(p) == parent' = [q \in Slots |-> IF q \in Children(p)
                                                 /\ state[q] # "ZOMBIE"
                                              THEN initproc ELSE parent[q]]

\* wait_lock protects parent: reparent() hands all children over at once, and
\* its wakeups of init, all before wait_lock is released, are one wakeup.
Reparent(p) == parent' = [q \in Slots |-> IF q \in Children(p) THEN initproc
                                                            ELSE parent[q]]

ExitReparent(p) ==
  /\ Runs(p) /\ pc[p] = "exit_spin"
  /\ waitlk = None
  /\ waitlk' = p
  /\ Reparent(p)
  /\ idx' = [idx EXCEPT ![p] = 1]
  /\ Goto(p, IF Children(p) = {} THEN "wake_parent" ELSE "wake_init")
  /\ UNCHANGED <<state, killed, chan, plock, tickslk, cpu, local, elapsed, clk>>

\* A turn of wakeup(initproc) or wakeup(p->parent); p itself is skipped.
ExitWakeup(p) ==
  LET i == idx[p]
      last == ScanNext(i) = 0
  IN
  /\ Runs(p) /\ pc[p] \in {"wake_init", "wake_parent"}
  /\ \/ i = p /\ UNCHANGED state
     \/ /\ i # p /\ i \notin plock
        /\ WakeupAt(i, IF pc[p] = "wake_init" THEN initproc ELSE parent[p])
  /\ idx' = [idx EXCEPT ![p] = IF last /\ pc[p] = "wake_init" THEN 1
                               ELSE ScanNext(i)]
  /\ Goto(p, IF ~last THEN pc[p]
             ELSE IF pc[p] = "wake_init" THEN "wake_parent" ELSE "exit_zombie")
  /\ UNCHANGED <<parent, killed, chan, locks, cpu, local, elapsed, clk>>

ExitZombie(p) ==
  /\ Runs(p) /\ pc[p] = "exit_zombie"
  /\ state' = [state EXCEPT ![p] = "ZOMBIE"]
  /\ plock' = plock \union {p}
  /\ waitlk' = None
  /\ Goto(p, "none")
  /\ UNCHANGED <<parent, killed, chan, tickslk, cpu, idx, local, elapsed, clk>>

-----------------------------------------------------------------------------
(* wait                                                                     *)

Wait(p) ==
  /\ Runs(p) /\ pc[p] = "user" /\ killed[p] = 0 /\ "wait" \in Calls[p]
  /\ Goto(p, "wait")
  /\ UNCHANGED <<state, parent, killed, chan, locks, cpu, idx, local, elapsed,
                 clk>>

WaitLock(p) ==
  /\ Runs(p) /\ pc[p] = "wait_spin"
  /\ waitlk = None
  /\ waitlk' = p
  /\ idx' = [idx EXCEPT ![p] = 1]
  /\ local' = [local EXCEPT ![p] = 0]
  /\ Goto(p, "wait_scan")
  /\ UNCHANGED <<state, parent, killed, chan, plock, tickslk, cpu, elapsed, clk>>

\* wait() returns, with wait_lock released.
WaitReturn(p) ==
  /\ waitlk' = None
  /\ idx' = [idx EXCEPT ![p] = 0]
  /\ local' = [local EXCEPT ![p] = 0]
  /\ UNCHANGED <<plock, tickslk, cpu, elapsed, clk>>

ZombieAt(p, i) == parent[i] = p /\ i \notin plock /\ state[i] = "ZOMBIE"

WaitReap(p) ==
  LET i == idx[p] IN
  /\ Runs(p) /\ pc[p] = "wait_scan"
  /\ ZombieAt(p, i)
  /\ FreeProc(i)
  /\ Goto(p, "user")
  /\ WaitReturn(p)

\* init passes no address for the status, so its copyout cannot fail.
WaitCopyoutFails(p) ==
  /\ Runs(p) /\ pc[p] = "wait_scan"
  /\ p # initproc
  /\ ZombieAt(p, idx[p])
  /\ Goto(p, "user")
  /\ WaitReturn(p)
  /\ UNCHANGED <<state, parent, killed, chan>>

WaitSkip(p) ==
  LET i == idx[p] IN
  /\ Runs(p) /\ pc[p] = "wait_scan"
  /\ parent[i] = p => i \notin plock /\ state[i] # "ZOMBIE"
  /\ local' = [local EXCEPT ![p] = IF parent[i] = p THEN 1 ELSE @]
  /\ idx' = [idx EXCEPT ![p] = ScanNext(i)]
  /\ Goto(p, IF ScanNext(i) = 0 THEN "wait_check" ELSE "wait_scan")
  /\ UNCHANGED <<state, parent, killed, chan, locks, cpu, elapsed, clk>>

WaitFails(p) ==
  /\ Runs(p) /\ pc[p] = "wait_check"
  /\ local[p] = 0 \/ killed[p] = 1
  /\ Goto(p, "user")
  /\ WaitReturn(p)
  /\ UNCHANGED <<state, parent, killed, chan>>

\* A bug: wait_lock is released before sleep() has p->lock.
WaitCheckUnlocks(p) ==
  /\ Runs(p) /\ pc[p] = "wait_check"
  /\ local[p] = 1 /\ killed[p] = 0
  /\ Goto(p, "wait_sleep")
  /\ waitlk' = None
  /\ UNCHANGED <<state, parent, killed, chan, plock, tickslk, cpu, idx, local,
                 elapsed, clk>>

\* A bug: wait() does not look at killed.
WaitCheckBlind(p) ==
  /\ Runs(p) /\ pc[p] = "wait_check"
  /\ local[p] = 1
  /\ Goto(p, "wait_sleep")
  /\ UNCHANGED <<state, parent, killed, chan, locks, cpu, idx, local, elapsed,
                 clk>>

\* killed() drops p->lock again before sleep() takes it.
WaitCheck(p) ==
  /\ Runs(p) /\ pc[p] = "wait_check"
  /\ local[p] = 1 /\ killed[p] = 0
  /\ Goto(p, "wait_sleep")
  /\ UNCHANGED <<state, parent, killed, chan, locks, cpu, idx, local, elapsed,
                 clk>>

WaitSleep(p) ==
  /\ Runs(p) /\ pc[p] = "wait_sleep"
  /\ Sleep(p, p)
  /\ waitlk' = None
  /\ local' = [local EXCEPT ![p] = 0]
  /\ Goto(p, "wait")
  /\ UNCHANGED <<parent, killed, tickslk, cpu, idx, elapsed, clk>>

-----------------------------------------------------------------------------
(* sys_sleep(n), n > 0, and clockintr                                       *)

SysSleep(p) ==
  /\ Runs(p) /\ pc[p] = "user" /\ killed[p] = 0 /\ "sleep" \in Calls[p]
  /\ Goto(p, "sleep")
  /\ UNCHANGED <<state, parent, killed, chan, locks, cpu, idx, local, elapsed,
                 clk>>

\* Takes tickslock, at the start or on the way out of sleep().
SleepLock(p) ==
  /\ Runs(p) /\ pc[p] \in {"sleep_spin", "again_spin"}
  /\ tickslk = None
  /\ tickslk' = p
  /\ elapsed' = IF pc[p] = "sleep_spin" THEN [elapsed EXCEPT ![p] = 0] ELSE elapsed
  /\ Goto(p, "sleep_test")
  /\ UNCHANGED <<state, parent, killed, chan, plock, waitlk, cpu, idx, local, clk>>

SleepReturn(p) ==
  /\ Runs(p) /\ pc[p] = "sleep_test"
  /\ elapsed[p] = 1 \/ killed[p] = 1
  /\ tickslk' = None
  /\ elapsed' = [elapsed EXCEPT ![p] = 0]
  /\ Goto(p, "user")
  /\ UNCHANGED <<state, parent, killed, chan, plock, waitlk, cpu, idx, local, clk>>

\* killed() drops p->lock again before sleep() takes it.
SleepTest(p) ==
  /\ Runs(p) /\ pc[p] = "sleep_test"
  /\ elapsed[p] = 0 /\ killed[p] = 0
  /\ Goto(p, "sleep_sleep")
  /\ UNCHANGED <<state, parent, killed, chan, locks, cpu, idx, local, elapsed,
                 clk>>

SleepOnTicks(p) ==
  /\ Runs(p) /\ pc[p] = "sleep_sleep"
  /\ Sleep(p, Ticks)
  /\ tickslk' = None
  /\ Goto(p, "sleep_again")
  /\ UNCHANGED <<parent, killed, waitlk, cpu, idx, local, elapsed, clk>>

InSysSleep == {"sleep_test", "sleep_sleep", "sleep_again", "again_spin"}

\* ticks++; how many more ticks a sleeper wants is left open.
ClockTick ==
  /\ \E p \in Slots : "sleep" \in Calls[p]
  /\ clk = 0 /\ tickslk = None
  /\ tickslk' = Clock
  /\ clk' = 1
  /\ \E done \in SUBSET {p \in Slots : pc[p] \in InSysSleep} :
       elapsed' = [p \in Slots |-> IF p \in done THEN 1 ELSE elapsed[p]]
  /\ UNCHANGED <<state, parent, killed, chan, plock, waitlk, cpu, pc, idx, local>>

\* A turn of wakeup(&ticks); after the last one tickslock is released.
ClockWakeup ==
  /\ clk # 0 /\ clk \notin plock
  /\ WakeupAt(clk, Ticks)
  /\ clk' = ScanNext(clk)
  /\ tickslk' = IF ScanNext(clk) = 0 THEN None ELSE tickslk
  /\ UNCHANGED <<parent, killed, chan, plock, waitlk, cpu, pc, idx, local, elapsed>>

-----------------------------------------------------------------------------
\* userinit() has made the first process.
Init ==
  /\ state = [s \in Slots |-> IF s = initproc THEN "RUNNABLE" ELSE "UNUSED"]
  /\ parent = [s \in Slots |-> None]
  /\ killed = [s \in Slots |-> 0]
  /\ chan = [s \in Slots |-> None]
  /\ plock = {} /\ waitlk = None /\ tickslk = None
  /\ cpu = [c \in CPUs |-> None]
  /\ pc = [s \in Slots |-> IF s = initproc THEN "user" ELSE "none"]
  /\ idx = [s \in Slots |-> 0]
  /\ local = [s \in Slots |-> 0]
  /\ elapsed = [s \in Slots |-> 0]
  /\ clk = 0

ExitStep(p) == ExitReparent(p) \/ ExitWakeup(p) \/ ExitZombie(p)
WaitStep(p) == \/ WaitLock(p) \/ WaitReap(p) \/ WaitCopyoutFails(p) \/ WaitSkip(p)
               \/ WaitFails(p) \/ WaitCheck(p) \/ WaitSleep(p)
SleepStep(p) == SleepLock(p) \/ SleepReturn(p) \/ SleepTest(p) \/ SleepOnTicks(p)
ForkStep(p) == ForkParent(p) \/ ForkRun(p)

\* What a process that is inside the kernel does next.
KernelStep(p) == PushOff(p) \/ ForkStep(p) \/ ExitStep(p) \/ WaitStep(p) \/ SleepStep(p)

Next ==
  \/ \E c \in CPUs, p \in Slots : Dispatch(c, p)
  \/ \E c \in CPUs : SwitchOut(c)
  \/ \E p \in Slots : \/ Yield(p) \/ Exit(p) \/ Wait(p) \/ SysSleep(p)
                     \/ KernelStep(p)
  \/ \E p, n \in Slots : Fork(p, n) \/ ForkFail(p, n)
  \/ \E p \in Slots, t \in Victims : Kill(p, t) \/ KillZero(p, t)
  \/ ClockTick \/ ClockWakeup

Spec == Init /\ [][Next]_vars

\* A pending timer interrupt is taken once interrupts are on; the scheduler's
\* round robin reaches every runnable process; a process that runs gets on
\* with its system call, and is not overtaken for ever at a spinlock; init
\* calls wait() again and again (user/init.c).
Fairness ==
  /\ \A c \in CPUs : WF_vars(SwitchOut(c))
  /\ \A p \in Slots : /\ SF_vars(\E c \in CPUs : Dispatch(c, p))
                      /\ SF_vars(Yield(p))
                      /\ WF_vars(Exit(p) /\ killed[p] = 1)
                      /\ SF_vars(KernelStep(p))
  /\ SF_vars(Wait(initproc))

FairSpec == Spec /\ Fairness

-----------------------------------------------------------------------------
Live == {"SLEEPING", "RUNNABLE", "RUNNING"}

TypeOK ==
  /\ state \in [Slots -> States]
  /\ parent \in [Slots -> Slots \union {None}]
  /\ killed \in [Slots -> {0, 1}]
  /\ chan \in [Slots -> Slots \union {None, Ticks}]
  /\ plock \subseteq Slots
  /\ waitlk \in Slots \union {None}
  /\ tickslk \in Slots \union {None, Clock}
  /\ cpu \in [CPUs -> Slots \union {None}]
  /\ pc \in [Slots -> PCs]
  /\ idx \in [Slots -> 0 .. NPROC]
  /\ local \in [Slots -> 0 .. NPROC]
  /\ elapsed \in [Slots -> {0, 1}]
  /\ clk \in 0 .. NPROC

\* Code that runs with wait_lock held, with tickslock held, and of fork().
WaitHeld == {"wait_scan", "wait_check", "wait_sleep", "wake_init", "wake_parent",
             "exit_zombie"}
TicksHeld == {"sleep_test", "sleep_sleep"}
Forking == {"fork_parent", "fork_spin", "fork_run"}
\* Code of exit() that runs once the children have been given away.
Orphaned == {"wake_init", "wake_parent", "exit_zombie"}

\* A process holds the locks its place in the code says; off the CPU it is at
\* a place where it holds none; fork() has a slot of its own under way.
Control ==
  /\ \A p \in Slots :
       /\ (waitlk = p) <=> pc[p] \in WaitHeld
       /\ (tickslk = p) <=> pc[p] \in TicksHeld
       /\ (pc[p] = "none") <=> state[p] \notin Live
       /\ state[p] \in Live \ {"RUNNING"} => pc[p] \in Unlocked
       /\ state[p] = "SLEEPING" => \/ chan[p] = p /\ pc[p] = "wait"
                                   \/ chan[p] = Ticks /\ pc[p] = "sleep_again"
       /\ pc[p] \in {"wait_scan", "wake_init", "wake_parent"} => idx[p] # 0
       /\ pc[p] \in Forking => local[p] # 0 /\ state[local[p]] = "USED"
  /\ \A p, q \in Slots :
       pc[p] \in Forking /\ pc[q] \in Forking /\ local[p] = local[q] => p = q
  /\ (tickslk = Clock) <=> clk # 0

(* No kernel stack is ever in use by two CPUs, and none is in use whose    *)
(* slot has been given up: a process is on a CPU exactly while it is       *)
(* RUNNING or still switching out under its own p->lock, whatever state it *)
(* has already announced.  A process that holds wait_lock or tickslock is  *)
(* on a CPU and stays on it: it neither sleeps, nor is preempted, nor      *)
(* exits (sched() panics with "sched locks").                              *)
OneStackOneCpu ==
  /\ TypeOK
  /\ \A c, d \in CPUs : cpu[c] = cpu[d] => c = d \/ cpu[c] = None
  /\ \A p \in Slots :
       (\E c \in CPUs : cpu[c] = p) <=> (state[p] = "RUNNING" \/ p \in plock)
  /\ \A p \in plock : state[p] \in {"RUNNABLE", "SLEEPING", "ZOMBIE"}
  /\ \A p \in Slots : waitlk = p \/ tickslk = p => Runs(p) /\ state[p] = "RUNNING"
  /\ Control

AsleepInWait(p) == state[p] = "SLEEPING" /\ chan[p] = p

\* A parent asleep in wait() has no zombie child, but for init while a process
\* that gave it one holds wait_lock and has its wakeup ahead.
ZombiesSeen ==
  \A p, q \in Slots :
    AsleepInWait(p) /\ parent[q] = p /\ state[q] = "ZOMBIE"
      => p = initproc /\ \E r \in Slots : pc[r] = "wake_init" /\ idx[r] <= p

\* A process about to become a zombie has its parent awake.
ParentAwake ==
  \A p \in Slots :
    pc[p] = "exit_zombie" \/ (pc[p] = "wake_parent" /\ parent[p] < idx[p])
      => ~AsleepInWait(parent[p])

\* A parent about to sleep has no zombie among the children it looked at.
ScannedAlive ==
  \A p, q \in Slots :
    (pc[p] = "wait_scan" /\ q < idx[p]) \/ pc[p] \in {"wait_check", "wait_sleep"}
      => ~(parent[q] = p /\ state[q] = "ZOMBIE")

\* A sleeper whose time is up is asleep only while the clock interrupt that
\* noticed it still has its slot ahead of it.
TicksSeen ==
  \A p \in Slots :
    /\ pc[p] = "sleep_sleep" => elapsed[p] = 0
    /\ state[p] = "SLEEPING" /\ chan[p] = Ticks /\ elapsed[p] = 1
         => clk # 0 /\ clk <= p

(* No wakeup is lost between a look at the condition and sleep(), neither  *)
(* of wait() nor of sys_sleep(): whoever makes the condition true finds    *)
(* the sleeper asleep or not yet past its look.                            *)
NoMissedWakeup == ZombiesSeen /\ ParentAwake /\ ScannedAlive /\ TicksSeen

(* Every process but init has a parent that can still wait for it: exit()  *)
(* gives its children to init before it becomes a zombie, and no fork()    *)
(* adds a child behind its back.  init itself never gets that far.         *)
ParentCanWait ==
  /\ \A q \in Slots \ {initproc} :
       state[q] \in Live \union {"ZOMBIE"} => parent[q] # None
  /\ \A q \in Slots :
       parent[q] # None
         => state[parent[q]] \in Live /\ pc[parent[q]] \notin Orphaned
  /\ \A p \in Slots : pc[p] = "fork_run" => parent[local[p]] = p
  /\ state[initproc] \in Live
  /\ pc[initproc] \notin Orphaned \union {"exit", "exit_spin"}

(* init goes on reaping while it has a zombie child: no wakeup of wait()   *)
(* is lost, also for zombies it inherits while it sleeps.                  *)
InitKeepsReaping ==
  (<>[](\E q \in Slots : state[q] = "ZOMBIE" /\ parent[q] = initproc))
    => []<><<WaitReap(initproc)>>_vars

(* A killed process exits (kill: "The victim won't exit until it tries to  *)
(* return to user space", usertrap() then calls exit()), wherever it was:  *)
(* it is awake or kill() wakes it, and it does not go to sleep again.  The *)
(* one exception is a kill() between wait()'s look at p->killed and its    *)
(* sleep(): the victim sleeps on until a child exits.  In sys_sleep() it   *)
(* depends on the clock, of which nothing is assumed.                      *)
KilledExits ==
  /\ \A p \in Victims \ {initproc} :
       (/\ killed[p] = 1 /\ state[p] \in {"RUNNABLE", "RUNNING"}
        /\ pc[p] \notin {"wait_sleep", "sleep", "sleep_spin"} \union InSysSleep)
         ~> state[p] \notin Live
  /\ [][\A p \in Slots : state[p] = "SLEEPING" /\ killed[p] # killed'[p]
                           => state'[p] = "RUNNABLE"]_vars
=============================================================================
