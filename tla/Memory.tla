------------------------------- MODULE Memory -------------------------------
(***************************************************************************)
(* Who owns physical memory: the allocator (kernel/kalloc.c), user page    *)
(* tables (kernel/vm.c) and the calls that build and take them down: fork  *)
(* and sbrk (kernel/proc.c), exec (kernel/exec.c), exit.  Every kalloc()   *)
(* is a step of its own and may find the free list empty, because other    *)
(* processes allocate meanwhile; a run of kfree()s is one step.            *)
(*                                                                         *)
(* Pages have no identity: the model keeps the length of the free list and *)
(* the places that refer to a page.  A reference is only made by kalloc(), *)
(* so a page lost, freed twice or freed while in use shows as a difference *)
(* between the two.                                                        *)
(***************************************************************************)
EXTENDS Integers, FiniteSets, FiniteSetsExt

CONSTANTS Procs,      \* process slots 1 .. n; 1 is init
          NPAGES,     \* pages of physical memory
          PGSIZE,     \* bytes per page
          PTES,       \* user pages per leaf page-table page
          MaxSz,      \* bound on the size of a process
          MAXARG      \* length of argv[] in sys_exec

ASSUME MemoryConstants ==
  /\ Procs = 1 .. Cardinality(Procs) /\ 1 \in Procs
  /\ {NPAGES, PGSIZE, PTES, MaxSz, MAXARG} \subseteq Nat \ {0}
  /\ PGSIZE <= MaxSz

Up(sz) == (sz + PGSIZE - 1) \div PGSIZE       \* PGROUNDUP(sz)/PGSIZE
Vas == 0 .. Up(MaxSz) - 1                     \* user pages
Top == Up(MaxSz)                              \* TRAMPOLINE and TRAPFRAME

\* Page-table pages: the root, and the level-1 and level-0 nodes walk() visits.
Root == <<2, 0>>
Walk(va) == IF va = Top THEN {<<1, 1>>, <<0, Top>>}
                        ELSE {<<1, 0>>, <<0, va \div PTES>>}
Nodes == {Root} \union UNION {Walk(va) : va \in 0 .. Top}

VARIABLES free,    \* length of kmem.freelist
          tab,     \* page-table pages of a process's two page tables
          mem,     \* the user pages they map
          size,    \* p->sz; of the table exec builds, its local sz
          cur,     \* which of the two is p->pagetable
          frame,   \* 1 if p->trapframe is a page
          pc,      \* where a process is
          job,     \* the call it is in
          hand,    \* 1 if uvmalloc or uvmcopy has a page it is about to map
          at,      \* the loop variable of uvmalloc or uvmcopy, in pages
          want,    \* the size it is to reach
          args,    \* pages of sys_exec's argv[]
          par,     \* the process whose fork() makes this one
          panic    \* 1 after a panic of uvmunmap, uvmcopy, mappages or freewalk

tables == <<tab, mem, size>>
call == <<job, hand, at, want, args, par>>
vars == <<free, tab, mem, size, cur, frame, pc, call, panic>>

PCs == {"unused", "user", "zombie", "forking", "frame", "root", "top", "page",
        "map", "argv", "elf", "args"}
Jobs == {"none", "sbrk", "fork", "seg", "stack"}

\* The table the process works on: exec builds one beside p->pagetable.
T(p) == IF job[p] \in {"seg", "stack"} THEN 1 - cur[p] ELSE cur[p]

Set(f, p, x) == [f EXCEPT ![p] = [@ EXCEPT ![T(p)] = x]]

-----------------------------------------------------------------------------
(* The removal of mappings                                                 *)

\* proc_freepagetable() kfree()s this many pages.  It panics if a page below
\* sz is not mapped, or another one still is.
Uvmfree(t, sz) == Cardinality(t) + Up(sz)
UvmfreePanics(m, sz) == m # 0 .. Up(sz) - 1

\* The call is over; a fork lets the parent go on.
EndCall(p, to) ==
  /\ pc' = [q \in Procs |-> IF q = p THEN to
                            ELSE IF q = par[p] THEN "user" ELSE pc[q]]
  /\ job' = [job EXCEPT ![p] = "none"] /\ hand' = [hand EXCEPT ![p] = 0]
  /\ at' = [at EXCEPT ![p] = 0] /\ want' = [want EXCEPT ![p] = 0]
  /\ args' = [args EXCEPT ![p] = 0] /\ par' = [par EXCEPT ![p] = 0]

\* bad: in exec(), freeproc(np) in fork(): the new table goes, with the user
\* pages m it still maps, and n pages more; so do fork's trapframe and the
\* pages sys_exec() copied arguments to.
Discard(p, m, n) ==
  LET sz == size[p][T(p)]
      fork == job[p] = "fork"
  IN
  /\ free' = free + n + Uvmfree(tab[p][T(p)], sz)
                  + (IF fork THEN frame[p] ELSE args[p])
  /\ panic' = IF UvmfreePanics(m, sz) THEN 1 ELSE panic
  /\ tab' = Set(tab, p, {}) /\ mem' = Set(mem, p, {}) /\ size' = Set(size, p, 0)
  /\ frame' = IF fork THEN [frame EXCEPT ![p] = 0] ELSE frame
  /\ EndCall(p, IF fork THEN "unused" ELSE "user")
  /\ UNCHANGED cur

\* The pages uvmalloc or uvmcopy has mapped so far.
Sofar(p) == IF job[p] = "fork" THEN 0 .. at[p] - 1
                               ELSE Up(size[p][T(p)]) .. at[p] - 1

\* kfree(mem) when mappages() fails; the bug forgets it.
HandLost(p) == 0
Hand(p) == hand[p]

\* uvmalloc returns 0, uvmcopy -1: the pages mapped so far go, and the one in
\* hand; growproc returns -1, fork and exec give up their table.
NoMemory(p) ==
  LET n == Cardinality(Sofar(p)) + Hand(p)
      rest == mem[p][T(p)] \ Sofar(p)
  IN \/ /\ job[p] = "sbrk"
        /\ free' = free + n
        /\ mem' = Set(mem, p, rest)
        /\ EndCall(p, "user")
        /\ UNCHANGED <<tab, size, cur, frame, panic>>
     \/ /\ job[p] # "sbrk"
        /\ Discard(p, rest, n)

-----------------------------------------------------------------------------
(* allocproc() and proc_pagetable()                                        *)

\* fork(): np is an UNUSED slot.
Fork(p, np) ==
  /\ panic = 0 /\ pc[p] = "user" /\ pc[np] = "unused"
  /\ pc' = [pc EXCEPT ![p] = "forking", ![np] = "frame"]
  /\ job' = [job EXCEPT ![np] = "fork"]
  /\ par' = [par EXCEPT ![np] = p]
  /\ UNCHANGED <<free, tables, cur, frame, hand, at, want, args, panic>>

TrapFrame(p) ==
  /\ panic = 0 /\ pc[p] = "frame"
  /\ \/ free = 0 /\ NoMemory(p)
     \/ /\ free > 0
        /\ free' = free - 1
        /\ frame' = [frame EXCEPT ![p] = 1]
        /\ pc' = [pc EXCEPT ![p] = "root"]
        /\ UNCHANGED <<tables, cur, call, panic>>

SysExec(p) ==
  /\ panic = 0 /\ pc[p] = "user"
  /\ pc' = [pc EXCEPT ![p] = "argv"]
  /\ job' = [job EXCEPT ![p] = "seg"]
  /\ UNCHANGED <<free, tables, cur, frame, hand, at, want, args, par, panic>>

\* A page for the next argument of the new program.
FetchArg(p) ==
  /\ panic = 0 /\ pc[p] = "argv" /\ args[p] < MAXARG
  /\ \/ free = 0 /\ NoMemory(p)
     \/ /\ free > 0
        /\ free' = free - 1
        /\ args' = [args EXCEPT ![p] = @ + 1]
        /\ UNCHANGED <<tables, cur, frame, pc, job, hand, at, want, par, panic>>

\* uarg == 0, and exec() of a file that is one: proc_pagetable() for the new
\* image.
Exec(p) ==
  /\ panic = 0 /\ pc[p] = "argv" /\ args[p] < MAXARG
  /\ pc' = [pc EXCEPT ![p] = "root"]
  /\ UNCHANGED <<free, tables, cur, frame, call, panic>>

\* A page for node n of the table.
AddNode(p, n) ==
  /\ free' = free - 1
  /\ tab' = Set(tab, p, tab[p][T(p)] \union {n})
  /\ UNCHANGED <<mem, size, cur, frame, call, panic>>

Uvmcreate(p) ==
  /\ panic = 0 /\ pc[p] = "root"
  /\ \/ free = 0 /\ NoMemory(p)
     \/ /\ free > 0
        /\ AddNode(p, Root)
        /\ pc' = [pc EXCEPT ![p] = "top"]

\* The nodes on the way to va that walk() has still to make, top down.
Missing(p, va) == Walk(va) \ tab[p][T(p)]
FirstMissing(p, va) ==
  CHOOSE n \in Missing(p, va) : \A o \in Missing(p, va) : o[1] <= n[1]

\* mappages() of the trampoline and of the trapframe, which share their nodes.
MapTop(p) ==
  /\ panic = 0 /\ pc[p] = "top"
  /\ \/ Missing(p, Top) # {} /\ free = 0 /\ NoMemory(p)
     \/ /\ Missing(p, Top) # {} /\ free > 0
        /\ AddNode(p, FirstMissing(p, Top))
        /\ UNCHANGED pc
     \/ /\ Missing(p, Top) = {}
        /\ pc' = [pc EXCEPT ![p] = IF job[p] = "fork" THEN "page" ELSE "elf"]
        /\ want' = [want EXCEPT ![p] =
                      IF job[p] = "fork" THEN size[par[p]][cur[par[p]]] ELSE 0]
        /\ UNCHANGED <<free, tables, cur, frame, job, hand, at, args, par, panic>>

-----------------------------------------------------------------------------
(* The loops of uvmalloc() and uvmcopy()                                   *)

\* uvmalloc(pagetable, sz, new): starts at PGROUNDUP(sz).
Uvmalloc(p, new, why) ==
  /\ want' = [want EXCEPT ![p] = new]
  /\ job' = [job EXCEPT ![p] = why]
  /\ pc' = [pc EXCEPT ![p] = "page"]

GetPage(p) ==
  /\ panic = 0 /\ pc[p] = "page" /\ at[p] < Up(want[p])
  /\ \/ free = 0 /\ NoMemory(p)
     \/ /\ free > 0
        /\ free' = free - 1
        /\ hand' = [hand EXCEPT ![p] = 1]
        /\ pc' = [pc EXCEPT ![p] = "map"]
        /\ panic' = IF job[p] = "fork" /\ at[p] \notin mem[par[p]][cur[par[p]]]
                    THEN 1 ELSE panic
        /\ UNCHANGED <<tables, cur, frame, job, at, want, args, par>>

MapPage(p) ==
  /\ panic = 0 /\ pc[p] = "map"
  /\ \/ Missing(p, at[p]) # {} /\ free = 0 /\ NoMemory(p)
     \/ /\ Missing(p, at[p]) # {} /\ free > 0
        /\ AddNode(p, FirstMissing(p, at[p]))
        /\ UNCHANGED pc
     \/ /\ Missing(p, at[p]) = {}
        /\ panic' = IF at[p] \in mem[p][T(p)] THEN 1 ELSE panic
        /\ mem' = Set(mem, p, mem[p][T(p)] \union {at[p]})
        /\ hand' = [hand EXCEPT ![p] = 0]
        /\ at' = [at EXCEPT ![p] = @ + 1]
        /\ pc' = [pc EXCEPT ![p] = "page"]
        /\ UNCHANGED <<free, tab, size, cur, frame, job, want, args, par>>

\* The loop is through: growproc() and fork() return, exec() goes on.
Mapped(p) ==
  LET new == Max({size[p][T(p)], want[p]}) IN
  /\ panic = 0 /\ pc[p] = "page" /\ at[p] >= Up(want[p])
  /\ size' = Set(size, p, new)
  /\ \/ job[p] \in {"sbrk", "fork"} /\ EndCall(p, "user")
     \/ /\ job[p] \in {"seg", "stack"}
        /\ pc' = [pc EXCEPT ![p] = IF job[p] = "seg" THEN "elf" ELSE "args"]
        /\ at' = [at EXCEPT ![p] = 0] /\ want' = [want EXCEPT ![p] = 0]
        /\ UNCHANGED <<job, hand, args, par>>
  /\ UNCHANGED <<free, tab, mem, cur, frame, panic>>

-----------------------------------------------------------------------------
(* sbrk, exec, exit and wait                                               *)

Grow(p, n) ==
  /\ panic = 0 /\ pc[p] = "user"
  /\ size[p][cur[p]] + n <= MaxSz
  /\ Uvmalloc(p, size[p][cur[p]] + n, "sbrk")
  /\ at' = [at EXCEPT ![p] = Up(size[p][cur[p]])]
  /\ UNCHANGED <<free, tables, cur, frame, hand, args, par, panic>>

\* sbrk(-n).  Below zero sz + n is a huge number: uvmdealloc leaves sz alone.
Shrink(p, n) ==
  LET sz == size[p][cur[p]]
      gone == Up(sz - n) .. Up(sz) - 1
  IN
  /\ panic = 0 /\ pc[p] = "user" /\ n <= sz
  /\ free' = free + Cardinality(gone)
  /\ panic' = IF gone \subseteq mem[p][cur[p]] THEN panic ELSE 1
  /\ mem' = Set(mem, p, mem[p][cur[p]] \ gone)
  /\ size' = Set(size, p, sz - n)
  /\ UNCHANGED <<tab, cur, frame, pc, call>>

\* A program header that is fine: its pages, up to vaddr + memsz.  A segment
\* that is empty at address 0 makes uvmalloc return 0 and is taken for a failure.
ExecSegment(p, end) ==
  /\ panic = 0 /\ pc[p] = "elf" /\ end + 2 * PGSIZE <= MaxSz
  /\ Max({end, size[p][T(p)]}) > 0
  /\ Uvmalloc(p, end, "seg")
  /\ at' = [at EXCEPT ![p] = Up(size[p][T(p)])]
  /\ UNCHANGED <<free, tables, cur, frame, hand, args, par, panic>>

\* All segments are loaded: sz = PGROUNDUP(sz), and two pages for the stack.
ExecStack(p) ==
  LET sz == PGSIZE * Up(size[p][T(p)]) IN
  /\ panic = 0 /\ pc[p] = "elf"
  /\ size' = Set(size, p, sz)
  /\ Uvmalloc(p, sz + 2 * PGSIZE, "stack")
  /\ at' = [at EXCEPT ![p] = Up(sz)]
  /\ UNCHANGED <<free, tab, mem, cur, frame, hand, args, par, panic>>

\* goto bad: an argument cannot be fetched or there are too many; namei(),
\* readi(), loadseg() or copyout() fails, or the ELF file is wrong.
ExecBad(p) ==
  /\ panic = 0 /\ pc[p] \in {"argv", "elf", "args"}
  /\ Discard(p, mem[p][T(p)], 0)

\* freeproc() and the end of exec() free the table k of p.
FreeTable(p, k, n) ==
  /\ free' = free + n + Uvmfree(tab[p][k], size[p][k])
  /\ panic' = IF UvmfreePanics(mem[p][k], size[p][k]) THEN 1 ELSE panic
  /\ tab' = [tab EXCEPT ![p][k] = {}] /\ mem' = [mem EXCEPT ![p][k] = {}]
  /\ size' = [size EXCEPT ![p][k] = 0]

\* The new image is committed to, and the old one freed; then argv[].
ExecCommit(p) ==
  /\ panic = 0 /\ pc[p] = "args"
  /\ cur' = [cur EXCEPT ![p] = 1 - @]
  /\ FreeTable(p, cur[p], args[p])
  /\ EndCall(p, "user")
  /\ UNCHANGED frame

Exit(p) ==
  /\ panic = 0 /\ pc[p] = "user" /\ p # 1
  /\ pc' = [pc EXCEPT ![p] = "zombie"]
  /\ UNCHANGED <<free, tables, cur, frame, call, panic>>

\* wait() finds a zombie: freeproc().
Reap(p) ==
  /\ panic = 0 /\ pc[p] = "zombie"
  /\ FreeTable(p, cur[p], frame[p])
  /\ frame' = [frame EXCEPT ![p] = 0]
  /\ EndCall(p, "unused")
  /\ cur' = [cur EXCEPT ![p] = 0]

-----------------------------------------------------------------------------
\* userinit(): init has a trapframe, a page table and one page.
Init ==
  LET used == {Root} \union Walk(Top) \union Walk(0)
      Only1(x, none) == [p \in Procs |-> [k \in 0 .. 1 |->
                           IF p = 1 /\ k = 0 THEN x ELSE none]]
  IN
  /\ free = NPAGES - 2 - Cardinality(used)
  /\ tab = Only1(used, {}) /\ mem = Only1({0}, {}) /\ size = Only1(PGSIZE, 0)
  /\ cur = [p \in Procs |-> 0]
  /\ frame = [p \in Procs |-> IF p = 1 THEN 1 ELSE 0]
  /\ pc = [p \in Procs |-> IF p = 1 THEN "user" ELSE "unused"]
  /\ job = [p \in Procs |-> "none"]
  /\ hand = [p \in Procs |-> 0] /\ at = [p \in Procs |-> 0]
  /\ want = [p \in Procs |-> 0] /\ args = [p \in Procs |-> 0]
  /\ par = [p \in Procs |-> 0]
  /\ panic = 0

Next ==
  \E p \in Procs :
    \/ \E np \in Procs : Fork(p, np)
    \/ TrapFrame(p) \/ Uvmcreate(p) \/ MapTop(p)
    \/ GetPage(p) \/ MapPage(p) \/ Mapped(p)
    \/ \E n \in 1 .. MaxSz : Grow(p, n) \/ Shrink(p, n) \/ ExecSegment(p, n)
    \/ SysExec(p) \/ FetchArg(p) \/ Exec(p) \/ ExecStack(p) \/ ExecBad(p) \/ ExecCommit(p)
    \/ Exit(p) \/ Reap(p)

Spec == Init /\ [][Next]_vars
-----------------------------------------------------------------------------
TypeOK ==
  /\ free \in 0 .. NPAGES
  /\ tab \in [Procs -> [0 .. 1 -> SUBSET Nodes]]
  /\ mem \in [Procs -> [0 .. 1 -> SUBSET Vas]]
  /\ size \in [Procs -> [0 .. 1 -> 0 .. MaxSz]]
  /\ cur \in [Procs -> 0 .. 1]
  /\ frame \in [Procs -> 0 .. 1] /\ hand \in [Procs -> 0 .. 1]
  /\ pc \in [Procs -> PCs] /\ job \in [Procs -> Jobs]
  /\ at \in [Procs -> 0 .. Top] /\ want \in [Procs -> 0 .. MaxSz]
  /\ args \in [Procs -> 0 .. MAXARG]
  /\ par \in [Procs -> Procs \union {0}]
  /\ panic \in 0 .. 1

\* The pages a process refers to.
Owned(p) ==
  frame[p] + hand[p] + args[p] + Cardinality(tab[p][0]) + Cardinality(tab[p][1])
                               + Cardinality(mem[p][0]) + Cardinality(mem[p][1])

(* No page is lost, freed twice or freed while in use, whichever kalloc()  *)
(* of a fork, exec or sbrk fails: the free list and the pages in use make  *)
(* up the memory (usertests compares free pages before and after).         *)
(* Between system calls a process has exactly the pages below p->sz, and   *)
(* no second page table: a failed sbrk or exec has taken everything back.  *)
(* And the cleanup paths never meet a page they do not expect: no panic of *)
(* uvmunmap, mappages, uvmcopy or freewalk.                                *)
PagesConserved ==
  /\ TypeOK
  /\ free + MapThenSumSet(Owned, Procs) = NPAGES
  /\ \A p \in Procs :
       pc[p] \in {"user", "zombie", "unused"} =>
         /\ mem[p][cur[p]] = 0 .. Up(size[p][cur[p]]) - 1
         /\ mem[p][1 - cur[p]] = {} /\ tab[p][1 - cur[p]] = {}
  /\ panic = 0
=============================================================================
