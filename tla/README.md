# TLA+ models of the xv6 kernel

This directory holds TLA+ models of the parts of xv6 (`kernel/`, with what
`mkfs/` and `user/` contribute) whose correctness depends on interleavings,
crashes, limits or failures half way; TLC configurations that check them on small
instances; and proofs, checked by TLAPS, of the safety properties of the log, the
buffer cache, the disk driver, processes, inodes, pipes and the console for every
size of the system.

Run a check with `tlc -config MCLog.cfg MCLog`, a proof with `tlapm LogProofs.tla`
(the longest, the console's, takes about a quarter of an hour).
`PROJECT.json` lists the runs, the source lines every definition stands for, for
each property a plausible bug that breaks it, and the hazards the work started from.

## The system and its parts

User programs trap into the kernel; a system call runs on the process's kernel
stack until it returns, sleeps or is preempted. Several CPUs do this at once.

| Part | State | Operations | What makes it hard |
|---|---|---|---|
| processes (`proc.c`, `trap.c`, `sysproc.c`) | `proc[]`, `wait_lock`, `tickslock`, `c->proc` | fork, exit, wait, kill, sleep, wakeup, yield, scheduler | lost wakeups, a kernel stack seen by two CPUs, exit racing wait and reparent, kill racing sleep |
| spinlocks, sleep-locks (`spinlock.c`, `sleeplock.c`) | holder, interrupt state | acquire, release, acquiresleep, releasesleep | sleeping or being preempted with a spinlock |
| disk driver (`virtio_disk.c`) | descriptors, two rings, `b->disk` | virtio_disk_rw, virtio_disk_intr, the device | device, interrupt and processes in any order; wrapping indices; too few descriptors |
| buffer cache (`bio.c`) | `bcache.buf[]`, LRU list | bread, bwrite, brelse, bpin, bunpin | two misses of one block, recycling a buffer in use or dirty |
| log (`log.c`) | `log`, header and log blocks on disk | begin_op, log_write, end_op/commit, recovery | a crash between any two writes, concurrent operations, log space |
| inodes (`fs.c`) | `itable`, inodes on disk | ialloc, iget, ilock, iput, iupdate | an inode freed by one process while another allocates it; unlinked but open files |
| file content (`fs.c`) | block bitmap, `addrs[]` | balloc, bfree, bmap, itrunc, readi, writei | a block used twice, a file left half written |
| directories, paths (`fs.c`, `sysfile.c`) | directory entries | namex, dirlookup, dirlink, create, unlink | lock order along a path, removed directories still in use |
| open files (`file.c`, `sysfile.c`) | `ftable`, `p->ofile[]` | filealloc, filedup, fileclose, fileread, filewrite, pipe | reference counts, failing half way, shared offsets |
| pipes (`pipe.c`) | ring, two counters, two open flags | pipewrite, piperead, pipeclose | close and kill while others sleep; wrapping counters; freeing the page |
| memory (`kalloc.c`, `vm.c`, `exec.c`) | free list, page tables, `p->sz` | kalloc, kfree, uvmalloc, uvmdealloc, uvmcopy, exec, sbrk | any allocation may fail half way |
| console, UART (`console.c`, `uart.c`) | input ring, output ring | consoleread, consoleintr, uartputc, uartintr | full rings, interrupt against sleepers |
| user side (`umalloc.c`, `sh.c`, `init.c`) | heap list, descriptors | malloc, free, runcmd, wait loop | algorithms; init's loop matters to Proc |

They interact downwards: a file system call runs between `begin_op` and `end_op`,
gets inodes, reads and changes blocks through the buffer cache, and the cache
calls the driver. Everything sleeps and wakes through `proc.c`. Pipes and files meet
in `fileclose`, memory and processes in fork, exec and wait.

## What should hold

* Log: the disk content moves only by whole groups of finished operations, whatever
  crashes when; what a finished operation wrote stays; nobody waits for ever.
* Cache: for its users the cache is not there: each block has one content and one
  holder at a time. Driver: each request is answered once, to whoever made it.
* Processes: one CPU per kernel stack, no lock held off CPU, no wakeup lost, every
  child reaped, a killed process exits.
* Inodes: an inode lives as long as it has a name or a user, and no longer.
* Files: a file is a sequence of bytes; every block has one owner. Directories are a
  tree with exact link counts, and walking it does not deadlock.
* Open files: reference counts are exact, wherever a call fails.
* Pipes: a bounded FIFO; closing an end releases everybody who waits for the other.
* Memory: each page has one owner, also after any failure; so has each piece of a
  program's heap.
* Console: what is typed is an editable line and then a queue; output is a queue.
* Shell: a line is parsed as its grammar says, its programs get the descriptors it
  says, and every command ends.

## The modules

A comment that starts with "Mutant:" or "A bug:" marks an operator that changes the
one after it the way a plausible bug would; it is no part of the specification.
`MC*.tla` hold what only TLC needs: symmetry, views, constants, and scenes (below).

| Module | Models | Abstract specification |
|---|---|---|
| `Log` | `log.c`: begin_op, log_write, end_op, commit, recovery, crash | `AtomicDisk` |
| `Bcache` | `bio.c`, `sleeplock.c` | `BlockStore` |
| `VirtioDisk` | `virtio_disk.c` and the device (external) | |
| `Proc` | `proc.c`, the traps of `trap.c`, sys_sleep, `init.c`'s loop | |
| `Inode` | inode table of `fs.c`; create, link, unlink, open of `sysfile.c` | |
| `FileContent` | balloc, bfree, bmap, itrunc, readi, writei of `fs.c`; the loops of fileread and filewrite; the image `mkfs.c` builds | `ByteFiles` |
| `Directory` | namex, dirlookup, dirlink of `fs.c`; open, create, mkdir, link, unlink, chdir of `sysfile.c` | |
| `Files` | `file.c`, the descriptor calls of `sysfile.c`, pipealloc; fork, exit, wait as far as they touch descriptors | |
| `Pipe` | `pipe.c`, fileclose of the last reference to an end, kill | `Fifo` |
| `Memory` | `kalloc.c`, `vm.c`, fork, exec with sys_exec's arguments, sbrk, exit | |
| `Console` | `console.c`, `uart.c` and the UART (external) | `LineInput`; `Fifo` |
| `Umalloc` | `umalloc.c` | |
| `ShellParser` | parsecmd of `sh.c`, as an algorithm, and the grammar as its reference | |
| `Shell` | main, runcmd, fork1 of `sh.c`, with cat and echo; composes `Files` and `ShellParser` | |
| `LogProofs`, `BcacheProofs`, `VirtioProofs`, `ProcProofs`, `InodeProofs`, `PipeProofs`, `ConsoleProofs` | proofs about the module they extend | |
| `Rings` | lemmas about ring buffers with wrapping indices, for the proofs about the driver, the pipe and the console | |

How steps were chosen: code between two places where another actor can change
what it reads is one step. A section under one spinlock is such a step, unless it
sleeps, or something that does not take the lock interferes (kill() in `Pipe`,
the device in `VirtioDisk` and `Console`, wait_lock and tickslock in `Proc`); then the
lock is a variable. Sleep-locks are variables wherever a process waits for something
else while it has one. `sleep()` and `wakeup()` are modelled
in full in `Proc`; elsewhere sleeping is a `pc` value which wakeup changes, and
whoever wakes tests its condition again. kill() wakes any sleeper: `Log`, `Bcache`,
`VirtioDisk`, `Pipe` and `Console` have an action for it.

**Log.** `home`, `logdisk` and `header` are the disk and survive `Crash`; all else
is lost. Each disk write of `write_log`, `write_head` and `install_trans` is one
action, in the order of the code, so a crash can fall between any two. After a crash
one process runs recovery, which a crash can interrupt too. A transaction's
header is a sequence of block numbers. Writing the header sector is atomic, the
assumption `log.c` makes. The cache is reduced to what the log needs: a buffer may be
evicted unless it is pinned.

**Bcache.** bget's two scans, the LRU list, recycling, acquiresleep, the disk read of
an invalid buffer, bwrite, brelse, bpin and bunpin. `LogMax` bounds the pins, as
LOGSIZE does. Running out of buffers is the code's panic. A process holds one
buffer at a time here; `Log` and the callers hold up to a few.

**VirtioDisk.** Descriptor chains of three, both rings, both indices modulo `UINT`
(2^16 in the code) and the interrupt line. The device takes requests in ring
order and completes them in any order, each with status 0 or with an error (`bad`). The
interrupt handler is a step for the acknowledgement, one per completion and one for
leaving the loop, because the device runs meanwhile. After an error the handler panics
and spins with vdisk_lock: `IntrPanics`, which changes nothing. `MCVirtioDisk` gives TLC a
view in which ring entries that have been consumed do not count: nobody reads one
before it is written again.

**Proc.** A process moves only while `cpu` has it. `p->lock` is explicit where it is
held across `swtch()`. The tick count is reduced to "this sleeper's time is over".
A process in user mode may make any call of `Calls[p]`, or be interrupted; `Victims`
are the processes that kill() is called on. kill(0) is an action of its own.

**Inode.** Directories are reduced to the number of entries naming an inode.
`trunc`, `invalid` and `unref` are the stages of iput() between which itable.lock
is not held. Inode content is not modelled here.

**FileContent.** `disk` has the bitmap, the blocks, and `addrs[]` and `size` of each
inode. Balloc, Bmap and Bfree are functions of it. A write is WriteCall, then per chunk
WriteBegin (begin_op, ilock and writei's tests), WriteBlock per block, and WriteEnd,
which copies the bytes: nobody else sees the blocks of a locked inode before.
A block has the bytes its buffer has (`data`) and those last given to log_write
(`saved`); when copyin() fails part way through a block, the two differ until the
buffer is recycled (`Recycle`). Such bytes are marked (`Torn`).
`logged` is the set of blocks the transaction writes. itrunc is a step per block.
A byte carries its file and its place, so a block that ends up in the wrong file or
at the wrong offset shows. Init is what mkfs builds for files of any length in
`Lengths`. Blocks of equal role are interchangeable in the TLC view.

**Directory.** `fs` is a record of type, link count, entries and users of each inode.
A path is chosen as it is walked: namex() takes any next name and may end anywhere.
What a call does while it holds one inode is a step. Only sys_unlink keeps one
inode locked while it waits for another (create() waits only for an inode nobody
else can have), so its waiting is a step boundary, "unlinking". link() is in three
parts: count, second path, entry or back. `lost` counts names that went with
a directory that was removed while in use.

**Files.** One step per section under ftable.lock. What a system call has still to do is
in `todo[p]`, so that other processes come in between: the fileclose() of each of
several files, its second part after the lock, the ways back of open() and pipe().
fork()'s filedup()s are one step: the parent's descriptors keep each file open.

**Shell.** runcmd() is the sequence of system calls that a process has ahead, `code[p]`;
the calls themselves are those of `Files`. "in" and "out" in a command to be executed
say what the line wants as its standard input and output. The second initial state
replaces the shell by a program that makes up to `MaxCalls` arbitrary calls.

**ShellParser.** Lines are sequences of tokens. The reference builds all trees that the
grammar gives to a line by splitting it everywhere, with no left-to-right state.

**Console.** cons.lock and uart_tx_lock are explicit. uartputc_sync() reads LSR and
writes THR without a lock, in two steps. Which key was pressed is decided when it is
read. `MCConsole` has two scenes, typing with readers and printing with echo, because
readers and writers meet only in the handler and in the UART, which both have.

**Pipe.** The byte loops are step by step, with the counters modulo `UINT`.

**Memory.** Each kalloc() is a step that may fail. Pages have no identity: the
model keeps the free list's length and the set of references to pages, so leaks
and double frees show as a difference. Reading the ELF file is a choice of
segment sizes or failure. `args` counts the pages of sys_exec's argv[].

**Umalloc.** Headers in an array of units; each turn of a loop is a step. sbrk() may fail
at any time, and the program may call it too. `MCMemory` explores `Memory` and
`Umalloc` in two scenes of one run: they meet only in sbrk(), which may refuse.

## The runs

| Run | Instance | Shows |
|---|---|---|
| `log` | 2 processes, 2 blocks, 2 contents | refinement of `AtomicDisk`, pins, reservation, durability, every waiter is woken |
| `proc` | 3 slots, 2 CPUs, all calls | stack and lock discipline, no missed exit or tick, reparenting |
| `proc_live` | 3 slots, 2 CPUs: init, a parent, a child that kills or exits | init keeps reaping, a killed process exits |
| `bcache` | 3 processes, 3 blocks, 2 buffers | refinement of `BlockStore`, exact counts, dirty buffers stay, when bget panics |
| `pipe` | 1 writer, 1 reader, ring of 2, counters mod 4 | refinement of `Fifo`, one kfree, closing releases sleepers |
| `virtio` | 4 processes, 8 descriptors, indices mod 16 | descriptors owned once, no return early or after an error, no forgotten completion |
| `inode` | 3 processes, 3 inodes, 2 entries | exact counts, no use of a freed inode, iput cannot block, the one way to lose an inode |
| `content` | 2 processes, 2 files, 5 blocks of 2 bytes, 2 direct | refinement of `ByteFiles`, block ownership, transactions fit the log |
| `dirs` | 2 processes, 3 inodes, 2 names, 4 entries a directory | tree and link counts, names lead to allocated inodes, no lock circle |
| `shell` | init, shell and 3 more processes, 4 open files, 2 pipes | exact reference counts, descriptors of commands, waiting, parsing, no pipeline hangs |
| `console` | 1 reader, 2 writers, rings of 2, indices mod 4 | refinements of `LineInput` and `Fifo`, sleepers, output moves |
| `memory` | 3 slots, 16 pages, sizes to 6, pages of 2 bytes; heap of 9 units | pages conserved, p->sz exact, no cleanup panics; heap exactly divided |

The type invariant of a module is a conjunct of the first invariant of its run
(`TypeOK` in OneStackOneCpu, BuffersExact, DescriptorsOwned, ...).

Bounds. In each instance the contended resource is smaller than the demand: two buffers
for three blocks, descriptors for two of four requests (and two left over), two table
entries for three inodes, five disk blocks where two full files want ten, a ring smaller
than a write or a line, four open files where a pipeline of three wants five, memory for
less than all processes want. Counters and indices wrap within a run. Two processes give
every pairwise race; a third is there where one must interfere with two that already
interact. In `content`, MAXOPBLOCKS is 6, the smallest for which a chunk has a block, so
a write takes several transactions; a write of 7 bytes from an odd or an even offset
touches direct, indirect and partial blocks. At most one byte at a time is left by a
failed copy (`MaxTorn`). In `dirs`, three inodes allow a directory in a directory with a
file, or two names of a file, and four entries "." and ".." with both names; the names
are interchangeable. In `shell`, every line of up to four tokens is parsed; one line of
each construct, and of the ways constructs meet, is executed. In `log`, LogSize is 3
although mkfs makes it LOGSIZE: two blocks then suffice to reach log_write's panic,
which keeps the instance small enough for liveness. Link counts stay below `MaxLinks`
and requests to malloc below the heap's size, so neither the wrap of the 16-bit `nlink`
nor the conversion of morecore's size to int (umalloc.c:54) is within the bounds. In
`proc_live` the roles are fixed by slot: with all calls for all slots the liveness graph
is out of reach. Deadlock checking is off only where everybody may really stop: after a
panic (`Bcache`, `Inode`, `Directory`), when all inodes are taken (`Inode`: create then
fails and changes nothing), when all ends of a pipe are closed, and when the shell has
exited (`Shell`; that nobody stops before is the invariant CommandsEnd).

## Fairness

* `Log`: a runnable process proceeds, every operation reaches end_op, the disk
  answers. Nobody has to call begin_op.
* `Proc`: the scheduler scans the table round-robin, so a process that is runnable
  again and again is dispatched (SF); a timer interrupt arrives again and again in
  user mode (SF on Yield); a spinlock is not overtaken for ever (SF on kernel
  steps: xv6's locks are not fair, this assumes that the contention is finite);
  init calls wait in a loop (`init.c`).
* `Pipe`: a process in the kernel gets pi->lock in the end (SF, same remark). Nobody
  has to call read, write or close.
* `Console`: the line sends what the UART has, an interrupt is taken, and a process in
  the kernel goes on (WF only). Nobody has to type, read, write or be killed.

The other specifications are safety only. That every command of the shell ends is
stated there as an invariant: some process can always move.

## What is proved

Each theorem holds for every value of the constants that the module's named assumption
allows: any number of processes, blocks, buffers, inodes, CPUs, descriptors and any
contents. The assumptions ask that sizes are positive, that the special values (`None`)
are distinct from the rest, that sets which the code counts are finite, that an
operation fits into LOGSIZE, that the driver has the three descriptors of a request, and
that ring indices wrap at a multiple of the ring's size larger than it, as 2^16, 2^32
and 2^64 are. `Rings` states the last as a hypothesis, `RingSizes`, which the users
derive.

| Module | Theorem | States |
|---|---|---|
| `LogProofs` | `LogImplementsAtomicDisk` | `Log` with crashes and recovery implements `AtomicDisk` |
| | `LogPins`, `LogSynced`, `LogSpace` | PinnedUntilHome, SyncedWhenIdle, SpaceReserved |
| | `LogInvariant`, `LogTypes`, `LogExclusion`, `LogNoLostWakeup` | the inductive invariant; types; a commit overlaps no operation; whoever sleeps in begin_op has a reason. Only proved: the run checks what rests on them |
| `BcacheProofs` | `BcacheImplementsBlockStore` | `Bcache` implements `BlockStore` |
| | `BcacheExact`, `BcacheKeepsDirty` | BuffersExact, DirtyIsPinned |
| `VirtioProofs` | `VirtioDescriptors`, `VirtioServed`, `VirtioSeen` | DescriptorsOwned, DoneMeansServed, CompletionSeen |
| `ProcProofs` | `ProcStacks`, `ProcWakeups`, `ProcParents` | OneStackOneCpu, NoMissedWakeup, ParentCanWait |
| `InodeProofs` | `InodesExact`, `InodesAllocated`, `InodesWontBlock` | EntriesExact, InUseIsAllocated, IputWontBlock |
| | `InodesNoneLost` | NoneLost, an action property |
| `PipeProofs` | `PipeImplementsFifo`, `PipeSleepers` | `Pipe` implements `Fifo`; SleepersMustWait |
| `ConsoleProofs` | `ConsoleImplementsTxFifo`, `ConsoleImplementsLineInput` | the transmit ring implements `Fifo`, the input ring `LineInput` |
| | `ConsoleSleepers` | SleepersMustWait |

Every proof has the same shape: an inductive invariant, one lemma per action (or per
group of actions that touch the same part of the state), and a last step in temporal
logic. A refinement adds, per action, which abstract step or stutter it is.

**Log.** The invariant is `TypeOK /\ LogInv`, with `LogInv` the conjunction of

* `Phases`: who may be where: one committer, alone, or one recovering process
  before anybody else exists; `outstanding` counts the operations;
* `Shape`: which header is on disk in which phase, and where the loop counter is;
* `PinnedUntilHome`: a logged block is pinned once until it has been copied home;
* `Contents`: what is equal to what: an unpinned buffer to its home block, the
  log blocks written so far to the cache, the blocks installed so far to the log.

None is inductive alone. That a commit changes nothing durable until the header is
written needs `Shape` (the header on disk is empty) and `Contents` (the log
blocks are the cached ones) at the moment it is; that eviction loses nothing needs
`PinnedUntilHome`; that a crash during install loses nothing needs `Contents` for
the part installed and for the part not installed. The refinement maps the
durable content to the home blocks overlaid by the committed log, and the current
content to what bread returns. WriteHead is the abstract commit, CrashReboot the
abstract crash; all other disk writes are stutters. `LogSpace` has an invariant of its
own, `SpaceInv`: each operation has logged no more than it reserved, and only blocks
that are in the header; so a block that is new to the header is new to its operation,
and pays for itself out of that operation's reservation.

**Bcache.** `BuffersExact /\ DirtyIsPinned` is inductive. Counting needs that no block has
two buffers (or a second process could be on the other one), and recycling needs the
counts to conclude that the victim equals the disk. The refinement maps a block to its
valid buffer or else to the disk, and its owner to the process that has its buffer.

**VirtioDisk.** A ring is seen as the set of entries between its indices (`Rings`: a put
adds one, a get removes one, and no entry is there twice). With that, every request is
in one place (`Staged`): waiting in the avail ring, in the device, in the used ring, or
done; its chain is whole and disjoint from every other and from the free descriptors
(`Chained`); and the places add up (`Conserved`), which is why neither ring is ever full.

**Proc.** The invariants are conjuncts of one: `TypeOK`, the part of OneStackOneCpu about
CPUs, `Control`, NoMissedWakeup and ParentCanWait. `Control` ties locks and states to places in
the code; the loops of wakeup() and wait() are covered by statements about the slots
before and after the loop index (`ZombiesSeen`, `ParentAwake`, `ScannedAlive`, `TicksSeen`).

**Inode.** EntriesExact with `OneLife`: an inode without names has one process that creates
it or one that frees it, and the two overlap only once the old one is free on disk. This
is what makes iput()'s unprotected window harmless for whoever gets the inode next, and
what leaves the one step that NoneLost excepts.

**Pipe.** The lock is with whom the code says (`Calls`), open flags agree with who still has
an end (`Open`), what was tested under the lock still holds (`Tested`), a sleeper has a
reason or somebody who will wake it (`Sleeping`), and the counters are at most PIPESIZE
apart. The queue is the content of the ring; a put appends to it, a get takes its head.

**Console.** Both locks, the reasons of sleepers, the UART's characters (of uartstart() and
uartputc_sync() at most one each has found it idle), the transmit ring, and for the input
ring that r, w and e are in order, span at most the ring, and that the line under edit has
no newline. The last is what makes ^U, which stops at a newline, empty the line.

Only model-checked, and why:

* liveness (EveryWaiterWoken, InitKeepsReaping, KilledExits, CloseUnblocks, OutputMoves):
  TLAPS does not reason about fairness and ENABLED;
* `Shell`, with `Files`, whose initial states and specification it gives: ShellParser and
  RunCmd are recursive, which the SMT backend does not support, and what a recursive
  definition computes needs induction over data;
* `FileContent` (BlocksExact, WritesFitLog, ImplementsByteFiles), `Directory` (TreeExact,
  NamesAllocated, NoLockCircle), `Memory` (PagesConserved) and `Umalloc` (HeapExact): no
  obstacle of principle for most of it, but their invariants are about sums over files,
  trees and chains of headers, for which the proof library has little, and they are still
  to be done.

## What the models show about the code

The properties hold with these exceptions, which they name:

* `iput()` frees an inode, takes itable.lock again and decrements `ref` without
  looking again (fs.c:357). If another process got the same inode from ialloc and
  gave it up meanwhile, the inode stays allocated without names and without users.
  Nothing uses a freed inode; what is lost is one inode. `NoneLost` says that there is
  no other way.
* `wait()` tests killed(p) before sleep() takes p->lock (proc.c:427): a kill in between
  sets the flag and wakes nobody. The process exits only when a child does; likewise in
  sys_sleep, where it is the clock. `KilledExits` has this exception; it also says that
  a kill which finds its victim asleep always wakes it.
* If copyin fails part way through a block, writei leaves bytes in a buffer it does not
  log (fs.c:522): readers see them until the buffer is recycled, and then the old ones
  again. `ImplementsByteFiles` has this exception, as `Forget` of `ByteFiles`.
* A directory that is removed while it is somebody's current directory keeps its
  ".." entry, whose inode may be freed in turn; following it reaches the panic
  "ilock: no type" (fs.c:314). `NamesAllocated` says that nothing else does.
* create() and link() work in a removed directory; the names they make go with it, and
  stay in the link counts of their files (`lost` in `TreeExact`).
* A writer killed in pipewrite returns -1 without waking the readers of the bytes it
  has written; `SleepersMustWait` has this exception.
* While keys keep coming, uartintr() does not get to the output (`OutputMoves`); and
  an echo between uartstart()'s test of LSR and its write makes the UART hold two
  characters (`SleepersMustWait`), which its FIFO can.
* When fork() fails for the right side of a pipeline, the shell does not wait for the
  left one (`ForegroundWaited`); it ends all the same (`CommandsEnd`).

Observations from reading that no property states:

* begin_op reserves up to LOGSIZE data blocks (log.c:133); mkfs makes a log area with
  LOGSIZE - 1 of them (mkfs.c:25). The contract is off by one; the system calls of
  this kernel stay below it.
* kill(0) finds a free slot, whose pid is 0, and sets its `killed` flag; allocproc
  does not clear it, though freeproc does, so the next process there starts killed.
  (`KilledExits` is checked with it: a process that starts so exits.)
* If copyout fails, piperead and consoleread have already consumed the byte.
* filewrite's count of blocks (file.c:155) allows for one bitmap block per data block;
  `WritesFitLog` is checked with one bitmap block in all, which is what the size of this
  file system gives.
* alloc3_desc that fails half way frees what it got and so wakes other waiters, which
  may do the same to it; nothing is lost, but they can spin.
* init reaps the first zombie in table order, so a later slot may wait as long as
  new zombies come earlier: `InitKeepsReaping` promises progress, not order.
* uvmalloc(0, 0) returns 0, which exec takes for failure.
* mkfs rounds the root directory's size up to the next block (mkfs.c:166), also when its
  entries fill a block exactly: then the last block is a hole, which the first read fills.

## Not modelled, and why

* Boot code, assembly, PLIC, page-table bit layout, device initialisation: straight-line
  code before anything runs concurrently, or below the level of these models.
* printf, string functions, system call dispatch, copyin/copyout/copyinstr, fstat: no
  state that another actor changes; a failing copy is a choice where it matters, and one
  that fails part way is modelled in `FileContent`.
* push_off's nesting count and the CPUs' memory ordering: locks are taken to work.
* skipelem's and gettoken's work on characters: paths are sequences of names, lines are
  sequences of tokens.
* Crashes inside the file system calls: `Log` shows that a transaction is atomic, so
  `FileContent`, `Directory` and `Inode` need not crash inside one. An inode without names
  that is in use at a crash stays allocated: the kernel has no recovery for it.
* User programs other than the shell, init, cat and echo are the arbitrary callers of
  the models. `ramdisk.c` is not part of the kernel that is built.

## Plan

1. Proofs of what is only model-checked: `BlocksExact` of `FileContent` and
   `NoLockCircle` of `Directory` first, then `FilesExact` (in a copy of `Shell`'s
   composition without the parser), `PagesConserved` and `HeapExact`.
2. Compose `FileContent` with `Log`: a crash keeps a prefix of a write's chunks.
3. push_off and pop_off in `Proc`.
