----------------------------- MODULE FileContent -----------------------------
(***************************************************************************)
(* The content of files: blocks (kernel/fs.c: balloc, bfree, bmap, itrunc, *)
(* readi, writei), the loops of fileread and filewrite (kernel/file.c),    *)
(* and the file system image mkfs builds.  A block is allocated, freed, or *)
(* looked up in one step, under the bitmap's buffer or ip->lock.  What is  *)
(* copied to blocks of a locked inode nobody sees before it is unlocked:   *)
(* writei() copies in its last step.  A byte is as large as a block        *)
(* number, so a block holds BSIZE of either.  There is one bitmap block.   *)
(***************************************************************************)
EXTENDS Integers, Sequences, FiniteSets

CONSTANTS Procs,
          NFILES,             \* inodes 1 .. NFILES, the files of mkfs
          Fds, Ip,            \* open files: descriptors, possibly shared; inodes
          NBLOCKS,            \* blocks 1 .. NBLOCKS after the meta blocks
          NDIRECT, BSIZE, MAXOPBLOCKS,
          Counts,             \* bound: the n of a read or a write
          Lengths,            \* bound: length of a file when the system starts
          MaxTorn,            \* bound: bytes that failing writes have left
          None

Files == 1 .. NFILES
Blocks == 1 .. NBLOCKS
NINDIRECT == BSIZE
MAXFILE == NDIRECT + NINDIRECT
BITMAP == 0      \* as blocks of a transaction: the bitmap, an inode's block
INODE == -1

ASSUME FileContentConstants ==
  /\ NFILES \in Nat /\ NBLOCKS \in Nat /\ NDIRECT \in Nat /\ BSIZE \in Nat \ {0}
  /\ MAXOPBLOCKS \in Nat /\ MAXOPBLOCKS >= 6
  /\ Ip \in [Fds -> Files] /\ None \notin Procs
  /\ Counts \subseteq Nat \ {0} /\ Lengths \subseteq 0 .. MAXFILE * BSIZE
  /\ MaxTorn \in Nat

VARIABLES disk,         \* bitmap; data, as bread() returns it; saved, as the last
                        \* log_write() got it; of an inode: addrs, size
          off,          \* struct file
          lock,         \* ip->lock
          pc,           \* a process
          fd, n, i,     \* filewrite: its arguments, bytes written so far
          tot,          \* writei: bytes whose blocks it has
          pos,          \* itrunc: the next block to free
          logged,       \* blocks the transaction writes, iupdate()'s included
          panic

write == <<fd, n, i, tot>>
vars == <<disk, off, lock, pc, write, pos, logged, panic>>

Least(S) == CHOOSE x \in S : \A y \in S : x <= y
MinOf(a, b) == IF a < b THEN a ELSE b
MaxOf(a, b) == IF a > b THEN a ELSE b

-----------------------------------------------------------------------------
(* Blocks: functions of disk                                               *)

Zeroed == [x \in 0 .. BSIZE - 1 |-> 0]

FreeBlocks(k) == Blocks \ k.bitmap

\* The first free block, or 0.
BallocAddr(k) == IF FreeBlocks(k) = {} THEN 0 ELSE Least(FreeBlocks(k))

Balloc(k) ==
  IF FreeBlocks(k) = {} THEN k
  ELSE [k EXCEPT !.bitmap = @ \union {BallocAddr(k)}, !.data[BallocAddr(k)] = Zeroed]

\* A bug: the block stays marked.
BfreeNone(k, b) == k

Bfree(k, b) == [k EXCEPT !.bitmap = @ \ {b}]

\* Entry x of ip->addrs, allocated if it is 0; 0 if that fails.
Direct(k, f, x) ==
  IF k.addrs[f][x] # 0 THEN k
  ELSE [Balloc(k) EXCEPT !.addrs[f][x] = BallocAddr(k)]

Indirect(k, a, x) ==
  IF k.data[a][x] # 0 THEN k
  ELSE [Balloc(k) EXCEPT !.data[a][x] = BallocAddr(k)]

Bmap(k, f, bn) ==
  IF bn < NDIRECT THEN Direct(k, f, bn)
  ELSE LET l == Direct(k, f, NDIRECT) IN
       IF l.addrs[f][NDIRECT] = 0 THEN l
       ELSE Indirect(l, l.addrs[f][NDIRECT], bn - NDIRECT)

\* Block bn of the file, 0 if it has none.
Addr(k, f, bn) ==
  CASE bn < NDIRECT -> k.addrs[f][bn]
    [] bn >= NDIRECT /\ k.addrs[f][NDIRECT] = 0 -> 0
    [] OTHER -> k.data[k.addrs[f][NDIRECT]][bn - NDIRECT]

\* The same, and the indirect block as block MAXFILE.
At(f, x) == IF x = MAXFILE THEN disk.addrs[f][NDIRECT] ELSE Addr(disk, f, x)

\* The blocks log_write() gets on the way from k to l.
Changed(k, l) ==
  {b \in Blocks : k.data[b] # l.data[b] \/ b \in l.bitmap \ k.bitmap}
  \union (IF k.bitmap # l.bitmap THEN {BITMAP} ELSE {})

LogWrite(k, bs) ==
  [k EXCEPT !.saved = [b \in Blocks |-> IF b \in bs THEN k.data[b] ELSE @[b]]]

\* The buffer of b is recycled: what it held and log_write() did not get is
\* gone.  (It is not, if an operation of the same group has b in the log; then
\* this step is one too many.)
Recycle(b) ==
  /\ panic = "no" /\ disk.data[b] # disk.saved[b]
  /\ disk' = [disk EXCEPT !.data[b] = disk.saved[b]]
  /\ UNCHANGED <<off, lock, pc, write, pos, logged, panic>>

-----------------------------------------------------------------------------
(* fileread and filewrite                                                  *)

File(p) == Ip[fd[p]]

\* off > ip->size reads nothing, and so does a failing copyout().
Read(p, d, k) ==
  LET f == Ip[d] IN
  /\ panic = "no" /\ pc[p] = "user" /\ lock[f] = None
  /\ off[d] < disk.size[f]
  /\ off' = [off EXCEPT ![d] = MinOf(@ + k, disk.size[f])]
  /\ UNCHANGED <<disk, lock, pc, write, pos, logged, panic>>

\* sys_open() of the file, and its descriptor takes the place of d.
Reopen(p, d) ==
  /\ panic = "no" /\ pc[p] = "user" /\ off[d] # 0
  /\ \A q \in Procs : fd[q] # d
  /\ off' = [off EXCEPT ![d] = 0]
  /\ UNCHANGED <<disk, lock, pc, write, pos, logged, panic>>

WriteCall(p, d, k) ==
  /\ panic = "no" /\ pc[p] = "user"
  /\ fd' = [fd EXCEPT ![p] = d] /\ n' = [n EXCEPT ![p] = k]
  /\ pc' = [pc EXCEPT ![p] = "chunk"]
  /\ UNCHANGED <<disk, off, lock, i, tot, pos, logged, panic>>

Return(p) ==
  /\ pc' = [pc EXCEPT ![p] = "user"]
  /\ fd' = [fd EXCEPT ![p] = None] /\ n' = [n EXCEPT ![p] = 0]
  /\ i' = [i EXCEPT ![p] = 0] /\ tot' = [tot EXCEPT ![p] = 0]

\* A bug: the whole write is one transaction.
MaxUnsplit == MAXFILE * BSIZE

Max == ((MAXOPBLOCKS - 1 - 1 - 2) \div 2) * BSIZE

N1(p) == MinOf(n[p] - i[p], Max)

\* begin_op(), ilock(), and the tests of writei().
WriteBegin(p) ==
  /\ panic = "no" /\ pc[p] = "chunk" /\ lock[File(p)] = None
  /\ \/ /\ off[fd[p]] > disk.size[File(p)] \/ off[fd[p]] + N1(p) > MAXFILE * BSIZE
        /\ Return(p)
        /\ UNCHANGED <<lock, logged>>
     \/ /\ off[fd[p]] <= disk.size[File(p)] /\ off[fd[p]] + N1(p) <= MAXFILE * BSIZE
        /\ lock' = [lock EXCEPT ![File(p)] = p]
        /\ logged' = [logged EXCEPT ![p] = {INODE}]
        /\ pc' = [pc EXCEPT ![p] = "map"]
        /\ UNCHANGED write
  /\ UNCHANGED <<disk, off, pos, panic>>

\* Where writei() is in the file, and how much of this block it has to write.
Offset(p) == off[fd[p]] + tot[p]
M(p) == MinOf(N1(p) - tot[p], BSIZE - (Offset(p) % BSIZE))

\* One turn of writei()'s loop: the block is written, or bmap() or copyin()
\* fails.
WriteBlock(p) ==
  LET f == File(p)
      k == Bmap(disk, f, Offset(p) \div BSIZE)
      a == Addr(k, f, Offset(p) \div BSIZE) IN
  /\ panic = "no" /\ pc[p] = "map"
  /\ disk' = LogWrite(k, Changed(disk, k))
  /\ \/ /\ logged' = [logged EXCEPT ![p] = @ \union Changed(disk, k)]
        /\ pc' = [pc EXCEPT ![p] = "copy"]
        /\ UNCHANGED tot
     \/ /\ a # 0
        /\ logged' = [logged EXCEPT ![p] = @ \union Changed(disk, k) \union {a}]
        /\ tot' = [tot EXCEPT ![p] = @ + M(p)]
        /\ pc' = [pc EXCEPT ![p] = IF tot'[p] = N1(p) THEN "copy" ELSE "map"]
  /\ UNCHANGED <<off, lock, fd, n, i, pos, panic>>

\* What processes write: a byte that tells its file and its place from the
\* next ones; and what a copyin() that fails has written.
Byte(f, o) == 2 * f + (o % 2)
Torn(f, o) == -Byte(f, o)

Truncating(f) == {p \in Procs : pc[p] = "trunc" /\ lock[f] = p}

TornBytes ==
  {x \in Files \X (0 .. MAXFILE * BSIZE - 1) :
     LET b == Addr(disk, x[1], x[2] \div BSIZE) IN
     /\ x[2] < disk.size[x[1]] /\ Truncating(x[1]) = {}
     /\ disk.data[b][x[2] % BSIZE] < 0 \/ disk.saved[b][x[2] % BSIZE] < 0}

\* How far the copyin() that ended the loop may have got, if it was one: to
\* the page that is not there.
Partial(p) ==
  IF tot[p] = N1(p) \/ Addr(disk, File(p), Offset(p) \div BSIZE) = 0 THEN {0}
  ELSE 0 .. MinOf(M(p) - 1, MaxTorn - Cardinality(TornBytes))

\* The bytes of p's write in their blocks, and c more of the failing copyin();
\* ip->size; iupdate().  A block that the transaction has not logged keeps
\* those c bytes only in its buffer.
Copied(p, c) ==
  LET f == File(p)
      place(b, x) == {y \in off[fd[p]] .. Offset(p) + c - 1 :
                        Addr(disk, f, y \div BSIZE) = b /\ y % BSIZE = x}
      byte(y) == IF y < Offset(p) THEN Byte(f, y) ELSE Torn(f, y)
      k == [disk EXCEPT
              !.data = [b \in Blocks |-> [x \in 0 .. BSIZE - 1 |->
                          IF place(b, x) = {} THEN @[b][x] ELSE byte(Least(place(b, x)))]],
              !.size[f] = MaxOf(@, Offset(p))]
  IN LogWrite(k, logged[p])

\* A bug: the offset is that of the start of the write.
MovedBy(p) == IF i[p] > 0 THEN 0 ELSE tot[p]

Moved(p) == tot[p]

\* The end of writei(), iunlock(), end_op(), and on to the next chunk.
WriteEnd(p) ==
  /\ panic = "no" /\ pc[p] = "copy"
  /\ \E c \in Partial(p) : disk' = Copied(p, c)
  /\ off' = [off EXCEPT ![fd[p]] = @ + Moved(p)]
  /\ lock' = [lock EXCEPT ![File(p)] = None]
  /\ logged' = [logged EXCEPT ![p] = {}]
  /\ \/ /\ tot[p] # N1(p) \/ i[p] + tot[p] = n[p]
        /\ Return(p)
     \/ /\ tot[p] = N1(p) /\ i[p] + tot[p] < n[p]
        /\ i' = [i EXCEPT ![p] = @ + tot[p]]
        /\ tot' = [tot EXCEPT ![p] = 0]
        /\ pc' = [pc EXCEPT ![p] = "chunk"]
        /\ UNCHANGED <<fd, n>>
  /\ UNCHANGED <<pos, panic>>

-----------------------------------------------------------------------------
(* itrunc, by sys_open(O_TRUNC) through another descriptor, or by iput()   *)

TruncBegin(p, f) ==
  /\ panic = "no" /\ pc[p] = "user" /\ lock[f] = None
  /\ lock' = [lock EXCEPT ![f] = p]
  /\ logged' = [logged EXCEPT ![p] = {INODE}]
  /\ pc' = [pc EXCEPT ![p] = "trunc"]
  /\ pos' = [pos EXCEPT ![p] = 0]
  /\ UNCHANGED <<disk, off, write, panic>>

\* What bfree() gets next: direct blocks, those of the indirect block, it.
Victim(p, f) == At(f, pos[p])

\* ip->addrs[] is cleared as it goes; the indirect block keeps its entries.
Cleared(p, f, k) ==
  CASE pos[p] < NDIRECT -> [k EXCEPT !.addrs[f][pos[p]] = 0]
    [] pos[p] = MAXFILE -> [k EXCEPT !.addrs[f][NDIRECT] = 0, !.size[f] = 0]
    [] OTHER -> k

TruncBlock(p, f) ==
  LET b == Victim(p, f)
      k == IF b = 0 THEN disk ELSE Bfree(disk, b) IN
  /\ panic = "no" /\ pc[p] = "trunc" /\ lock[f] = p
  /\ panic' = IF b # 0 /\ b \notin disk.bitmap THEN "freeing free block" ELSE panic
  /\ disk' = Cleared(p, f, k)
  /\ \/ /\ pos[p] < MAXFILE
        /\ pos' = [pos EXCEPT ![p] = @ + 1]
        /\ logged' = [logged EXCEPT ![p] = @ \union Changed(disk, k)]
        /\ UNCHANGED <<lock, pc>>
     \/ /\ pos[p] = MAXFILE
        /\ pos' = [pos EXCEPT ![p] = 0]
        /\ logged' = [logged EXCEPT ![p] = {}]
        /\ lock' = [lock EXCEPT ![f] = None]
        /\ pc' = [pc EXCEPT ![p] = "user"]
  /\ UNCHANGED <<off, write>>

-----------------------------------------------------------------------------
(* mkfs: iappend() takes the blocks of one file after those of another.    *)

BlocksOf(len) == (len + BSIZE - 1) \div BSIZE

Used(len) == BlocksOf(len) + (IF BlocksOf(len) > NDIRECT THEN 1 ELSE 0)

\* freeblock after the files 1 .. f.
Sets == INSTANCE FiniteSetsExt
FreeBlock(f, len) == 1 + Sets!MapThenSumSet(LAMBDA g : Used(len[g]), 1 .. f)

Image(len) ==
  LET first(f) == FreeBlock(f - 1, len)
      nb(f) == BlocksOf(len[f])
      last == FreeBlock(NFILES, len) - 1
      \* the file and the block of it that b is; the indirect block follows
      \* the direct ones
      data(b) == {x \in Files \X (0 .. MAXFILE - 1) :
                    /\ x[2] < nb(x[1])
                    /\ b = first(x[1]) + x[2] + (IF x[2] < NDIRECT THEN 0 ELSE 1)}
      ind(b) == {f \in Files : nb(f) > NDIRECT /\ b = first(f) + NDIRECT}
      content == [b \in Blocks |-> [y \in 0 .. BSIZE - 1 |->
      CASE ind(b) # {} ->
             LET f == Least(ind(b)) IN
             IF NDIRECT + y < nb(f) THEN b + 1 + y ELSE 0
        [] data(b) # {} ->
             LET x == CHOOSE z \in data(b) : TRUE IN
             IF x[2] * BSIZE + y < len[x[1]] THEN Byte(x[1], x[2] * BSIZE + y) ELSE 0
        [] OTHER -> 0]] IN
  [bitmap |-> 1 .. last,
   size |-> len,
   addrs |-> [f \in Files |-> [x \in 0 .. NDIRECT |->
                IF x < nb(f) THEN first(f) + x ELSE 0]],
   data |-> content, saved |-> content]

Init ==
  /\ \E len \in [Files -> Lengths] :
       FreeBlock(NFILES, len) <= NBLOCKS + 1 /\ disk = Image(len)
  /\ off = [d \in Fds |-> 0] /\ lock = [f \in Files |-> None]
  /\ pc = [p \in Procs |-> "user"] /\ fd = [p \in Procs |-> None]
  /\ n = [p \in Procs |-> 0] /\ i = [p \in Procs |-> 0]
  /\ tot = [p \in Procs |-> 0]
  /\ pos = [p \in Procs |-> 0] /\ logged = [p \in Procs |-> {}]
  /\ panic = "no"

Next ==
  \E p \in Procs :
    \/ \E d \in Fds :
         \/ Reopen(p, d)
         \/ \E k \in Counts : Read(p, d, k) \/ WriteCall(p, d, k)
    \/ WriteBegin(p) \/ WriteBlock(p) \/ WriteEnd(p)
    \/ \E f \in Files : TruncBegin(p, f) \/ TruncBlock(p, f)
    \/ \E b \in Blocks : Recycle(b)

Spec == Init /\ [][Next]_vars
-----------------------------------------------------------------------------
\* A file that is being truncated is empty already.
Content ==
  [f \in Files |->
     IF Truncating(f) # {} THEN <<>>
     ELSE [j \in 1 .. disk.size[f] |->
             disk.data[Addr(disk, f, (j - 1) \div BSIZE)][(j - 1) % BSIZE]]]

BF == INSTANCE ByteFiles WITH content <- Content, MaxLen <- MAXFILE * BSIZE

(* Through direct and indirect blocks, which are allocated, freed and      *)
(* given to other files, files are what ByteFiles promises: each write     *)
(* changes its own file only, at the offset that processes may share, and  *)
(* each of its parts is there as a whole or not at all.  The exception is  *)
(* a part whose copyin() fails: its first bytes replace those that the     *)
(* file had there, though no write is reported, and may later be gone.     *)
ImplementsByteFiles == BF!Spec

\* The places of a file that still refer to a block: its blocks in order, and
\* the indirect block.
Places(f) ==
  {x \in 0 .. MAXFILE :
     /\ \A p \in Truncating(f) : pos[p] <= x
     /\ At(f, x) # 0}

References == UNION {{<<f, x>> : x \in Places(f)} : f \in Files}

(* A block is marked in the bitmap exactly if one file refers to it, at    *)
(* one place, whether mkfs, a write that ran out of blocks, or a           *)
(* truncation half way put it there; and no block is freed twice.          *)
BlocksExact ==
  /\ LET refs == References IN
       /\ {At(x[1], x[2]) : x \in refs} = disk.bitmap
       /\ Cardinality(refs) = Cardinality(disk.bitmap)
  /\ \A f \in Files, x \in 0 .. MAXFILE - 1 :
       x * BSIZE < disk.size[f] /\ Truncating(f) = {} => Addr(disk, f, x) # 0
  /\ panic = "no"

(* filewrite() splits a write so that none of its transactions writes more *)
(* blocks than one operation may: wherever it starts, the bitmap, the      *)
(* inode and the indirect block included.                                  *)
WritesFitLog == \A p \in Procs : Cardinality(logged[p]) <= MAXOPBLOCKS

=============================================================================
