------------------------------ MODULE Directory ------------------------------
(***************************************************************************)
(* Directories and paths (kernel/fs.c: namex, dirlookup, dirlink) under    *)
(* the system calls that use them (kernel/sysfile.c).  What a call does    *)
(* while it has a single inode locked is one step; a call that waits for a *)
(* second lock, or that has unlocked one inode on its way to the next,     *)
(* does so between two steps.  An inode is in use by number: that all its  *)
(* users share one entry of the inode table is the matter of Inode.  The   *)
(* path a call is given, a sequence of names, and the call itself are not  *)
(* fixed before they make a difference: namex() takes any name next, and   *)
(* ends at any point.  Files include devices.                              *)
(***************************************************************************)
EXTENDS Integers, Sequences, FiniteSets

CONSTANTS Procs,
          Inums, ROOTINO,
          FileNames,
          MaxEntries,         \* bound: entries a directory has room for
          MaxLinks,           \* bound: names of a file, lost ones included
          None

Dots == {".", ".."}
PathNames == FileNames \union Dots

ASSUME DirectoryConstants ==
  /\ Inums \subseteq Nat \ {0} /\ ROOTINO \in Inums
  /\ None \notin Procs \union PathNames
  /\ MaxEntries \in Nat /\ MaxEntries > 2 /\ MaxLinks \in Nat \ {0}

VARIABLES fs,             \* the inodes: type, nlink, entries, users (ref), and
                          \* how many of its names went with a removed directory
          file,           \* an open file; bound: one at a time
          cwd,            \* a process: its directory
          pc, cur,        \* where it is in a system call; namex: the inode it is at
          name, old,      \* the name to unlink; a second inode
          panic

call == <<pc, cur, name, old>>
vars == <<fs, file, cwd, call, panic>>

PCs == {"idle", "walk", "exists", "walkto", "bad", "unlinking"}

Entry(s, i) == [name |-> s, inum |-> i]
Unused == Entry(None, 0)

-----------------------------------------------------------------------------
(* Inodes and directories: functions of fs                                 *)

Users(f, i, k) == [f EXCEPT !.ref[i] = @ + k]

\* What is left out of a directory that is freed.
Lost(f, d) ==
  [i \in Inums |-> f.lost[i] + Cardinality({s \in 3 .. Len(f.dir[d]) : f.dir[d][s].inum = i})]

Iput(f, i) ==
  IF f.ref[i] = 1 /\ f.nlink[i] = 0
    THEN [f EXCEPT !.ref[i] = 0, !.type[i] = "free", !.dir[i] = <<>>, !.lost = Lost(f, i)]
    ELSE Users(f, i, -1)

Slots(f, d, s) == {k \in 1 .. Len(f.dir[d]) : f.dir[d][k].inum # 0 /\ f.dir[d][k].name = s}

\* The first entry with the name; 0: none.
Slot(f, d, s) ==
  IF Slots(f, d, s) = {} THEN 0
  ELSE CHOOSE k \in Slots(f, d, s) : \A j \in Slots(f, d, s) : k <= j

Found(f, d, s) == Slot(f, d, s) # 0
Dirlookup(f, d, s) == f.dir[d][Slot(f, d, s)].inum

\* The first unused entry, or one more, is given to the name; none: no room.
Linked(f, d, s, i) ==
  LET unused == {k \in 1 .. Len(f.dir[d]) : f.dir[d][k].inum = 0}
      first == CHOOSE k \in unused : \A j \in unused : k <= j IN
  CASE unused # {} -> {[f EXCEPT !.dir[d][first] = Entry(s, i)]}
    [] unused = {} /\ Len(f.dir[d]) < MaxEntries ->
         {[f EXCEPT !.dir[d] = Append(@, Entry(s, i))]}
    [] OTHER -> {}

\* A bug: dirlink() does not look whether the name is there.
DirlinkTwice(f, d, s, i) == Linked(f, d, s, i)

\* The file systems dirlink() may leave, none if it fails.
Dirlink(f, d, s, i) == IF Found(f, d, s) THEN {} ELSE Linked(f, d, s, i)

IsDirEmpty(f, d) == \A k \in 3 .. Len(f.dir[d]) : f.dir[d][k].inum = 0

\* sys_unlink() alone keeps a directory locked while it waits for an inode.
Unlocked(i) == \A p \in Procs : pc[p] = "unlinking" => cur[p] # i

-----------------------------------------------------------------------------
(* namex                                                                   *)

\* The call goes back to user space with nothing in its hands but f.
Return(p, f) ==
  /\ fs' = f
  /\ pc' = [pc EXCEPT ![p] = "idle"] /\ cur' = [cur EXCEPT ![p] = 0]
  /\ name' = [name EXCEPT ![p] = None] /\ old' = [old EXCEPT ![p] = 0]

\* sys_link() fails, and still has to take the link count back.
GotoBad(p, f) ==
  /\ fs' = f
  /\ pc' = [pc EXCEPT ![p] = "bad"] /\ cur' = [cur EXCEPT ![p] = 0]
  /\ UNCHANGED <<name, old>>

\* A system call with a path: from the root, or from the current directory.
Call(p, i) ==
  /\ panic = "no" /\ pc[p] = "idle" /\ i \in {ROOTINO, cwd[p]}
  /\ fs' = Users(fs, i, 1)
  /\ cur' = [cur EXCEPT ![p] = i]
  /\ pc' = [pc EXCEPT ![p] = "walk"]
  /\ UNCHANGED <<cwd, file, name, old, panic>>

Walking(p) == pc[p] \in {"walk", "walkto"}

Ilock(i) == panic = "no" /\ Unlocked(i) /\ fs.type[i] # "free" /\ UNCHANGED panic

\* The inode a call is about to lock.
Wants(p) == IF pc[p] \in {"bad", "unlinking"} THEN old[p] ELSE cur[p]

IlockPanics(p) ==
  /\ panic = "no" /\ pc[p] # "idle"
  /\ Unlocked(Wants(p)) /\ fs.type[Wants(p)] = "free"
  /\ panic' = "ilock: no type"
  /\ UNCHANGED <<fs, cwd, file, call>>

\* One turn of the loop, from ilock(ip) to iunlockput(ip).
Walk(p, s) ==
  LET ip == cur[p] IN
  /\ Walking(p) /\ Ilock(ip)
  /\ fs.type[ip] = "dir" /\ Found(fs, ip, s)
  /\ LET next == Dirlookup(fs, ip, s) IN
       /\ fs' = Iput(Users(fs, next, 1), ip)
       /\ cur' = [cur EXCEPT ![p] = next]
  /\ UNCHANGED <<cwd, file, pc, name, old>>

\* Not a directory; no such name; or a parent wanted of an empty path.
WalkFails(p) ==
  /\ Walking(p) /\ Ilock(cur[p])
  /\ \/ pc[p] = "walk" /\ Return(p, Iput(fs, cur[p]))
     \/ pc[p] = "walkto" /\ GotoBad(p, Iput(fs, cur[p]))
  /\ UNCHANGED <<cwd, file>>

\* nameiparent() ends at a directory, with a name, which the caller locks
\* again: a directory stays one as long as it is in use.
Parent(p) == Ilock(cur[p]) /\ fs.type[cur[p]] = "dir"

-----------------------------------------------------------------------------
(* System calls                                                            *)

\* A file descriptor keeps the inode, or there is none to keep it.
Opened(p, i, f) ==
  \/ file = 0 /\ file' = i /\ Return(p, f)
  \/ Return(p, Iput(f, i)) /\ UNCHANGED file

Open(p) ==
  /\ pc[p] = "walk" /\ Ilock(cur[p])
  /\ Opened(p, cur[p], fs)
  /\ UNCHANGED cwd

Close(p) ==
  /\ panic = "no" /\ pc[p] = "idle" /\ file # 0
  /\ fs' = Iput(fs, file)
  /\ file' = 0
  /\ UNCHANGED <<cwd, call, panic>>

Chdir(p) ==
  /\ pc[p] = "walk" /\ Ilock(cur[p])
  /\ \/ /\ fs.type[cur[p]] # "dir"
        /\ Return(p, Iput(fs, cur[p]))
        /\ UNCHANGED cwd
     \/ /\ fs.type[cur[p]] = "dir"
        /\ Return(p, Iput(fs, cwd[p]))
        /\ cwd' = [cwd EXCEPT ![p] = cur[p]]
  /\ UNCHANGED file

\* create(): the name is there, and its inode is locked in a second step.
CreateFound(p, s) ==
  /\ pc[p] = "walk" /\ Parent(p) /\ Found(fs, cur[p], s)
  /\ LET ip == Dirlookup(fs, cur[p], s) IN
       /\ fs' = Iput(Users(fs, ip, 1), cur[p])
       /\ cur' = [cur EXCEPT ![p] = ip]
  /\ pc' = [pc EXCEPT ![p] = "exists"]
  /\ UNCHANGED <<cwd, file, name, old>>

\* An existing file is opened; mkdir() and mknod() fail.
CreateExists(p) ==
  /\ pc[p] = "exists" /\ Ilock(cur[p])
  /\ \/ fs.type[cur[p]] = "file" /\ Opened(p, cur[p], fs)
     \/ Return(p, Iput(fs, cur[p])) /\ UNCHANGED file
  /\ UNCHANGED cwd

\* ialloc() and what create() writes to the inode it has alone.
Ialloc(f, i, d, t) ==
  [f EXCEPT !.type[i] = t, !.nlink[i] = 1, !.ref[i] = @ + 1, !.lost[i] = 0,
            !.dir[i] = IF t = "dir" THEN <<Entry(".", i), Entry("..", d)>> ELSE <<>>]

CountDotDot(f, d, t) == IF t = "dir" THEN [f EXCEPT !.nlink[d] = @ + 1] ELSE f

CreateNew(p, s, t) ==
  /\ pc[p] = "walk" /\ Parent(p) /\ ~Found(fs, cur[p], s)
  /\ \E i \in Inums :
       LET d == cur[p]
           f == Ialloc(fs, i, d, t)
           linked == Dirlink(f, d, s, i) IN
       /\ fs.type[i] = "free"
       /\ \/ /\ linked = {}     \* fail: nlink = 0, and both are put
             /\ Return(p, Iput(Iput([f EXCEPT !.nlink[i] = 0], i), d))
             /\ UNCHANGED file
          \/ \E g \in linked :
               LET h == Iput(CountDotDot(g, d, t), d) IN
               IF t = "dir" THEN Return(p, Iput(h, i)) /\ UNCHANGED file
                            ELSE Opened(p, i, h)
  /\ UNCHANGED cwd

CreateNoInode(p, s) ==
  /\ pc[p] = "walk" /\ Parent(p) /\ ~Found(fs, cur[p], s)
  /\ \A i \in Inums : fs.type[i] # "free"
  /\ Return(p, Iput(fs, cur[p]))
  /\ UNCHANGED <<cwd, file>>

Linkable(i) == fs.type[i] # "dir"

\* A bug: the new name is not counted.
CountedNot(f, i) == f

Counted(f, i) == [f EXCEPT !.nlink[i] = @ + 1]

\* sys_link(): the count first; then on to the second path, i its start, with
\* ip unlocked.
Link(p, i) ==
  LET ip == cur[p] IN
  /\ pc[p] = "walk" /\ Ilock(ip)
  /\ i \in {ROOTINO, cwd[p]}
  /\ \/ ~Linkable(ip) /\ Return(p, Iput(fs, ip))
     \/ /\ Linkable(ip) /\ fs.nlink[ip] < MaxLinks
        /\ fs' = Users(Counted(fs, ip), i, 1)
        /\ cur' = [cur EXCEPT ![p] = i] /\ old' = [old EXCEPT ![p] = ip]
        /\ pc' = [pc EXCEPT ![p] = "walkto"]
        /\ UNCHANGED name
  /\ UNCHANGED <<cwd, file>>

LinkTo(p, s) ==
  /\ pc[p] = "walkto" /\ Parent(p)
  /\ LET linked == Dirlink(fs, cur[p], s, old[p]) IN
     \/ \E f \in linked : Return(p, Iput(Iput(f, cur[p]), old[p]))
     \/ linked = {} /\ GotoBad(p, Iput(fs, cur[p]))
  /\ UNCHANGED <<cwd, file>>

LinkBad(p) ==
  /\ pc[p] = "bad" /\ Ilock(old[p])
  /\ Return(p, Iput([fs EXCEPT !.nlink[old[p]] = @ - 1], old[p]))
  /\ UNCHANGED <<cwd, file>>

\* A bug: "." and ".." may be unlinked.
UnlinkableAny(s) == TRUE

Unlinkable(s) == s \notin Dots

\* sys_unlink(): with the directory locked, to the inode of the entry.
UnlinkLookup(p, s) ==
  /\ pc[p] = "walk" /\ Parent(p)
  /\ \/ /\ ~(Unlinkable(s) /\ Found(fs, cur[p], s))
        /\ Return(p, Iput(fs, cur[p]))
     \/ /\ Unlinkable(s) /\ Found(fs, cur[p], s)
        /\ LET ip == Dirlookup(fs, cur[p], s) IN
             /\ fs' = Users(fs, ip, 1)
             /\ old' = [old EXCEPT ![p] = ip]
        /\ name' = [name EXCEPT ![p] = s]
        /\ pc' = [pc EXCEPT ![p] = "unlinking"]
        /\ UNCHANGED cur
  /\ UNCHANGED <<cwd, file>>

UnlinkBusy(f, i) == f.type[i] = "dir" /\ ~IsDirEmpty(f, i)

Unlink(p) ==
  LET dp == cur[p]
      ip == old[p]
      erased == [fs EXCEPT !.dir[dp][Slot(fs, dp, name[p])] = Unused,
                           !.nlink[dp] = IF fs.type[ip] = "dir" THEN @ - 1 ELSE @] IN
  /\ pc[p] = "unlinking" /\ panic = "no" /\ Unlocked(ip) /\ fs.type[ip] # "free"
  /\ panic' = IF fs.nlink[ip] < 1 THEN "unlink: nlink < 1" ELSE panic
  /\ IF UnlinkBusy(fs, ip)
       THEN Return(p, Iput(Iput(fs, ip), dp))
       ELSE Return(p, Iput([Iput(erased, dp) EXCEPT !.nlink[ip] = @ - 1], ip))
  /\ UNCHANGED <<cwd, file>>

-----------------------------------------------------------------------------
\* mkfs: the root directory, whose one link is its own.
Init ==
  /\ fs = [type |-> [i \in Inums |-> IF i = ROOTINO THEN "dir" ELSE "free"],
           nlink |-> [i \in Inums |-> IF i = ROOTINO THEN 1 ELSE 0],
           dir |-> [i \in Inums |-> IF i = ROOTINO
                      THEN <<Entry(".", i), Entry("..", i)>> ELSE <<>>],
           ref |-> [i \in Inums |-> IF i = ROOTINO THEN Cardinality(Procs) ELSE 0],
           lost |-> [i \in Inums |-> 0]]
  /\ cwd = [p \in Procs |-> ROOTINO] /\ file = 0
  /\ pc = [p \in Procs |-> "idle"] /\ cur = [p \in Procs |-> 0]
  /\ name = [p \in Procs |-> None] /\ old = [p \in Procs |-> 0]
  /\ panic = "no"

Next ==
  \E p \in Procs :
    \/ \E i \in {ROOTINO, cwd[p]} : Call(p, i) \/ Link(p, i)
    \/ IlockPanics(p) \/ WalkFails(p) \/ Open(p) \/ Close(p) \/ Chdir(p)
    \/ CreateExists(p) \/ LinkBad(p) \/ Unlink(p)
    \/ \E s \in PathNames :
         \/ Walk(p, s) \/ CreateFound(p, s) \/ CreateNoInode(p, s)
         \/ LinkTo(p, s) \/ UnlinkLookup(p, s)
         \/ \E t \in {"file", "dir"} : CreateNew(p, s, t)

Spec == Init /\ [][Next]_vars
-----------------------------------------------------------------------------
Dirs == {d \in Inums : fs.type[d] = "dir"}

\* The entries, but for "." and "..", that name an inode.
Names(i) == {x \in Dirs \X (3 .. MaxEntries) :
               x[2] <= Len(fs.dir[x[1]]) /\ fs.dir[x[1]][x[2]].inum = i}

SubDirs(d) == {k \in 3 .. Len(fs.dir[d]) : fs.dir[d][k].inum \in Dirs}

Linking(i) == {p \in Procs : pc[p] \in {"walkto", "bad"} /\ old[p] = i}

Holders(i) ==
  Cardinality({p \in Procs : cur[p] = i}) + Cardinality({p \in Procs : cwd[p] = i})
  + Cardinality({p \in Procs : old[p] = i}) + (IF file = i THEN 1 ELSE 0)

(* The directories are a tree: each has itself as "." and, as "..", the    *)
(* one directory that names it, and no name twice.  A link count is the    *)
(* number of names, a directory's also counts its subdirectories' "..";    *)
(* a link() under way is counted already; names that went with a removed   *)
(* directory, in which create() and link() still make entries, stay        *)
(* counted.                                                                *)
TreeExact ==
  /\ \A d \in Dirs :
       /\ fs.dir[d][1] = Entry(".", d) /\ fs.dir[d][2].name = ".."
       /\ \A s \in {fs.dir[d][k].name : k \in 1 .. Len(fs.dir[d])} \ {None} :
            Cardinality(Slots(fs, d, s)) = 1
       /\ Cardinality(Names(d)) <= (IF d = ROOTINO THEN 0 ELSE 1)
       /\ \A x \in Names(d) : fs.dir[d][2].inum = x[1]
  /\ \A i \in Inums \ {j \in Inums : fs.type[j] = "free"} :
       fs.nlink[i] = Cardinality(Names(i)) + Cardinality(Linking(i)) + fs.lost[i]
                     + (IF i \in Dirs THEN Cardinality(SubDirs(i)) ELSE 0)
                     + (IF i = ROOTINO THEN 1 ELSE 0)
  /\ \A i \in Inums : fs.ref[i] = Holders(i)

(* Whatever two processes do, a name leads to an allocated inode, and so   *)
(* do the current directory and an open file; the one exception is ".." of *)
(* a directory that was removed while in use, and only through it can      *)
(* ilock() panic.  sys_unlink() never panics.                              *)
NamesAllocated ==
  /\ \A d \in Dirs : \A k \in 1 .. Len(fs.dir[d]) :
       fs.dir[d][k].inum # 0 /\ (k # 2 \/ d = ROOTINO \/ Names(d) # {})
         => fs.type[fs.dir[d][k].inum] # "free"
  /\ \A p \in Procs : cwd[p] \in Dirs
  /\ file # 0 => fs.type[file] # "free"
  /\ panic \in {"no", "ilock: no type"}

(* Directory locks do not deadlock: no circle of calls that each hold a    *)
(* directory and wait for the next one's.                                  *)
NoLockCircle ==
  \A S \in SUBSET {p \in Procs : pc[p] = "unlinking"} :
    S # {} => \E p \in S : \A q \in S : old[p] # cur[q]

=============================================================================
