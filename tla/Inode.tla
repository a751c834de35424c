-------------------------------- MODULE Inode --------------------------------
(***************************************************************************)
(* The inode table and the life of an inode (kernel/fs.c: ialloc, iget,    *)
(* ilock, iunlock, iput, iupdate) under the system calls that create, link *)
(* and unlink files (kernel/sysfile.c).  A section under itable.lock, or   *)
(* under the inode block's buffer, is one step; the sleep-lock ip->lock is *)
(* explicit.  The directories are reduced to the number of entries that    *)
(* name an inode; a lookup and the erasing of an entry are single steps,   *)
(* because both hold the directory's lock.                                 *)
(***************************************************************************)
EXTENDS Integers, FiniteSets

CONSTANTS Procs,      \* processes, each with one inode at a time
          Inums,      \* inode numbers
          NINODE,     \* entries of itable
          MaxLinks,   \* bound on the names of a file
          None

Entries == 1 .. NINODE

ASSUME InodeConstants ==
  /\ NINODE \in Nat \ {0} /\ MaxLinks \in Nat \ {0}
  /\ IsFiniteSet(Procs)
  /\ None \notin Procs \union Inums

VARIABLES dtype, dnlink,   \* on disk: 0 iff free; link count
          links,           \* directory entries that name the inode
          inum, ref, valid, nlink, lock,   \* itable: an entry's fields
          pc, cur,         \* a process: where it is, its entry (0: none)
          op,              \* what it still owes the inode it has
          num,             \* ialloc: the inode it has marked
          panic            \* "no", or the panic (by its message)

ondisk == <<dtype, dnlink, links>>
itable == <<inum, ref, valid, nlink, lock>>
procs == <<pc, cur, op, num>>
vars == <<dtype, dnlink, links, inum, ref, valid, nlink, lock, pc, cur, op, num,
          panic>>

PCs == {"idle", "ialloc", "ref", "locked", "trunc", "invalid", "unref"}
Ops == {"none", "create", "link", "unlink"}

-----------------------------------------------------------------------------
(* iget and ialloc                                                         *)

\* A bug: the search ends at the first empty entry.
FoundBeforeEmpty(i) ==
  {e \in Entries : ref[e] > 0 /\ inum[e] = i /\ \A f \in 1 .. e : ref[f] > 0}

Found(i) == {e \in Entries : ref[e] > 0 /\ inum[e] = i}
Empty == {e \in Entries : ref[e] = 0}

Iget(p, i) ==
  \/ /\ \E e \in Found(i) : /\ ref' = [ref EXCEPT ![e] = @ + 1]
                            /\ cur' = [cur EXCEPT ![p] = e]
     /\ pc' = [pc EXCEPT ![p] = "ref"]
     /\ UNCHANGED <<inum, valid, panic>>
  \/ /\ Found(i) = {}
     /\ \E e \in Empty :
          /\ \A f \in Empty : e <= f
          /\ inum' = [inum EXCEPT ![e] = i]
          /\ ref' = [ref EXCEPT ![e] = 1]
          /\ valid' = [valid EXCEPT ![e] = 0]
          /\ cur' = [cur EXCEPT ![p] = e]
     /\ pc' = [pc EXCEPT ![p] = "ref"]
     /\ UNCHANGED panic
  \/ /\ Found(i) = {} /\ Empty = {}
     /\ panic' = "iget_no_inodes"
     /\ UNCHANGED <<inum, ref, valid, cur, pc>>

\* namei() finds an entry for i.
Lookup(p, i) ==
  /\ panic = "no" /\ pc[p] = "idle" /\ links[i] > 0
  /\ Iget(p, i)
  /\ UNCHANGED <<ondisk, nlink, lock, op, num>>

\* idup(): a process is given the inode q has, by fork() or as its cwd.
Idup(p, q) ==
  /\ panic = "no" /\ pc[p] = "idle" /\ pc[q] = "ref" /\ op[q] = "none"
  /\ ref' = [ref EXCEPT ![cur[q]] = @ + 1]
  /\ cur' = [cur EXCEPT ![p] = cur[q]]
  /\ pc' = [pc EXCEPT ![p] = "ref"]
  /\ UNCHANGED <<ondisk, inum, valid, nlink, lock, op, num, panic>>

\* create(): ialloc() marks a free inode (any: others may free and allocate
\* while it scans), and gets it after brelse().
Ialloc(p, i) ==
  /\ panic = "no" /\ pc[p] = "idle" /\ dtype[i] = 0
  /\ dtype' = [dtype EXCEPT ![i] = 1]
  /\ dnlink' = [dnlink EXCEPT ![i] = 0]
  /\ num' = [num EXCEPT ![p] = i]
  /\ pc' = [pc EXCEPT ![p] = "ialloc"]
  /\ op' = [op EXCEPT ![p] = "create"]
  /\ UNCHANGED <<links, itable, cur, panic>>

IallocGet(p) ==
  /\ panic = "no" /\ pc[p] = "ialloc"
  /\ Iget(p, num[p])
  /\ num' = [num EXCEPT ![p] = None]
  /\ UNCHANGED <<ondisk, nlink, lock, op>>

-----------------------------------------------------------------------------
(* ilock and iunlock                                                       *)

ILock(p) ==
  LET e == cur[p] IN
  /\ panic = "no" /\ pc[p] = "ref" /\ lock[e] = None
  /\ lock' = [lock EXCEPT ![e] = p]
  /\ valid' = [valid EXCEPT ![e] = 1]
  /\ nlink' = IF valid[e] = 0 THEN [nlink EXCEPT ![e] = dnlink[inum[e]]] ELSE nlink
  /\ panic' = IF valid[e] = 0 /\ dtype[inum[e]] = 0 THEN "ilock_no_type" ELSE panic
  /\ pc' = [pc EXCEPT ![p] = "locked"]
  /\ UNCHANGED <<ondisk, inum, ref, cur, op, num>>

IUnlock(p) ==
  /\ panic = "no" /\ pc[p] = "locked" /\ op[p] = "none"
  /\ lock' = [lock EXCEPT ![cur[p]] = None]
  /\ pc' = [pc EXCEPT ![p] = "ref"]
  /\ UNCHANGED <<ondisk, inum, ref, valid, nlink, cur, op, num, panic>>

-----------------------------------------------------------------------------
(* What a system call does to the inode it has locked.                     *)

\* ip->nlink = k; iupdate(ip).
SetNlink(p, k) ==
  /\ nlink' = [nlink EXCEPT ![cur[p]] = k]
  /\ dnlink' = [dnlink EXCEPT ![inum[cur[p]]] = k]
  /\ UNCHANGED <<dtype, inum, ref, valid>>

\* create(): the first name; or dirlink() fails and nlink goes back to 0.
Create(p) ==
  /\ panic = "no" /\ pc[p] = "locked" /\ op[p] = "create"
  /\ \/ SetNlink(p, 1) /\ links' = [links EXCEPT ![inum[cur[p]]] = 1]
     \/ SetNlink(p, 0) /\ UNCHANGED links
  /\ op' = [op EXCEPT ![p] = "none"]
  /\ UNCHANGED <<lock, pc, cur, num, panic>>

\* sys_unlink(): the entry goes first, then the count.
UnlinkEntry(p) ==
  /\ panic = "no" /\ pc[p] = "locked" /\ op[p] = "none" /\ links[inum[cur[p]]] > 0
  /\ links' = [links EXCEPT ![inum[cur[p]]] = @ - 1]
  /\ op' = [op EXCEPT ![p] = "unlink"]
  /\ panic' = IF nlink[cur[p]] < 1 THEN "unlink_nlink" ELSE panic
  /\ UNCHANGED <<dtype, dnlink, itable, pc, cur, num>>

UnlinkCount(p) ==
  /\ panic = "no" /\ pc[p] = "locked" /\ op[p] = "unlink"
  /\ SetNlink(p, nlink[cur[p]] - 1)
  /\ op' = [op EXCEPT ![p] = "none"]
  /\ UNCHANGED <<links, lock, pc, cur, num, panic>>

\* sys_link(): the count goes first, without the lock on the way to the entry.
LinkCount(p) ==
  /\ panic = "no" /\ pc[p] = "locked" /\ op[p] = "none" /\ nlink[cur[p]] < MaxLinks
  /\ SetNlink(p, nlink[cur[p]] + 1)
  /\ lock' = [lock EXCEPT ![cur[p]] = None]
  /\ pc' = [pc EXCEPT ![p] = "ref"]
  /\ op' = [op EXCEPT ![p] = "link"]
  /\ UNCHANGED <<links, cur, num, panic>>

LinkEntry(p) ==
  /\ panic = "no" /\ pc[p] = "ref" /\ op[p] = "link"
  /\ links' = [links EXCEPT ![inum[cur[p]]] = @ + 1]
  /\ op' = [op EXCEPT ![p] = "none"]
  /\ UNCHANGED <<dtype, dnlink, itable, pc, cur, num, panic>>

LinkFails(p) ==
  /\ panic = "no" /\ pc[p] = "locked" /\ op[p] = "link"
  /\ SetNlink(p, nlink[cur[p]] - 1)
  /\ op' = [op EXCEPT ![p] = "none"]
  /\ UNCHANGED <<links, lock, pc, cur, num, panic>>

-----------------------------------------------------------------------------
(* iput                                                                    *)

\* Bugs: the inode is freed under its other users; the references are counted
\* after the decrement.
LastLink(e) == valid[e] = 1 /\ nlink[e] = 0
LastOfNone(e) == ref[e] = 0 /\ valid[e] = 1 /\ nlink[e] = 0

LastUse(e) == ref[e] = 1 /\ valid[e] = 1 /\ nlink[e] = 0

Unref(p) ==
  /\ ref' = [ref EXCEPT ![cur[p]] = @ - 1]
  /\ cur' = [cur EXCEPT ![p] = 0]
  /\ pc' = [pc EXCEPT ![p] = "idle"]
  /\ UNCHANGED <<ondisk, inum, valid, nlink, lock, op, num, panic>>

Iput(p) ==
  /\ panic = "no" /\ pc[p] = "ref" /\ op[p] = "none"
  /\ ~LastUse(cur[p])
  /\ Unref(p)

IputLast(p) ==
  LET e == cur[p] IN
  /\ panic = "no" /\ pc[p] = "ref" /\ op[p] = "none"
  /\ LastUse(e) /\ lock[e] = None
  /\ lock' = [lock EXCEPT ![e] = p]
  /\ pc' = [pc EXCEPT ![p] = "trunc"]
  /\ UNCHANGED <<ondisk, inum, ref, valid, nlink, cur, op, num, panic>>

\* itrunc(ip); ip->type = 0; iupdate(ip).
IputFree(p) ==
  /\ panic = "no" /\ pc[p] = "trunc"
  /\ dtype' = [dtype EXCEPT ![inum[cur[p]]] = 0]
  /\ pc' = [pc EXCEPT ![p] = "invalid"]
  /\ UNCHANGED <<dnlink, links, itable, cur, op, num, panic>>

IputInvalid(p) ==
  /\ panic = "no" /\ pc[p] = "invalid"
  /\ valid' = [valid EXCEPT ![cur[p]] = 0]
  /\ lock' = [lock EXCEPT ![cur[p]] = None]
  /\ pc' = [pc EXCEPT ![p] = "unref"]
  /\ UNCHANGED <<ondisk, inum, ref, nlink, cur, op, num, panic>>

IputUnref(p) ==
  /\ panic = "no" /\ pc[p] = "unref"
  /\ Unref(p)

-----------------------------------------------------------------------------
Init ==
  /\ dtype = [i \in Inums |-> 0] /\ dnlink = [i \in Inums |-> 0]
  /\ links = [i \in Inums |-> 0]
  /\ inum = [e \in Entries |-> None]
  /\ ref = [e \in Entries |-> 0] /\ valid = [e \in Entries |-> 0]
  /\ nlink = [e \in Entries |-> 0] /\ lock = [e \in Entries |-> None]
  /\ pc = [p \in Procs |-> "idle"] /\ cur = [p \in Procs |-> 0]
  /\ op = [p \in Procs |-> "none"] /\ num = [p \in Procs |-> None]
  /\ panic = "no"

Next ==
  \E p \in Procs :
    \/ \E i \in Inums : Lookup(p, i) \/ Ialloc(p, i)
    \/ \E q \in Procs : Idup(p, q)
    \/ IallocGet(p) \/ ILock(p) \/ IUnlock(p)
    \/ Create(p) \/ UnlinkEntry(p) \/ UnlinkCount(p)
    \/ LinkCount(p) \/ LinkEntry(p) \/ LinkFails(p)
    \/ Iput(p) \/ IputLast(p) \/ IputFree(p) \/ IputInvalid(p) \/ IputUnref(p)

Spec == Init /\ [][Next]_vars
-----------------------------------------------------------------------------
TypeOK ==
  /\ dtype \in [Inums -> {0, 1}] /\ dnlink \in [Inums -> Nat]
  /\ links \in [Inums -> Nat]
  /\ inum \in [Entries -> Inums \union {None}]
  /\ ref \in [Entries -> Nat] /\ valid \in [Entries -> {0, 1}]
  /\ nlink \in [Entries -> Nat]
  /\ lock \in [Entries -> Procs \union {None}]
  /\ pc \in [Procs -> PCs] /\ cur \in [Procs -> Entries \union {0}]
  /\ op \in [Procs -> Ops] /\ num \in [Procs -> Inums \union {None}]
  /\ panic \in {"no", "iget_no_inodes", "ilock_no_type", "unlink_nlink"}

Users(e) == {p \in Procs : cur[p] = e}

Pending(i, what) == {p \in Procs : op[p] = what /\ cur[p] # 0 /\ inum[cur[p]] = i}

\* A process has an entry, a lock and an unfinished operation where its code
\* says so; what it has locked has been read from the disk.
Placed ==
  \A p \in Procs :
    /\ (cur[p] = 0) <=> pc[p] \in {"idle", "ialloc"}
    /\ cur[p] # 0 => inum[cur[p]] \in Inums
    /\ num[p] # None => pc[p] = "ialloc"
    /\ pc[p] = "ialloc" => op[p] = "create" /\ (panic = "no" => num[p] # None)
    /\ \A e \in Entries :
         (lock[e] = p) <=> (cur[p] = e /\ pc[p] \in {"locked", "trunc", "invalid"})
    /\ pc[p] \in {"locked", "trunc", "invalid"} => valid[cur[p]] = 1
    /\ op[p] # "none" => pc[p] \in {"ialloc", "ref", "locked"}
    /\ op[p] \in {"link", "unlink"} => pc[p] # "ialloc"
    /\ op[p] = "unlink" => pc[p] = "locked"

(* ref counts exactly the processes that have the entry, and an inode in   *)
(* use has one entry only, so all its users meet at the same ip->lock.     *)
(* The link count on disk is the number of names, but for the system calls *)
(* that are between changing the one and changing the other; and a valid   *)
(* entry of the table has the count of the disk, whoever reads it.         *)
EntriesExact ==
  /\ TypeOK
  /\ \A e \in Entries : ref[e] = Cardinality(Users(e))
  /\ \A e, f \in Entries : ref[e] > 0 /\ ref[f] > 0 /\ inum[e] = inum[f] => e = f
  /\ \A i \in Inums :
       dnlink[i] = links[i] + Cardinality(Pending(i, "link"))
                            + Cardinality(Pending(i, "unlink"))
  /\ \A e \in Entries :
       ref[e] > 0 /\ valid[e] = 1 => nlink[e] = dnlink[inum[e]]
  /\ Placed

\* The code of iput() after the inode is free on disk.
Gone == {"invalid", "unref"}

\* An inode without names is on its way in, with one process that creates it,
\* or on its way out, with one process that frees it; the two may overlap,
\* but only once the old inode is free on disk.
OneLife ==
  /\ \A i \in Inums : dtype[i] = 0 => dnlink[i] = 0
  /\ \A p \in Procs :
       cur[p] # 0
         => /\ pc[p] \notin Gone => dtype[inum[cur[p]]] = 1
            /\ pc[p] \in {"trunc", "invalid"} \/ op[p] = "create"
                 => dnlink[inum[cur[p]]] = 0
            /\ valid[cur[p]] = 0 /\ pc[p] = "ref" /\ op[p] # "create"
                 => dnlink[inum[cur[p]]] > 0
            /\ \A q \in Users(cur[p]) \ {p} :
                 /\ pc[p] # "trunc"
                 /\ pc[p] = "invalid" => pc[q] = "ref" /\ op[q] = "create"
                 /\ op[p] = "create" => pc[q] \in Gone
  /\ \A p \in Procs :
       num[p] # None
         => /\ dtype[num[p]] = 1 /\ dnlink[num[p]] = 0
            /\ \A q \in Procs \ {p} :
                 /\ num[q] # num[p]
                 /\ cur[q] # 0 /\ inum[cur[q]] = num[p] => pc[q] \in Gone

(* An unlinked file lives until its last user puts it: whoever has an      *)
(* inode, and whoever just got it from ialloc, has an allocated one, even  *)
(* if an iput() of its former life is still on its way; ilock() and        *)
(* sys_unlink() never panic.                                               *)
InUseIsAllocated ==
  /\ OneLife
  /\ \A i \in Inums : links[i] > 0 => dtype[i] = 1
  /\ panic \in {"no", "iget_no_inodes"}

Abandoned(i) ==
  /\ panic = "no" /\ dtype[i] = 1 /\ dnlink[i] = 0
  /\ \A p \in Procs : num[p] # i /\ (cur[p] # 0 => inum[cur[p]] # i)

(* iput(): "If that was the last reference and the inode has no links to   *)
(* it, free the inode (and its content) on disk".  No step leaves an inode *)
(* allocated without names and users but one: the decrement at the end of  *)
(* an iput() that has freed the inode, which others have since allocated,  *)
(* failed to name and put while its reference was still counted.           *)
NoneLost ==
  [][\A i \in Inums :
       Abandoned(i)' => \/ Abandoned(i)
                        \/ \E p \in Procs : pc[p] = "unref" /\ inum[cur[p]] = i]_vars

(* iput(): "ip->ref == 1 means no other process can have ip locked, so     *)
(* this acquiresleep() won't block (or deadlock)", with itable.lock held.  *)
IputWontBlock ==
  \A p \in Procs : pc[p] = "ref" /\ LastUse(cur[p]) => lock[cur[p]] = None

=============================================================================
