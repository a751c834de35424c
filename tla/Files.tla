-------------------------------- MODULE Files --------------------------------
(***************************************************************************)
(* The open-file table and the descriptors (kernel/file.c, the descriptor  *)
(* calls of kernel/sysfile.c, pipealloc and pipeclose of kernel/pipe.c),   *)
(* and what fork, exit and wait do to them.  A section under ftable.lock   *)
(* or a pipe's lock is one step; what only the calling process can see (its*)
(* ofile[], a struct file it has just allocated) is done in the step of    *)
(* the lock it follows.  A call that has more to do afterwards leaves it   *)
(* in todo[p], a sequence of work items, so that other processes may come  *)
(* in between.                                                             *)
(***************************************************************************)
EXTENDS Integers, Sequences, FiniteSets

CONSTANTS Procs,      \* process slots
          NOFILE,     \* descriptors of a process
          NFILE,      \* entries of ftable
          Pipes,      \* the pages that kalloc() may give to pipes
          PIPESIZE,   \* bytes a pipe holds
          Inodes,     \* what open() may find
          Devices,    \* those of type T_DEVICE
          None

Fds == 0 .. NOFILE - 1
Slots == 1 .. NFILE

ASSUME FilesConstants ==
  /\ NOFILE \in Nat \ {0} /\ NFILE \in Nat \ {0} /\ PIPESIZE \in Nat \ {0}
  /\ None \notin Pipes \union Inodes /\ Pipes \intersect Inodes = {}
  /\ Devices \subseteq Inodes

VARIABLES ofile,    \* [Procs -> [Fds -> Slots]], 0: closed
          ftable,   \* [Slots -> struct file]
          pipes,    \* [Pipes -> struct pipe]
          iref,     \* [Inodes -> references that open files have]
          state,    \* [Procs -> "unused", "user", "zombie"]
          todo,     \* [Procs -> what the system call still has to do]
          ret,      \* [Procs -> 0, or -1 after a system call that failed]
          fdarray   \* [Procs -> <<fd0, fd1>>], where pipe() puts them

fvars == <<ofile, ftable, pipes, iref, state, todo, ret, fdarray>>

Closed == [ref |-> 0, type |-> "none", obj |-> None, readable |-> 0, writable |-> 0]
NoPipe == [readopen |-> 0, writeopen |-> 0, data |-> 0]

Do(op, arg) == [op |-> op, arg |-> arg]
Work(p, op) == todo[p] # <<>> /\ Head(todo[p]).op = op
Arg(p) == Head(todo[p]).arg

\* In user space, where the next system call may start.
AtUser(p) == state[p] = "user" /\ todo[p] = <<>>

-----------------------------------------------------------------------------
(* file.c and sysfile.c: helpers                                           *)

Lowest(S) == CHOOSE x \in S : \A y \in S : x <= y

FreeSlots == {f \in Slots : ftable[f].ref = 0}
FreeFds(p) == {fd \in Fds : ofile[p][fd] = 0}

\* filealloc() takes the first free entry; only ref is set.
Allocated(ft, f) == [ft EXCEPT ![f].ref = 1]

\* argfd()
Open(p, fd) == fd \in Fds /\ ofile[p][fd] # 0

Forget(f) == [ftable EXCEPT ![f].ref = 0, ![f].type = "none"]

\* fileclose(f), the part under ftable.lock; the rest of it, and of the call,
\* is left in todo.
FileClose(p, f, rest) ==
  IF ftable[f].ref > 1
    THEN /\ ftable' = [ftable EXCEPT ![f].ref = @ - 1]
         /\ todo' = [todo EXCEPT ![p] = rest]
    ELSE /\ ftable' = Forget(f)
         /\ todo' = [todo EXCEPT ![p] = <<Do("release", ftable[f])>> \o rest]

FileCloseNext(p) ==
  /\ Work(p, "fileclose")
  /\ FileClose(p, Arg(p), Tail(todo[p]))
  /\ UNCHANGED <<ofile, pipes, iref, state, ret, fdarray>>

\* pipeclose(): the page goes back to kfree() once both ends are closed.
PipeClosed(pi, writable) ==
  LET q == IF writable = 1 THEN [pipes[pi] EXCEPT !.writeopen = 0]
                           ELSE [pipes[pi] EXCEPT !.readopen = 0]
  IN IF q.readopen = 0 /\ q.writeopen = 0 THEN NoPipe ELSE q

\* fileclose(f), after ftable.lock is released: with the copy ff of the entry.
Release(p) ==
  LET ff == Arg(p) IN
  /\ Work(p, "release")
  /\ \/ /\ ff.type = "pipe"
        /\ pipes' = [pipes EXCEPT ![ff.obj] = PipeClosed(ff.obj, ff.writable)]
        /\ UNCHANGED iref
     \/ /\ ff.type \in {"inode", "device"}
        /\ iref' = [iref EXCEPT ![ff.obj] = @ - 1]
        /\ UNCHANGED pipes
     \/ ff.type = "none" /\ UNCHANGED <<pipes, iref>>
  /\ todo' = [todo EXCEPT ![p] = Tail(@)]
  /\ UNCHANGED <<ofile, ftable, state, ret, fdarray>>

-----------------------------------------------------------------------------
(* dup, close, read and write                                              *)

Dup(p, fd) ==
  /\ AtUser(p)
  /\ \/ /\ Open(p, fd) /\ FreeFds(p) # {}
        /\ ofile' = [ofile EXCEPT ![p][Lowest(FreeFds(p))] = ofile[p][fd]]
        /\ ftable' = [ftable EXCEPT ![ofile[p][fd]].ref = @ + 1]
        /\ ret' = [ret EXCEPT ![p] = 0]
     \/ /\ ~Open(p, fd) \/ FreeFds(p) = {}
        /\ ret' = [ret EXCEPT ![p] = -1]
        /\ UNCHANGED <<ofile, ftable>>
  /\ UNCHANGED <<pipes, iref, state, todo, fdarray>>

Close(p, fd) ==
  /\ AtUser(p)
  /\ \/ /\ Open(p, fd)
        /\ ofile' = [ofile EXCEPT ![p][fd] = 0]
        /\ FileClose(p, ofile[p][fd], <<>>)
        /\ ret' = [ret EXCEPT ![p] = 0]
     \/ /\ ~Open(p, fd)
        /\ ret' = [ret EXCEPT ![p] = -1]
        /\ UNCHANGED <<ofile, ftable, todo>>
  /\ UNCHANGED <<pipes, iref, state, fdarray>>

\* fileread(): one byte of a pipe, which blocks while a writer may come, or
\* end of file (0 bytes; here -1 as for an error, the caller stops reading).
\* The console and the files are at their end.
Read(p, fd) ==
  /\ AtUser(p)
  /\ IF Open(p, fd) /\ ftable[ofile[p][fd]].readable = 1
          /\ ftable[ofile[p][fd]].type = "pipe"
       THEN LET pi == ftable[ofile[p][fd]].obj IN
            /\ pipes[pi].data > 0 \/ pipes[pi].writeopen = 0
            /\ pipes' = [pipes EXCEPT ![pi].data = IF @ > 0 THEN @ - 1 ELSE 0]
            /\ ret' = [ret EXCEPT ![p] = IF pipes[pi].data > 0 THEN 0 ELSE -1]
       ELSE /\ ret' = [ret EXCEPT ![p] = -1]
            /\ UNCHANGED pipes
  /\ UNCHANGED <<ofile, ftable, iref, state, todo, fdarray>>

\* filewrite(): one byte into a pipe, which blocks while the pipe is full and
\* a reader may come; -1 once no reader is left.
Write(p, fd) ==
  /\ AtUser(p)
  /\ IF Open(p, fd) /\ ftable[ofile[p][fd]].writable = 1
       THEN \/ /\ ftable[ofile[p][fd]].type = "pipe"
               /\ LET pi == ftable[ofile[p][fd]].obj IN
                    /\ pipes[pi].data < PIPESIZE \/ pipes[pi].readopen = 0
                    /\ pipes' = [pipes EXCEPT ![pi].data =
                                   IF pipes[pi].readopen = 1 THEN @ + 1 ELSE @]
                    /\ ret' = [ret EXCEPT ![p] = IF pipes[pi].readopen = 1 THEN 0 ELSE -1]
            \/ /\ ftable[ofile[p][fd]].type \in {"inode", "device"}
               /\ ret' = [ret EXCEPT ![p] = 0]
               /\ UNCHANGED pipes
       ELSE /\ ret' = [ret EXCEPT ![p] = -1]
            /\ UNCHANGED pipes
  /\ UNCHANGED <<ofile, ftable, iref, state, todo, fdarray>>

-----------------------------------------------------------------------------
(* open                                                                    *)

Modes == {"rdonly", "wronly", "rdwr"}

\* sys_open(): the path leads to i (or to nothing); i is referenced, locked.
OpenLookup(p, i, omode) ==
  /\ AtUser(p)
  /\ \/ /\ iref' = [iref EXCEPT ![i] = @ + 1]
        /\ todo' = [todo EXCEPT ![p] = <<Do("open", <<i, omode>>)>>]
        /\ UNCHANGED ret
     \/ /\ ret' = [ret EXCEPT ![p] = -1]
        /\ UNCHANGED <<iref, todo>>
  /\ UNCHANGED <<ofile, ftable, pipes, state, fdarray>>

\* A bug: the file is not closed when there is no descriptor for it.
OpenLeaks(f, i) == <<Do("iput", i)>>

OpenUndo(f, i) == <<Do("fileclose", f), Do("iput", i)>>

\* sys_open(): filealloc(), fdalloc() and the fields; or the way back.
OpenFile(p) ==
  /\ Work(p, "open")
  /\ LET i == Arg(p)[1] omode == Arg(p)[2] f == Lowest(FreeSlots) IN
     \/ /\ FreeSlots = {}
        /\ todo' = [todo EXCEPT ![p] = <<Do("iput", i)>>]
        /\ ret' = [ret EXCEPT ![p] = -1]
        /\ UNCHANGED <<ofile, ftable>>
     \/ /\ FreeSlots # {} /\ FreeFds(p) = {}
        /\ ftable' = Allocated(ftable, f)
        /\ todo' = [todo EXCEPT ![p] = OpenUndo(f, i)]
        /\ ret' = [ret EXCEPT ![p] = -1]
        /\ UNCHANGED ofile
     \/ /\ FreeSlots # {} /\ FreeFds(p) # {}
        /\ ftable' = [ftable EXCEPT ![f] =
             [ref |-> 1, obj |-> i,
              type |-> IF i \in Devices THEN "device" ELSE "inode",
              readable |-> IF omode = "wronly" THEN 0 ELSE 1,
              writable |-> IF omode = "rdonly" THEN 0 ELSE 1]]
        /\ ofile' = [ofile EXCEPT ![p][Lowest(FreeFds(p))] = f]
        /\ todo' = [todo EXCEPT ![p] = <<>>]
        /\ ret' = [ret EXCEPT ![p] = 0]
  /\ UNCHANGED <<pipes, iref, state, fdarray>>

\* iunlockput(ip) of an open() that failed.
Iput(p) ==
  /\ Work(p, "iput")
  /\ iref' = [iref EXCEPT ![Arg(p)] = @ - 1]
  /\ todo' = [todo EXCEPT ![p] = Tail(@)]
  /\ UNCHANGED <<ofile, ftable, pipes, state, ret, fdarray>>

-----------------------------------------------------------------------------
(* pipe: each filealloc() is a step of its own.                            *)

PipeCall(p) ==
  /\ AtUser(p)
  /\ \/ /\ FreeSlots # {}
        /\ ftable' = Allocated(ftable, Lowest(FreeSlots))
        /\ todo' = [todo EXCEPT ![p] = <<Do("pipe", Lowest(FreeSlots))>>]
        /\ UNCHANGED ret
     \/ /\ FreeSlots = {}
        /\ ret' = [ret EXCEPT ![p] = -1]
        /\ UNCHANGED <<ftable, todo>>
  /\ UNCHANGED <<ofile, pipes, iref, state, fdarray>>

PipeSecond(p) ==
  /\ Work(p, "pipe")
  /\ \/ /\ FreeSlots # {}
        /\ ftable' = Allocated(ftable, Lowest(FreeSlots))
        /\ todo' = [todo EXCEPT ![p] = <<Do("pipe2", <<Arg(p), Lowest(FreeSlots)>>)>>]
        /\ UNCHANGED ret
     \/ /\ FreeSlots = {}
        /\ FileClose(p, Arg(p), <<>>)
        /\ ret' = [ret EXCEPT ![p] = -1]
  /\ UNCHANGED <<ofile, pipes, iref, state, fdarray>>

FreePages == {pi \in Pipes : pipes[pi] = NoPipe}
CloseBoth(rf, wf) == <<Do("fileclose", rf), Do("fileclose", wf)>>

\* kalloc() fails: others may have all the memory.
PipeNoPage(p) ==
  /\ Work(p, "pipe2")
  /\ todo' = [todo EXCEPT ![p] = CloseBoth(Arg(p)[1], Arg(p)[2])]
  /\ ret' = [ret EXCEPT ![p] = -1]
  /\ UNCHANGED <<ofile, ftable, pipes, iref, state, fdarray>>

PipeEnd(pi, writable) ==
  [ref |-> 1, type |-> "pipe", obj |-> pi, readable |-> 1 - writable,
   writable |-> writable]

\* pipealloc() has everything it needs; then the descriptors and copyout(),
\* each of which may fail: then ofile[] is as before.
PipeFds(p) ==
  /\ Work(p, "pipe2") /\ FreePages # {}
  /\ LET rf == Arg(p)[1] wf == Arg(p)[2]
         pi == CHOOSE x \in FreePages : TRUE
         fd0 == Lowest(FreeFds(p))
         fd1 == Lowest(FreeFds(p) \ {fd0})
     IN
     /\ pipes' = [pipes EXCEPT ![pi] = [readopen |-> 1, writeopen |-> 1, data |-> 0]]
     /\ ftable' = [ftable EXCEPT ![rf] = PipeEnd(pi, 0), ![wf] = PipeEnd(pi, 1)]
     /\ \/ /\ Cardinality(FreeFds(p)) >= 2
           /\ ofile' = [ofile EXCEPT ![p][fd0] = rf, ![p][fd1] = wf]
           /\ fdarray' = [fdarray EXCEPT ![p] = <<fd0, fd1>>]
           /\ todo' = [todo EXCEPT ![p] = <<>>]
           /\ ret' = [ret EXCEPT ![p] = 0]
        \/ /\ todo' = [todo EXCEPT ![p] = CloseBoth(rf, wf)]
           /\ ret' = [ret EXCEPT ![p] = -1]
           /\ UNCHANGED <<ofile, fdarray>>
  /\ UNCHANGED <<iref, state>>

-----------------------------------------------------------------------------
(* fork, exit, wait                                                        *)

Uses(p, f) == Cardinality({fd \in Fds : ofile[p][fd] = f})

\* fork(): a filedup() for each open descriptor; or allocproc() or uvmcopy()
\* fail, before any.
Fork(p, q) ==
  /\ AtUser(p) /\ state[q] = "unused"
  /\ ofile' = [ofile EXCEPT ![q] = ofile[p]]
  /\ ftable' = [f \in Slots |-> [ftable[f] EXCEPT !.ref = @ + Uses(p, f)]]
  /\ state' = [state EXCEPT ![q] = "user"]
  /\ fdarray' = [fdarray EXCEPT ![q] = fdarray[p]]
  /\ ret' = [ret EXCEPT ![p] = 0, ![q] = 0]
  /\ UNCHANGED <<pipes, iref, todo>>

ForkFails(p) ==
  /\ AtUser(p)
  /\ ret' = [ret EXCEPT ![p] = -1]
  /\ UNCHANGED <<ofile, ftable, pipes, iref, state, todo, fdarray>>

\* exit(): the descriptors are closed one by one; each is cleared when its
\* fileclose() has returned (fd: the one just closed, NOFILE at first).
Exit(p) ==
  /\ AtUser(p)
  /\ todo' = [todo EXCEPT ![p] = <<Do("exit", NOFILE)>>]
  /\ UNCHANGED <<ofile, ftable, pipes, iref, state, ret, fdarray>>

ExitClose(p) ==
  LET left == [fd \in Fds |-> IF fd = Arg(p) THEN 0 ELSE ofile[p][fd]]
      open == {fd \in Fds : left[fd] # 0}
  IN
  /\ Work(p, "exit")
  /\ ofile' = [ofile EXCEPT ![p] = left]
  /\ \/ /\ open # {}
        /\ FileClose(p, left[Lowest(open)], <<Do("exit", Lowest(open))>>)
        /\ UNCHANGED state
     \/ /\ open = {}
        /\ todo' = [todo EXCEPT ![p] = <<>>]
        /\ state' = [state EXCEPT ![p] = "zombie"]
        /\ UNCHANGED ftable
  /\ UNCHANGED <<pipes, iref, ret, fdarray>>

\* wait() of the parent frees the slot q.
Reap(q) ==
  /\ state[q] = "zombie"
  /\ state' = [state EXCEPT ![q] = "unused"]
  /\ UNCHANGED <<ofile, ftable, pipes, iref, todo, ret, fdarray>>

-----------------------------------------------------------------------------
\* What a call that has begun still does.
Proceed(p) ==
  \/ FileCloseNext(p) \/ Release(p) \/ OpenFile(p) \/ Iput(p)
  \/ PipeSecond(p) \/ PipeNoPage(p) \/ PipeFds(p) \/ ExitClose(p)

\* What a program may call.
Call(p) ==
  \/ \E fd \in Fds : Dup(p, fd) \/ Close(p, fd) \/ Read(p, fd) \/ Write(p, fd)
  \/ \E i \in Inodes, omode \in Modes : OpenLookup(p, i, omode)
  \/ PipeCall(p) \/ ForkFails(p)
  \/ \E q \in Procs : Fork(p, q)

Next == \E p \in Procs : Proceed(p) \/ Call(p) \/ Exit(p) \/ Reap(p)
-----------------------------------------------------------------------------
FilesTypeOK ==
  /\ ofile \in [Procs -> [Fds -> Slots \union {0}]]
  /\ ftable \in [Slots -> [ref : Nat, type : {"none", "pipe", "inode", "device"},
                           obj : Pipes \union Inodes \union {None},
                           readable : {0, 1}, writable : {0, 1}]]
  /\ pipes \in [Pipes -> [readopen : {0, 1}, writeopen : {0, 1}, data : 0 .. PIPESIZE]]
  /\ iref \in [Inodes -> Nat]
  /\ state \in [Procs -> {"unused", "user", "zombie"}]
  /\ ret \in [Procs -> {0, -1}]

\* Files in the hands of a call: allocated, or to be closed.  The descriptor
\* that exit() is closing names a file that is given up.
InCall(p, f) ==
  \E j \in DOMAIN todo[p] :
     \/ todo[p][j].op \in {"fileclose", "pipe"} /\ todo[p][j].arg = f
     \/ todo[p][j].op = "pipe2" /\ f \in {todo[p][j].arg[1], todo[p][j].arg[2]}

Closing(p, fd) == \E j \in DOMAIN todo[p] : todo[p][j] = Do("exit", fd)

\* The ends of pipe pi that are open, and those that a call still closes.
EndsOpen(pi, writable) ==
  {f \in Slots : ftable[f].ref > 0 /\ ftable[f].type = "pipe"
                 /\ ftable[f].obj = pi /\ ftable[f].writable = writable}
EndsClosing(pi, writable) ==
  {p \in Procs : \E j \in DOMAIN todo[p] :
     /\ todo[p][j].op = "release" /\ todo[p][j].arg.type = "pipe"
     /\ todo[p][j].arg.obj = pi /\ todo[p][j].arg.writable = writable}

FilesOn(i) ==
  {f \in Slots : ftable[f].ref > 0 /\ ftable[f].type \in {"inode", "device"}
                 /\ ftable[f].obj = i}
CallsOn(i) ==
  {p \in Procs : \E j \in DOMAIN todo[p] :
     \/ todo[p][j].op = "open" /\ todo[p][j].arg[1] = i
     \/ todo[p][j].op = "iput" /\ todo[p][j].arg = i
     \/ /\ todo[p][j].op = "release" /\ todo[p][j].arg.type \in {"inode", "device"}
        /\ todo[p][j].arg.obj = i}

(* The reference counts are exact, whichever calls are under way and       *)
(* wherever open() or pipe() failed: f->ref counts the descriptors and the *)
(* calls that have f; each end of a pipe is open exactly as long as one    *)
(* file stands for it or a call is closing it; an inode has one reference  *)
(* per open file; and a process in user space has no descriptor of a file  *)
(* without a type, at which fileread() and filewrite() panic.              *)
FilesExact ==
  /\ FilesTypeOK
  /\ \A f \in Slots :
       /\ ftable[f].ref =
            Cardinality({x \in Procs \X Fds : ofile[x[1]][x[2]] = f /\ ~Closing(x[1], x[2])})
            + Cardinality({p \in Procs : InCall(p, f)})
       /\ ftable[f].ref = 0 => ftable[f].type = "none"
  /\ \A pi \in Pipes :
       /\ pipes[pi].readopen =
            Cardinality(EndsOpen(pi, 0)) + Cardinality(EndsClosing(pi, 0))
       /\ pipes[pi].writeopen =
            Cardinality(EndsOpen(pi, 1)) + Cardinality(EndsClosing(pi, 1))
  /\ \A i \in Inodes : iref[i] = Cardinality(FilesOn(i)) + Cardinality(CallsOn(i))
  /\ \A p \in Procs, fd \in Fds :
       AtUser(p) /\ ofile[p][fd] # 0 => ftable[ofile[p][fd]].type # "none"

=============================================================================
