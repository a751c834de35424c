-------------------------------- MODULE Shell --------------------------------
(***************************************************************************)
(* The shell (user/sh.c: main, runcmd, fork1) as a client of the open      *)
(* files: a process that runs shell code makes its system calls in the     *)
(* order of runcmd(), and a command it executes is cat, which reads its    *)
(* standard input to the end, or echo, which only writes.  The calls are   *)
(* those of Files, so the processes of a pipeline interleave inside them.  *)
(* Instead of the shell, process 1 may be any program, that makes up to    *)
(* MaxCalls arbitrary calls.                                               *)
(***************************************************************************)
EXTENDS Files, ShellParser

CONSTANTS Lines,      \* what the user may type, as tokens
          Runnable,   \* bound: the lines that are also executed
          MaxCalls,   \* bound: calls of a program run without the shell
          Console, Data   \* the inodes of the console and of the files named

ASSUME ShellConstants ==
  /\ {0, 1} \subseteq Procs /\ Procs \subseteq Nat /\ NOFILE >= 3
  /\ Runnable \subseteq Lines /\ Lines \subseteq Seq(Tokens)
  /\ Console \in Devices /\ Data \in Inodes \ Devices

InitProc == 0   \* init: waits for the shell and for orphans
Sh == 1         \* the shell, or the program run in its place

VARIABLES code,     \* [Procs -> the system calls that its program still makes]
          parent,   \* [Procs -> Procs]
          bg,       \* [Procs -> BOOLEAN]: belongs to a command before a &
          line,     \* buf[]
          calls,    \* calls the program may still make; -1 with the shell
          failed    \* some fork() of the shell has failed

svars == <<code, parent, bg, line, calls, failed>>
vars == <<fvars, svars>>

-----------------------------------------------------------------------------
(* runcmd(cmd) as the sequence of its system calls.  "closep" and "dupp"   *)
(* act on p[0] or p[1]; a "fork" has the code of the child; "check" exits  *)
(* if the call before it failed.  in and out say where standard input and  *)
(* output should be when the command is executed.                          *)

ExitCode == <<Do("exit", 0)>>

\* A bug: the parent keeps the write end of the pipe.
PipeScriptKeeps(left, right) ==
  <<Do("pipe", 0), Do("check", 0), Do("fork", left), Do("fork", right),
    Do("closep", 1), Do("wait", 0), Do("wait", 0)>> \o ExitCode

PipeScript(left, right) ==
  <<Do("pipe", 0), Do("check", 0), Do("fork", left), Do("fork", right),
    Do("closep", 1), Do("closep", 2), Do("wait", 0), Do("wait", 0)>> \o ExitCode

\* A bug: the descriptor is duplicated before there is room in its place.
PipeChildLate(fd, end) ==
  <<Do("dupp", end), Do("close", fd), Do("closep", 1), Do("closep", 2)>>

PipeChild(fd, end) ==
  <<Do("close", fd), Do("dupp", end), Do("closep", 1), Do("closep", 2)>>

\* A bug: the right command does not wait for the left one.
ListScriptAtOnce(left, right) == <<Do("fork", left)>> \o right

ListScript(left, right) == <<Do("fork", left), Do("wait", 0)>> \o right

RedirScript(tok) ==
  <<Do("close", IF tok = "<" THEN 0 ELSE 1),
    Do("open", IF tok = "<" THEN "rdonly" ELSE "wronly"), Do("check", 0)>>

RECURSIVE RunCmd(_, _, _)
RunCmd(cmd, in, out) ==
  CASE cmd.type = "exec" ->
         IF cmd.argc = 0 THEN ExitCode ELSE <<Do("exec", <<in, out>>)>>
    [] cmd.type = "redir" ->
         RedirScript(cmd.tok) \o (IF cmd.tok = "<" THEN RunCmd(cmd.cmd, "inode", out)
                                                   ELSE RunCmd(cmd.cmd, in, "inode"))
    [] cmd.type = "list" ->
         ListScript(RunCmd(cmd.left, in, out), RunCmd(cmd.right, in, out))
    [] cmd.type = "pipe" ->
         PipeScript(PipeChild(1, 2) \o RunCmd(cmd.left, in, "pipe"),
                    PipeChild(0, 1) \o RunCmd(cmd.right, "pipe", out))
    [] cmd.type = "back" -> <<Do("forkbg", RunCmd(cmd.cmd, in, out))>> \o ExitCode

\* The child of the shell: runcmd(parsecmd(buf)), or a panic().
ParsedCode ==
  IF ParseCmd(line).ok THEN RunCmd(ParseCmd(line).cmd, "device", "device")
                       ELSE ExitCode

\* main(): three descriptors are open, so the first open() gives fd 3.
MainCode == <<Do("opencons", 0), Do("closecons", 3), Do("getcmd", 0)>>

\* The programs: cat copies its input to its output until the end or an error;
\* echo writes, more than a pipe holds, and does not look at errors.
CatCode == <<Do("read", 0)>>
EchoCode == [k \in 1 .. PIPESIZE + 1 |-> Do("write", 1)] \o ExitCode

-----------------------------------------------------------------------------
At1(p, op) == state[p] = "user" /\ todo[p] = <<>> /\ code[p] # <<>> /\ code[p][1].op = op
CodeArg(p) == code[p][1].arg
Goes(p, c) == code' = [code EXCEPT ![p] = c]
GoesOn(p) == Goes(p, Tail(code[p]))

ShClose(p) ==
  /\ \/ At1(p, "close") /\ Close(p, CodeArg(p))
     \/ At1(p, "closep") /\ Close(p, fdarray[p][CodeArg(p)])
     \/ At1(p, "closecons") /\ IF ret[p] = 0 THEN Close(p, CodeArg(p)) ELSE UNCHANGED fvars
  /\ GoesOn(p)
  /\ UNCHANGED <<parent, bg, line, calls, failed>>

ShDup(p) ==
  /\ At1(p, "dupp") /\ Dup(p, fdarray[p][CodeArg(p)])
  /\ GoesOn(p)
  /\ UNCHANGED <<parent, bg, line, calls, failed>>

ShOpen(p) ==
  /\ \/ At1(p, "open") /\ OpenLookup(p, Data, CodeArg(p))
     \/ At1(p, "opencons") /\ OpenLookup(p, Console, "rdwr")
  /\ GoesOn(p)
  /\ UNCHANGED <<parent, bg, line, calls, failed>>

ShPipe(p) ==
  /\ At1(p, "pipe") /\ PipeCall(p)
  /\ GoesOn(p)
  /\ UNCHANGED <<parent, bg, line, calls, failed>>

ShCheck(p) ==
  /\ At1(p, "check")
  /\ Goes(p, IF ret[p] = 0 THEN Tail(code[p]) ELSE ExitCode)
  /\ UNCHANGED <<fvars, parent, bg, line, calls, failed>>

\* fork1(); panic() exits.
ShFork(p) ==
  /\ At1(p, "fork") \/ At1(p, "forkbg")
  /\ \/ \E q \in Procs :
          /\ Fork(p, q) /\ \A r \in Procs : state[r] = "unused" => q <= r
          /\ code' = [code EXCEPT ![p] = Tail(@), ![q] = CodeArg(p)]
          /\ parent' = [parent EXCEPT ![q] = p]
          /\ bg' = [bg EXCEPT ![q] = bg[p] \/ At1(p, "forkbg")]
          /\ UNCHANGED failed
     \/ /\ ForkFails(p)
        /\ Goes(p, ExitCode)
        /\ failed' = TRUE
        /\ UNCHANGED <<parent, bg>>
  /\ UNCHANGED <<line, calls>>

Children(p) == {q \in Procs \ {InitProc} : parent[q] = p /\ state[q] # "unused"}

ShWait(p) ==
  /\ At1(p, "wait")
  /\ \/ \E q \in Children(p) : Reap(q)
     \/ Children(p) = {} /\ UNCHANGED fvars
  /\ GoesOn(p)
  /\ UNCHANGED <<parent, bg, line, calls, failed>>

\* main(): the shell reads a line, and the end of file next.  A cd is done by
\* the shell itself, without any descriptor; so is, here, a line that is only
\* parsed.
ShGetCmd ==
  /\ At1(Sh, "getcmd")
  /\ \/ /\ CodeArg(Sh) = 0
        /\ \E l \in Lines :
             /\ line' = l
             /\ Goes(Sh, IF l \in Runnable
                           THEN <<Do("fork", <<Do("parse", 0)>>), Do("wait", 0), Do("getcmd", 1)>>
                           ELSE <<Do("getcmd", 1)>>)
     \/ /\ CodeArg(Sh) = 1
        /\ Goes(Sh, ExitCode)
        /\ line' = <<>>
  /\ UNCHANGED <<fvars, parent, bg, calls, failed>>

ShParse(p) ==
  /\ At1(p, "parse")
  /\ Goes(p, ParsedCode)
  /\ UNCHANGED <<fvars, parent, bg, line, calls, failed>>

\* exec() of a program; or it fails, and the child of the shell exits.
ShExec(p) ==
  /\ At1(p, "exec")
  /\ \E c \in {CatCode, EchoCode, ExitCode} : Goes(p, c)
  /\ UNCHANGED <<fvars, parent, bg, line, calls, failed>>

CatRead(p) ==
  /\ At1(p, "read") /\ Read(p, CodeArg(p))
  /\ Goes(p, IF ret'[p] = 0 THEN <<Do("copy", 1)>> \o code[p] ELSE ExitCode)
  /\ UNCHANGED <<parent, bg, line, calls, failed>>

CatWrite(p) ==
  /\ At1(p, "copy") /\ Write(p, CodeArg(p))
  /\ Goes(p, IF ret'[p] = 0 THEN Tail(code[p]) ELSE ExitCode)
  /\ UNCHANGED <<parent, bg, line, calls, failed>>

EchoWrite(p) ==
  /\ At1(p, "write") /\ Write(p, CodeArg(p))
  /\ GoesOn(p)
  /\ UNCHANGED <<parent, bg, line, calls, failed>>

ShExit(p) ==
  /\ At1(p, "exit") /\ Exit(p)
  /\ GoesOn(p)
  /\ UNCHANGED <<parent, bg, line, calls, failed>>

\* Inside a system call; the last step of exit() gives the children to init.
InKernel(p) ==
  /\ Proceed(p)
  /\ parent' = IF state'[p] = "zombie"
                 THEN [q \in Procs |-> IF parent[q] = p THEN InitProc ELSE parent[q]]
                 ELSE parent
  /\ UNCHANGED <<code, bg, line, calls, failed>>

InitReaps ==
  /\ \E q \in Children(InitProc) : Reap(q)
  /\ UNCHANGED svars

\* A program without the shell: any call, and exit() at any time.
AnyCall(p) ==
  /\ p # InitProc /\ code[p] = <<>> /\ calls > 0
  /\ \/ Call(p) \/ Exit(p)
     \/ \E q \in Children(p) : AtUser(p) /\ Reap(q)
  /\ calls' = calls - 1
  /\ parent' = [q \in Procs |-> IF state[q] = "unused" /\ state'[q] = "user"
                                  THEN p ELSE parent[q]]
  /\ UNCHANGED <<code, bg, line, failed>>

-----------------------------------------------------------------------------
\* init has opened the console as 0, 1 and 2; process 1 has them from it.
Init ==
  /\ ofile = [p \in Procs |-> [fd \in Fds |-> IF p <= 1 /\ fd <= 2 THEN 1 ELSE 0]]
  /\ ftable = [f \in Slots |->
       IF f = 1 THEN [ref |-> 6, type |-> "device", obj |-> Console,
                      readable |-> 1, writable |-> 1]
                ELSE Closed]
  /\ pipes = [pi \in Pipes |-> NoPipe]
  /\ iref = [i \in Inodes |-> IF i = Console THEN 1 ELSE 0]
  /\ state = [p \in Procs |-> IF p <= 1 THEN "user" ELSE "unused"]
  /\ todo = [p \in Procs |-> <<>>] /\ ret = [p \in Procs |-> 0]
  /\ fdarray = [p \in Procs |-> <<0, 0>>]
  /\ parent = [p \in Procs |-> InitProc] /\ bg = [p \in Procs |-> FALSE]
  /\ failed = FALSE /\ line = <<>>
  /\ \/ /\ calls = -1
        /\ code = [p \in Procs |-> IF p = Sh THEN MainCode ELSE <<>>]
     \/ /\ calls = MaxCalls
        /\ code = [p \in Procs |-> <<>>]

ShStep(p) ==
  \/ ShClose(p) \/ ShDup(p) \/ ShOpen(p) \/ ShPipe(p) \/ ShCheck(p) \/ ShFork(p)
  \/ ShWait(p) \/ ShParse(p) \/ ShExec(p) \/ ShExit(p)
  \/ CatRead(p) \/ CatWrite(p) \/ EchoWrite(p)

SNext ==
  \/ ShGetCmd \/ InitReaps
  \/ \E p \in Procs : ShStep(p) \/ InKernel(p) \/ AnyCall(p)

SSpec == Init /\ [][SNext]_vars
-----------------------------------------------------------------------------
(* A command is executed with three descriptors and no more: standard      *)
(* input and output are the pipe, the file or the console that the line    *)
(* says, open in the right direction, and standard error is the console.   *)
ProgramsGetThree ==
  \A p \in Procs : At1(p, "exec") =>
    /\ {fd \in Fds : ofile[p][fd] # 0} = {0, 1, 2}
    /\ LET std == [fd \in 0 .. 2 |-> ftable[ofile[p][fd]]] IN
       /\ std[0].type = CodeArg(p)[1] /\ std[0].readable = 1
       /\ std[1].type = CodeArg(p)[2] /\ std[1].writable = 1
       /\ std[2].obj = Console

WaitsLeft(p) == Cardinality({k \in DOMAIN code[p] : code[p][k].op = "wait"})

(* No foreground process is left behind: whoever has children that are not *)
(* in the background still waits for as many, so the shell prompts, and a  *)
(* list goes on to its next command, only when the command has ended.      *)
(* (When fork1() fails half way in a pipeline, the left command is.)       *)
ForegroundWaited ==
  calls = -1 /\ ~failed /\ code[Sh] # <<>> =>
    \A p \in Procs \ {InitProc} :
      Cardinality({q \in Children(p) : ~bg[q]}) <= WaitsLeft(p)

\* The shell has exited, all processes have been waited for.
AllDone == \A p \in Procs \ {InitProc} : state[p] = "unused"

\* p sleeps in wait(), in piperead() or in pipewrite().
Blocked(p) ==
  \/ At1(p, "wait") /\ Children(p) # {} /\ \A q \in Children(p) : state[q] # "zombie"
  \/ /\ At1(p, "read") /\ ofile[p][0] # 0 /\ ftable[ofile[p][0]].type = "pipe"
     /\ LET pi == pipes[ftable[ofile[p][0]].obj] IN pi.data = 0 /\ pi.writeopen = 1
  \/ /\ At1(p, "copy") \/ At1(p, "write")
     /\ ofile[p][1] # 0 /\ ftable[ofile[p][1]].type = "pipe"
     /\ LET pi == pipes[ftable[ofile[p][1]].obj] IN pi.data = PIPESIZE /\ pi.readopen = 1

(* Whatever the command, and whichever fork(), open() or pipe() fails, the *)
(* processes are never all asleep: no one keeps an end of a pipe open that *)
(* another waits for.  As each step uses up some of the finite code of its *)
(* process, every command ends and the shell reads its next line.          *)
CommandsEnd ==
  calls = -1 /\ ~AllDone =>
    \E p \in Procs \ {InitProc} :
      \/ state[p] = "user" /\ ~Blocked(p)
      \/ state[p] = "zombie" /\ parent[p] = InitProc

(* parsecmd() finds the one tree that the grammar gives to the line, and   *)
(* panics exactly on the lines that have none.                             *)
ParsesLine ==
  At1(Sh, "fork") \/ At1(Sh, "getcmd") =>
    GrammarLine(line) = IF ParseCmd(line).ok THEN {ParseCmd(line).cmd} ELSE {}

=============================================================================
