----------------------------- MODULE ShellParser -----------------------------
(***************************************************************************)
(* The shell's parser (user/sh.c, parsecmd) on lines of tokens, as         *)
(* gettoken() returns them: "a" a word, "+" for >>, and the symbols.  A    *)
(* panic() is the result Fail.  GrammarLine is the reference: every tree   *)
(* that the grammar gives to the line, by trying all ways to split it.     *)
(***************************************************************************)
EXTENDS Integers, Sequences, FiniteSets, SequencesExt

CONSTANT MAXARGS   \* arguments of a command, the final 0 included

Tokens == {"a", "|", "<", ">", "+", "&", ";", "(", ")"}
RedirTokens == {"<", ">", "+"}

Exec(argc) == [type |-> "exec", argc |-> argc]
Redir(cmd, tok) == [type |-> "redir", cmd |-> cmd, tok |-> tok]
Pipe(left, right) == [type |-> "pipe", left |-> left, right |-> right]
List(left, right) == [type |-> "list", left |-> left, right |-> right]
Back(cmd) == [type |-> "back", cmd |-> cmd]

\* parseredirs() puts each redirection around the command that it gets.
Wrap(cmd, redirs) == FoldLeft(Redir, cmd, redirs)

Fail == [ok |-> FALSE]
Parsed(cmd, rest) == [ok |-> TRUE, cmd |-> cmd, rest |-> rest]
Peek(s, toks) == s # <<>> /\ s[1] \in toks

-----------------------------------------------------------------------------
\* parseredirs(): its redirections, in the order of the line.
RECURSIVE ParseRedirs(_, _)
ParseRedirs(redirs, s) ==
  IF ~Peek(s, RedirTokens) THEN [ok |-> TRUE, redirs |-> redirs, rest |-> s]
  ELSE IF ~Peek(Tail(s), {"a"}) THEN Fail
  ELSE ParseRedirs(Append(redirs, s[1]), Tail(Tail(s)))

\* parseexec(), its loop: argc words and some redirections have been read.
RECURSIVE ParseArgs(_, _, _)
ParseArgs(argc, redirs, s) ==
  IF s = <<>> \/ Peek(s, {"|", ")", "&", ";"}) THEN Parsed(Wrap(Exec(argc), redirs), s)
  ELSE IF s[1] # "a" \/ argc + 1 >= MAXARGS THEN Fail
  ELSE LET r == ParseRedirs(redirs, Tail(s)) IN
       IF r.ok THEN ParseArgs(argc + 1, r.redirs, r.rest) ELSE Fail

RECURSIVE ParseLine(_)

ParseBlock(s) ==
  LET r == ParseLine(Tail(s)) IN
  IF ~r.ok \/ ~Peek(r.rest, {")"}) THEN Fail
  ELSE LET q == ParseRedirs(<<>>, Tail(r.rest)) IN
       IF q.ok THEN Parsed(Wrap(r.cmd, q.redirs), q.rest) ELSE Fail

ParseExec(s) ==
  IF Peek(s, {"("}) THEN ParseBlock(s)
  ELSE LET r == ParseRedirs(<<>>, s) IN
       IF r.ok THEN ParseArgs(0, r.redirs, r.rest) ELSE Fail

RECURSIVE ParsePipe(_)
ParsePipe(s) ==
  LET l == ParseExec(s) IN
  IF ~l.ok \/ ~Peek(l.rest, {"|"}) THEN l
  ELSE LET r == ParsePipe(Tail(l.rest)) IN
       IF r.ok THEN Parsed(Pipe(l.cmd, r.cmd), r.rest) ELSE Fail

\* parseline(): while(peek(ps, es, "&")) cmd = backcmd(cmd).
RECURSIVE ParseBacks(_)
ParseBacks(r) ==
  IF r.ok /\ Peek(r.rest, {"&"}) THEN ParseBacks(Parsed(Back(r.cmd), Tail(r.rest))) ELSE r

\* A bug: the rest of the list is only its next pipeline.
ParseLineOnce(s) ==
  LET l == ParseBacks(ParsePipe(s)) IN
  IF ~l.ok \/ ~Peek(l.rest, {";"}) THEN l
  ELSE LET r == ParsePipe(Tail(l.rest)) IN
       IF r.ok THEN Parsed(List(l.cmd, r.cmd), r.rest) ELSE Fail

ParseLine(s) ==
  LET l == ParseBacks(ParsePipe(s)) IN
  IF ~l.ok \/ ~Peek(l.rest, {";"}) THEN l
  ELSE LET r == ParseLine(Tail(l.rest)) IN
       IF r.ok THEN Parsed(List(l.cmd, r.cmd), r.rest) ELSE Fail

\* parsecmd(): leftovers are a syntax error.
ParseCmd(s) == LET r == ParseLine(s) IN IF r.ok /\ r.rest = <<>> THEN r ELSE Fail

-----------------------------------------------------------------------------
(* The grammar:  line   ::= job [";" line]       job  ::= pipe "&"*        *)
(*               pipe   ::= simple ["|" pipe]    redir ::= ("<"|">"|">>") a*)
(*               simple ::= "(" line ")" redir*  |  (redir | a)*           *)
(* with fewer than MAXARGS words; a later redirection is the outer one.    *)

Before(t, k) == SubSeq(t, 1, k - 1)
After(t, k) == SubSeq(t, k + 1, Len(t))
At(t, toks) == {k \in DOMAIN t : t[k] \in toks}

EndsInRedir(t) == Len(t) >= 2 /\ t[Len(t)] = "a" /\ t[Len(t) - 1] \in RedirTokens

\* Words and redirections in any order.
GrammarExec(t) ==
  LET redirs == At(t, RedirTokens)
      words == At(t, {"a"}) \ {k + 1 : k \in redirs}
  IN IF /\ DOMAIN t = redirs \union At(t, {"a"})
        /\ \A k \in redirs : k < Len(t) /\ t[k + 1] = "a"
        /\ Cardinality(words) < MAXARGS
     THEN {Wrap(Exec(Cardinality(words)), SelectSeq(t, LAMBDA x : x \in RedirTokens))}
     ELSE {}

RECURSIVE GrammarLine(_)

RECURSIVE GrammarBlock(_)
GrammarBlock(t) ==
  (IF Len(t) >= 2 /\ t[1] = "(" /\ t[Len(t)] = ")"
     THEN GrammarLine(SubSeq(t, 2, Len(t) - 1)) ELSE {})
  \union
  (IF EndsInRedir(t)
     THEN {Redir(c, t[Len(t) - 1]) : c \in GrammarBlock(SubSeq(t, 1, Len(t) - 2))} ELSE {})

RECURSIVE GrammarPipe(_)
GrammarPipe(t) ==
  GrammarExec(t) \union GrammarBlock(t) \union
  UNION {{Pipe(l, r) : l \in GrammarExec(Before(t, k)) \union GrammarBlock(Before(t, k)),
                       r \in GrammarPipe(After(t, k))} : k \in At(t, {"|"})}

RECURSIVE GrammarJob(_)
GrammarJob(t) ==
  GrammarPipe(t) \union
  (IF t # <<>> /\ t[Len(t)] = "&" THEN {Back(c) : c \in GrammarJob(Front(t))} ELSE {})

GrammarLine(t) ==
  GrammarJob(t) \union
  UNION {{List(l, r) : l \in GrammarJob(Before(t, k)), r \in GrammarLine(After(t, k))} :
           k \in At(t, {";"})}

=============================================================================
