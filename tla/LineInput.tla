------------------------------ MODULE LineInput ------------------------------
(* What console input promises: keys edit a pending line, which becomes     *)
(* readable, as a whole, with a newline, with end-of-file or when there is  *)
(* no more room; readers take what is readable in order.                    *)
EXTENDS Integers, Sequences

CONSTANTS Keys, Size

VARIABLES queue,   \* readable
          edit     \* typed, and still to be edited

Init == queue = <<>> /\ edit = <<>>

Backspace == edit # <<>> /\ edit' = SubSeq(edit, 1, Len(edit) - 1) /\ UNCHANGED queue

KillLine == edit' = <<>> /\ UNCHANGED queue

Enter(c) ==
  /\ Len(queue) + Len(edit) < Size
  /\ IF c \in {"newline", "eof"} \/ Len(queue) + Len(edit) + 1 = Size
       THEN queue' = queue \o Append(edit, c) /\ edit' = <<>>
       ELSE edit' = Append(edit, c) /\ UNCHANGED queue

Take == queue # <<>> /\ queue' = Tail(queue) /\ UNCHANGED edit

Next == Backspace \/ KillLine \/ Take \/ \E c \in Keys : Enter(c)

Spec == Init /\ [][Next]_<<queue, edit>>
=============================================================================
