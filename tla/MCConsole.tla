------------------------------ MODULE MCConsole ------------------------------
(* An instance of Console for TLC, in two scenes: one types every key while *)
(* processes read, one prints while keys that echo one character or several *)
(* are typed.  Readers and writers meet only in the handler and the UART.   *)
EXTENDS Console

VARIABLE scene

PrintingKeys == Letters \union {"kill"}

MCInit == Init /\ scene \in {"typing", "printing"}

MCNext ==
  /\ Next /\ UNCHANGED scene
  /\ scene = "typing" => \A p \in Writers : pc'[p] = "user"
  /\ scene = "printing" =>
       /\ \A p \in Readers : pc'[p] = "user"
       /\ ch'[Handler] \notin (Keys \union Specials) \ PrintingKeys

MCSpec == MCInit /\ [][MCNext]_<<vars, scene>> /\ Fairness

(* The slots of a ring that hold nothing do not tell states apart.          *)
Live ==
  <<Queue, Edit, Output, r, w, e, consLock, txr, txw, txLock, pc, killed, reader,
    ch, ipc, echo, uart, scene>>
=============================================================================
