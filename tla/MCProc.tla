------------------------------- MODULE MCProc -------------------------------
(* Instances of Proc for TLC.                                              *)
EXTENDS Proc, TLC

\* CPUs are interchangeable; slots are not, the table is scanned in order.
Symmetry == Permutations(CPUs)

AnyCalls == [p \in Slots |-> AllCalls]

\* init, a parent, and a child that kills it or exits.
Family == [p \in Slots |-> IF p < 3 THEN {"fork", "wait"} ELSE {"kill", "exit"}]
=============================================================================
