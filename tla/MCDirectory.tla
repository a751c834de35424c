----------------------------- MODULE MCDirectory -----------------------------
(* An instance of Directory for TLC.  Processes are alike, and so are names. *)
EXTENDS Directory, TLC

Symmetry == Permutations(Procs) \union Permutations(FileNames)
=============================================================================
