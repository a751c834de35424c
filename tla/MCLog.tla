------------------------------- MODULE MCLog --------------------------------
(* Small instances of Log for TLC. *)
EXTENDS Log, TLC

\* Processes, blocks and contents are interchangeable.
Symmetry == Permutations(Procs) \union Permutations(Blocks)
              \union Permutations(Vals)

=============================================================================
