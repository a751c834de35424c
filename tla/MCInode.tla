------------------------------- MODULE MCInode -------------------------------
(* Instances of Inode for TLC.                                             *)
EXTENDS Inode, TLC

Symmetry == Permutations(Procs) \union Permutations(Inums)
=============================================================================
