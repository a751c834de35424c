---------------------------- MODULE MCFileContent ----------------------------
(* An instance of FileContent for TLC: two files, each with a descriptor   *)
(* that both processes may use.                                            *)
EXTENDS FileContent, TLC

MCIp == [d \in Fds |-> d]

Symmetry == Permutations(Procs)

\* The bytes of block x of f that are part of the file.
Inside(f, x) ==
  {y \in 0 .. BSIZE - 1 : x * BSIZE + y < disk.size[f] /\ Truncating(f) = {}}

(* Which of the blocks a file has does not tell states apart: what counts   *)
(* is where in the file they are, and what they hold.  Bytes after the end  *)
(* of the file are written before anybody reads them.                       *)
Live ==
  <<[f \in Files |-> [x \in Places(f) |-> [y \in Inside(f, x) |->
       <<disk.data[At(f, x)][y], disk.saved[At(f, x)][y]>>]]],
    disk.size, off, lock, pc, write, pos,
    [p \in Procs |-> <<logged[p] \ Blocks,
       IF logged[p] \subseteq {BITMAP, INODE} THEN {}
       ELSE {x \in References : At(x[1], x[2]) \in logged[p]}>>],
    panic>>
=============================================================================
