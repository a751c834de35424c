------------------------------ MODULE MCMemory ------------------------------
(* An instance of Memory and of Umalloc for TLC.  The kernel's pages and    *)
(* the heap of a program meet only in sbrk(), which either may refuse: they *)
(* are explored one beside the other, in two scenes.                        *)
EXTENDS Memory, Umalloc

VARIABLE scene

MCInit == Init /\ HeapInit /\ scene \in {"pages", "heap"}

MCNext ==
  /\ UNCHANGED scene
  /\ \/ scene = "pages" /\ Next /\ UNCHANGED heap
     \/ scene = "heap" /\ HeapNext /\ UNCHANGED vars

MCSpec == MCInit /\ [][MCNext]_<<vars, heap, scene>>
=============================================================================
