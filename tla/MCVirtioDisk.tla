---------------------------- MODULE MCVirtioDisk ----------------------------
(* Instances of VirtioDisk for TLC.                                        *)
EXTENDS VirtioDisk, TLC

Symmetry == Permutations(Procs)

\* Ring entries from index a up to index b, and the part of a ring they hold.
\* Nobody reads a consumed entry before it is written again, so states that
\* differ only in those are the same state; and so it is with the status of a
\* free descriptor.
Entries(a, b) == {(a + k) % NUM : k \in 0 .. ((b + UINT - a) % UINT) - 1}
Unread(ring, a, b) == [k \in Entries(a, b) |-> ring[k]]

View == <<free, next, info, Unread(avail, dseen, aidx), aidx,
          Unread(used, used_idx, uidx), uidx, used_idx, busy, head, pc,
          intr, irq, dseen, dwork, bad \ free, served>>

=============================================================================
