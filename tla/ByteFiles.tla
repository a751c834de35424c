------------------------------ MODULE ByteFiles ------------------------------
(* What files promise: a file is a sequence of bytes, read and written at   *)
(* the offset of an open file, which moves on by what was read or written.  *)
(* Only a write that fails may leave bytes of a block that do not count.    *)
EXTENDS Integers, Sequences

CONSTANTS Files, Fds, Ip, MaxLen, BSIZE,
          Byte(_, _),     \* what is written to a file at an offset
          Torn(_, _)      \* and by a write that fails

VARIABLES content, off

Bytes(f, len) == [j \in 1 .. len |-> Byte(f, j - 1)]

Init == /\ content \in [Files -> {Bytes(f, k) : f \in Files, k \in 0 .. MaxLen}]
        /\ off = [d \in Fds |-> 0]

\* k bytes are written; the next c change too, if the file has them already.
Write(d, k, c) ==
  LET f == Ip[d]
      old == content[f]
      end == off[d] + k
      len == IF end > Len(old) THEN end ELSE Len(old) IN
  /\ off' = [off EXCEPT ![d] = end]
  /\ off[d] <= Len(old) /\ len <= MaxLen
  /\ (end % BSIZE) + c < BSIZE \/ c = 0
  /\ content' = [content EXCEPT ![f] = [j \in 1 .. len |->
                   CASE off[d] < j /\ j <= end -> Byte(f, j - 1)
                     [] end < j /\ j <= end + c -> Torn(f, j - 1)
                     [] OTHER -> old[j]]]

\* What a failing write left turns back into what was there before.
Forget(f) ==
  /\ UNCHANGED off
  /\ \E S \in SUBSET {j \in 1 .. Len(content[f]) : content[f][j] = Torn(f, j - 1)} :
       content' = [content EXCEPT ![f] = [j \in 1 .. Len(@) |->
                     IF j \in S THEN Byte(f, j - 1) ELSE @[j]]]

Read(d, k) ==
  /\ off' = [off EXCEPT ![d] = @ + k]
  /\ off[d] + k <= Len(content[Ip[d]])
  /\ UNCHANGED content

Truncate(f) == UNCHANGED off /\ content' = [content EXCEPT ![f] = <<>>]

Reopen(d) == off' = [off EXCEPT ![d] = 0] /\ UNCHANGED content

Next ==
  \/ \E f \in Files : Forget(f) \/ Truncate(f)
  \/ \E d \in Fds :
       \/ Reopen(d)
       \/ \E k \in 1 .. MaxLen : Read(d, k)
       \/ \E k \in 0 .. MaxLen, c \in 0 .. BSIZE - 1 : Write(d, k, c)

Spec == Init /\ [][Next]_<<content, off>>
=============================================================================
