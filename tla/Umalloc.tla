------------------------------- MODULE Umalloc -------------------------------
(***************************************************************************)
(* malloc and free of user programs (user/umalloc.c): a circular list of   *)
(* free blocks in the order of their addresses, searched from freep on.    *)
(* Addresses and sizes are in units of sizeof(Header); base, a static      *)
(* variable, is at address 0 and the heap begins at 1.  Each turn of a     *)
(* loop is a step.  Fields nobody reads any more are kept at 0.            *)
(***************************************************************************)
EXTENDS Integers, FiniteSets

CONSTANTS HeapMax,      \* bound: sbrk() fails beyond this address
          CORE,         \* 4096: morecore() asks for no less
          Units         \* bound: nunits of a malloc(), its header included

ASSUME UmallocConstants ==
  /\ HeapMax \in Nat /\ CORE \in Nat \ {0} /\ Units \subseteq Nat \ {0}

BASE == 0
NULL == -1
HeapAddrs == 0 .. HeapMax

VARIABLES hdr,          \* s.ptr and s.size of the header at an address
          freep,
          brk,          \* the next address sbrk() returns
          where,        \* "user", or the function that runs
          bp, cursor, prevp,   \* locals: cursor is p
          nunits,       \* 0 unless malloc() runs
          blocks,       \* what the program has: blocks and their sizes
          own           \* what it got from sbrk() itself

locals == <<where, bp, cursor, prevp, nunits>>
heap == <<hdr, freep, brk, locals, blocks, own>>

Ptr(a) == hdr[a].ptr
Size(a) == hdr[a].size

HeapReturn ==
  /\ where' = "user" /\ nunits' = 0
  /\ bp' = NULL /\ cursor' = NULL /\ prevp' = NULL

-----------------------------------------------------------------------------
\* nunits; the first malloc() makes base the list.
Malloc(n) ==
  LET start == IF freep = NULL THEN BASE ELSE freep IN
  /\ where = "user"
  /\ where' = "malloc" /\ nunits' = n
  /\ freep' = start /\ prevp' = start
  /\ cursor' = IF freep = NULL THEN BASE ELSE Ptr(start)
  /\ UNCHANGED <<hdr, brk, bp, blocks, own>>

Enough == where = "malloc" /\ Size(cursor) >= nunits

TakeWhole ==
  /\ Enough /\ Size(cursor) = nunits
  /\ hdr' = [hdr EXCEPT ![prevp].ptr = Ptr(cursor), ![cursor].ptr = 0]
  /\ freep' = prevp
  /\ blocks' = blocks \union {<<cursor, nunits>>}
  /\ HeapReturn
  /\ UNCHANGED <<brk, own>>

\* The end of the block; what is before it stays in the list.
TakeTail ==
  LET rest == Size(cursor) - nunits IN
  /\ Enough /\ rest > 0
  /\ hdr' = [hdr EXCEPT ![cursor].size = rest, ![cursor + rest].size = nunits]
  /\ freep' = prevp
  /\ blocks' = blocks \union {<<cursor + rest, nunits>>}
  /\ HeapReturn
  /\ UNCHANGED <<brk, own>>

Advance ==
  /\ where = "malloc" /\ ~Enough /\ cursor # freep
  /\ prevp' = cursor /\ cursor' = Ptr(cursor)
  /\ UNCHANGED <<hdr, freep, brk, where, bp, nunits, blocks, own>>

\* The search came round: morecore().
CoreUnits == IF nunits < CORE THEN CORE ELSE nunits

Morecore ==
  /\ where = "malloc" /\ ~Enough /\ cursor = freep
  /\ brk + CoreUnits <= HeapMax
  /\ brk' = brk + CoreUnits
  /\ hdr' = [hdr EXCEPT ![brk].size = CoreUnits]
  /\ where' = "free" /\ bp' = brk /\ cursor' = freep
  /\ UNCHANGED <<freep, prevp, nunits, blocks, own>>

\* sbrk() fails, for want of memory or at the bound: malloc() returns 0.
MorecoreFails ==
  /\ where = "malloc" /\ ~Enough /\ cursor = freep
  /\ HeapReturn
  /\ UNCHANGED <<hdr, freep, brk, blocks, own>>

-----------------------------------------------------------------------------
Free(b) ==
  /\ where = "user" /\ b \in blocks
  /\ blocks' = blocks \ {b}
  /\ where' = "free" /\ bp' = b[1] /\ cursor' = freep
  /\ UNCHANGED <<hdr, freep, brk, prevp, nunits, own>>

Between == bp > cursor /\ bp < Ptr(cursor)
AtEnds == cursor >= Ptr(cursor) /\ (bp > cursor \/ bp < Ptr(cursor))

FreeAdvance ==
  /\ where = "free" /\ ~Between /\ ~AtEnds
  /\ cursor' = Ptr(cursor)
  /\ UNCHANGED <<hdr, freep, brk, where, bp, prevp, nunits, blocks, own>>

\* A bug: the last block is taken to touch the first one of the list.
TouchesAny == bp + Size(bp) >= Ptr(cursor)

TouchesUpper == bp + Size(bp) = Ptr(cursor)

JoinUpper ==
  IF TouchesUpper
  THEN [hdr EXCEPT ![bp].size = @ + Size(Ptr(cursor)), ![bp].ptr = Ptr(Ptr(cursor)),
                   ![Ptr(cursor)] = [ptr |-> 0, size |-> 0]]
  ELSE [hdr EXCEPT ![bp].ptr = Ptr(cursor)]

JoinLower(h) ==
  IF cursor + h[cursor].size = bp
  THEN [h EXCEPT ![cursor].size = @ + h[bp].size, ![cursor].ptr = h[bp].ptr,
                 ![bp] = [ptr |-> 0, size |-> 0]]
  ELSE [h EXCEPT ![cursor].ptr = bp]

\* The block goes between cursor and the one after it.  morecore() goes back to
\* malloc()'s loop, at the block after freep.
FreeLink ==
  /\ where = "free" /\ (Between \/ AtEnds)
  /\ hdr' = JoinLower(JoinUpper)
  /\ freep' = cursor
  /\ \/ /\ nunits = 0
        /\ HeapReturn
     \/ /\ nunits > 0
        /\ where' = "malloc" /\ bp' = NULL
        /\ prevp' = cursor /\ cursor' = hdr'[cursor].ptr
        /\ UNCHANGED nunits
  /\ UNCHANGED <<brk, blocks, own>>

-----------------------------------------------------------------------------
\* The program calls sbrk() itself: the next morecore() finds a gap.
SbrkOwn ==
  /\ where = "user" /\ own = {} /\ brk < HeapMax
  /\ brk' = brk + 1 /\ own' = {brk}
  /\ UNCHANGED <<hdr, freep, locals, blocks>>

HeapInit ==
  /\ hdr = [a \in HeapAddrs |-> [ptr |-> 0, size |-> 0]]
  /\ freep = NULL /\ brk = 1
  /\ where = "user" /\ nunits = 0 /\ bp = NULL /\ cursor = NULL /\ prevp = NULL
  /\ blocks = {} /\ own = {}

HeapNext ==
  \/ \E n \in Units : Malloc(n)
  \/ TakeWhole \/ TakeTail \/ Advance \/ Morecore \/ MorecoreFails
  \/ \E b \in blocks : Free(b)
  \/ FreeAdvance \/ FreeLink
  \/ SbrkOwn

HeapSpec == HeapInit /\ [][HeapNext]_heap
-----------------------------------------------------------------------------
HeapFree == {a \in HeapAddrs : Size(a) > 0 /\ \A b \in blocks : b[1] # a}
Pieces == blocks \union {<<a, Size(a)>> : a \in HeapFree} \union {<<a, 1>> : a \in own}

\* The block the list has after a.
After(a) ==
  LET above == {x \in HeapFree : x > a}
  IN IF above = {} THEN BASE ELSE CHOOSE x \in above : \A y \in above : x <= y

(* Between calls the memory the program got from sbrk() is made up, without *)
(* gap or overlap, of the blocks it has, each as large as it asked for, of  *)
(* its own memory and of the free blocks; these are in the list in the      *)
(* order of their addresses, and free() has joined those that touch.        *)
HeapExact ==
  where = "user" =>
    /\ \A b \in blocks : Size(b[1]) = b[2]
    /\ \A x \in 1 .. brk - 1 :
         Cardinality({q \in Pieces : q[1] <= x /\ x < q[1] + q[2]}) = 1
    /\ \A q \in Pieces : q[1] >= 1 /\ q[1] + q[2] <= brk
    /\ \A a \in HeapFree \union {BASE} : Ptr(a) = After(a)
    /\ \A a \in HeapFree : a + Size(a) \notin HeapFree
    /\ freep \in HeapFree \union {BASE, NULL}
=============================================================================
