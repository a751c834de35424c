------------------------------- MODULE Rings --------------------------------
(***************************************************************************)
(* Ring buffers as the kernel writes them: two free-running indices that   *)
(* wrap at Modulus, a power of two, and slots that are the indices modulo  *)
(* Size.  What a put and a get do to the entries between the indices, for  *)
(* the proofs about the pipe, the console and the disk driver.             *)
(***************************************************************************)
EXTENDS Integers, Sequences, SequenceTheorems, TLAPS

CONSTANTS Size, Modulus

RingSizes ==
  /\ Size \in Nat /\ Size > 0
  /\ Modulus \in Nat /\ Modulus > Size /\ Modulus % Size = 0

Index == 0 .. Modulus - 1
Slots == 0 .. Size - 1
Succ(x) == (x + 1) % Modulus

\* How far index b is ahead of a, and the slot k entries after index a.
Dist(a, b) == (b + Modulus - a) % Modulus
Slot(a, k) == (a + k) % Size
Window(a, b) == 0 .. Dist(a, b) - 1

\* The entries between the indices, as a sequence and as a set; none of them
\* is there twice.
Content(ring, a, b) == [k \in 1 .. Dist(a, b) |-> ring[Slot(a, k - 1)]]
Held(ring, a, b) == {ring[Slot(a, k)] : k \in Window(a, b)}
Once(ring, a, b) ==
  \A j, k \in Window(a, b) : ring[Slot(a, j)] = ring[Slot(a, k)] => j = k

USE SMTT(60) DEF RingSizes

\* What a remainder is.
LEMMA Remainder ==
  ASSUME NEW x \in Int, NEW m \in Nat, m > 0
  PROVE  /\ x % m \in 0 .. m - 1
         /\ \E q \in Int : x = m * q + (x % m)
<1>1. x % m \in 0 .. m - 1 /\ x \div m \in Int
  OBVIOUS
<1>2. x = m * (x \div m) + (x % m)
  OBVIOUS
<1> QED
  BY <1>1, <1>2

\* The remainder is the only number with this property.
LEMMA OneRemainder ==
  ASSUME NEW x \in Int, NEW m \in Nat, m > 0,
         NEW q \in Int, NEW u \in 0 .. m - 1, x = m * q + u
  PROVE  x % m = u
<1>1. PICK d \in Int : x = m * d + (x % m)
  BY Remainder
<1>2. PICK v \in 0 .. m - 1 : v = x % m
  BY Remainder
<1>3. m * q + u = m * d + v
  BY <1>1, <1>2
<1>4. m * (q - d) = v - u
  BY <1>3
<1>5. q = d
  <2>1. CASE q - d >= 1
    <3>1. m * (q - d) >= m
      BY <2>1
    <3> QED BY <3>1, <1>4
  <2>2. CASE q - d <= -1
    <3>1. m * (q - d) <= -m
      BY <2>2
    <3> QED BY <3>1, <1>4
  <2> QED BY <2>1, <2>2
<1> QED
  BY <1>2, <1>3, <1>5

LEMMA SameSlot ==
  ASSUME RingSizes, NEW x \in Int
  PROVE  (x + Modulus) % Size = x % Size
<1>0. Size > 0 /\ Modulus \in Int
  OBVIOUS
<1>1. PICK q \in Int : x = Size * q + (x % Size)
  BY <1>0, Remainder, ZenonT(60)
<1>2. PICK k \in Int : Modulus = Size * k + (Modulus % Size)
  BY <1>0, Remainder, ZenonT(60)
<1>3. PICK u \in 0 .. Size - 1 : u = x % Size
  BY <1>0, Remainder, ZenonT(60)
<1>4. x + Modulus = Size * q + Size * k + u
  BY <1>1, <1>2, <1>3
<1>5. Size * q + Size * k = Size * (q + k)
  OBVIOUS
<1>6. x + Modulus = Size * (q + k) + u /\ q + k \in Int /\ x + Modulus \in Int
  BY <1>4, <1>5
<1> QED
  BY <1>0, <1>3, <1>6, OneRemainder, ZenonT(60)

LEMMA SuccIs ==
  ASSUME RingSizes, NEW a \in Index
  PROVE  Succ(a) \in Index /\ Succ(a) = IF a + 1 = Modulus THEN 0 ELSE a + 1
BY DEF Index, Succ

LEMMA DistIs ==
  ASSUME RingSizes, NEW a \in Index, NEW b \in Index
  PROVE  Dist(a, b) = IF a <= b THEN b - a ELSE b + Modulus - a
<1> USE DEF Index, Dist
<1>1. CASE a <= b
  <2>1. b + Modulus - a = (b - a) + Modulus
    OBVIOUS
  <2>2. b - a \in Nat /\ b - a < Modulus
    BY <1>1
  <2>3. ((b - a) + Modulus) % Modulus = b - a
    BY <2>2
  <2> QED
    BY <1>1, <2>1, <2>3
<1>2. CASE ~(a <= b)
  BY <1>2
<1> QED
  BY <1>1, <1>2

LEMMA DistType ==
  ASSUME RingSizes, NEW a \in Index, NEW b \in Index
  PROVE  Dist(a, b) \in Nat
BY DistIs DEF Index

\* Indices that differ by less than Size have different slots.
LEMMA OtherSlot ==
  ASSUME RingSizes, NEW x \in Nat, NEW y \in Nat, x < y, y - x < Size
  PROVE  x % Size # y % Size
<1>0. Size > 0 /\ x \in Int /\ y \in Int
  OBVIOUS
<1>1. PICK q \in Int : x = Size * q + (x % Size)
  BY <1>0, Remainder, ZenonT(60)
<1>2. PICK d \in Int : y = Size * d + (y % Size)
  BY <1>0, Remainder, ZenonT(60)
<1>3. PICK u \in 0 .. Size - 1 : u = x % Size
  BY <1>0, Remainder, ZenonT(60)
<1> SUFFICES ASSUME y % Size = u PROVE FALSE
  BY <1>3
<1>4. y - x = Size * (d - q)
  BY <1>1, <1>2, <1>3
<1>5. CASE d - q >= 1
  <2>1. Size * (d - q) >= Size
    BY <1>5
  <2> QED BY <2>1, <1>4
<1>6. CASE d - q <= 0
  <2>1. Size * (d - q) <= 0
    BY <1>6
  <2> QED BY <2>1, <1>4
<1> QED
  BY <1>5, <1>6

LEMMA DistPut ==
  ASSUME RingSizes, NEW a \in Index, NEW b \in Index, Dist(a, b) < Size
  PROVE  Dist(a, Succ(b)) = Dist(a, b) + 1
<1>1. PICK c \in Index : c = Succ(b) /\ c = IF b + 1 = Modulus THEN 0 ELSE b + 1
  BY SuccIs
<1>2. Dist(a, b) = IF a <= b THEN b - a ELSE b + Modulus - a
  BY DistIs
<1>3. Dist(a, c) = IF a <= c THEN c - a ELSE c + Modulus - a
  BY DistIs
<1> QED
  BY <1>1, <1>2, <1>3 DEF Index

\* The same for any ring: only a step onto the other index loses the distance.
LEMMA DistNext ==
  ASSUME RingSizes, NEW a \in Index, NEW b \in Index, Succ(b) # a
  PROVE  Dist(a, Succ(b)) = Dist(a, b) + 1
<1>1. PICK c \in Index : c = Succ(b) /\ c = IF b + 1 = Modulus THEN 0 ELSE b + 1
  BY SuccIs
<1>2. Dist(a, b) = IF a <= b THEN b - a ELSE b + Modulus - a
  BY DistIs
<1>3. Dist(a, c) = IF a <= c THEN c - a ELSE c + Modulus - a
  BY DistIs
<1> QED
  BY <1>1, <1>2, <1>3 DEF Index

LEMMA DistGet ==
  ASSUME RingSizes, NEW a \in Index, NEW b \in Index, a # b
  PROVE  Dist(Succ(a), b) = Dist(a, b) - 1
<1>1. PICK c \in Index : c = Succ(a) /\ c = IF a + 1 = Modulus THEN 0 ELSE a + 1
  BY SuccIs
<1>2. Dist(a, b) = IF a <= b THEN b - a ELSE b + Modulus - a
  BY DistIs
<1>3. Dist(c, b) = IF c <= b THEN b - c ELSE b + Modulus - c
  BY DistIs
<1> QED
  BY <1>1, <1>2, <1>3 DEF Index

LEMMA SlotEnd ==
  ASSUME RingSizes, NEW a \in Index, NEW b \in Index
  PROVE  Slot(a, Dist(a, b)) = b % Size
<1>1. CASE a <= b
  BY <1>1, DistIs DEF Slot, Index
<1>2. CASE ~(a <= b)
  <2>1. a + Dist(a, b) = b + Modulus /\ b \in Nat
    BY <1>2, DistIs DEF Index
  <2> QED
    BY <2>1, SameSlot DEF Slot
<1> QED
  BY <1>1, <1>2

LEMMA SlotInc ==
  ASSUME RingSizes, NEW a \in Index, NEW k \in Nat
  PROVE  Slot(Succ(a), k) = Slot(a, k + 1)
<1>1. CASE a + 1 = Modulus
  <2>1. Succ(a) + k = k /\ a + (k + 1) = k + Modulus
    BY <1>1, SuccIs DEF Index
  <2> QED
    BY <2>1, SameSlot DEF Slot
<1>2. CASE a + 1 # Modulus
  <2>1. Succ(a) + k = a + (k + 1)
    BY <1>2, SuccIs DEF Index
  <2> QED
    BY <2>1 DEF Slot
<1> QED
  BY <1>1, <1>2

LEMMA SlotType ==
  ASSUME RingSizes, NEW a \in Index, NEW k \in Nat
  PROVE  Slot(a, k) \in Slots
BY DEF Slot, Index, Slots

\* Slots of different entries of a ring that is not full.
LEMMA SlotApart ==
  ASSUME RingSizes, NEW a \in Index,
         NEW j \in 0 .. Size - 1, NEW k \in 0 .. Size - 1, j < k
  PROVE  Slot(a, j) # Slot(a, k)
<1>1. a + j \in Nat /\ a + k \in Nat /\ a + j < a + k /\ (a + k) - (a + j) < Size
  BY DEF Index
<1> QED
  BY <1>1, OtherSlot, ZenonT(60) DEF Slot

\* Where the entries are when one is put behind them.
LEMMA PutSlots ==
  ASSUME RingSizes, NEW a \in Index, NEW b \in Index, Dist(a, b) < Size,
         NEW ring, NEW new, NEW h, new[b % Size] = h,
         \A d \in Slots \ {b % Size} : new[d] = ring[d],
         NEW n, n = Dist(a, b)
  PROVE  /\ n \in Nat /\ Succ(b) \in Index /\ Dist(a, Succ(b)) = n + 1
         /\ new[Slot(a, n)] = h
         /\ \A k \in 0 .. n - 1 : new[Slot(a, k)] = ring[Slot(a, k)]
<1>1. n \in Nat /\ n < Size
  BY DistIs DEF Index
<1>2. Succ(b) \in Index /\ Dist(a, Succ(b)) = n + 1
  BY SuccIs, DistPut
<1>3. Slot(a, n) = b % Size
  BY SlotEnd
<1>4. \A k \in 0 .. n - 1 : Slot(a, k) \in Slots /\ Slot(a, k) # Slot(a, n)
  BY <1>1, SlotType, SlotApart
<1> QED
  BY <1>1, <1>2, <1>3, <1>4

\* Where they are when the oldest one is taken.
LEMMA GetSlots ==
  ASSUME RingSizes, NEW a \in Index, NEW b \in Index, a # b, NEW n, n = Dist(a, b)
  PROVE  /\ n \in Nat /\ n > 0 /\ Succ(a) \in Index /\ Dist(Succ(a), b) = n - 1
         /\ Slot(a, 0) = a % Size
         /\ \A k \in 0 .. n - 2 : Slot(Succ(a), k) = Slot(a, k + 1)
<1>1. n \in Nat /\ n > 0
  BY DistIs DEF Index
<1>2. Succ(a) \in Index /\ Dist(Succ(a), b) = n - 1
  BY SuccIs, DistGet
<1>3. Slot(a, 0) = a % Size
  BY DEF Slot, Index
<1>4. \A k \in 0 .. n - 2 : k \in Nat
  BY <1>1
<1>5. \A k \in 0 .. n - 2 : Slot(Succ(a), k) = Slot(a, k + 1)
  BY <1>4, SlotInc, ZenonT(60)
<1> QED
  BY <1>1, <1>2, <1>3, <1>5

\* The lemmas below on contents conclude predicates of their own: the provers
\* match a predicate more easily than an equation.

\* A put appends to the content of a ring that is not full.
Puts(ring, new, a, b, h) == Content(new, a, Succ(b)) = Append(Content(ring, a, b), h)

LEMMA ContentPut ==
  ASSUME RingSizes, NEW a \in Index, NEW b \in Index, Dist(a, b) < Size,
         NEW ring, NEW new, NEW h, new[b % Size] = h,
         \A d \in Slots \ {b % Size} : new[d] = ring[d]
  PROVE  Puts(ring, new, a, b, h)
<1>1. PICK n : n = Dist(a, b)
  OBVIOUS
<1>2. /\ n \in Nat /\ Dist(a, Succ(b)) = n + 1 /\ new[Slot(a, n)] = h
      /\ \A k \in 0 .. n - 1 : new[Slot(a, k)] = ring[Slot(a, k)]
  BY <1>1, PutSlots
<1>3. Content(ring, a, b) = [k \in 1 .. n |-> ring[Slot(a, k - 1)]]
  BY <1>1 DEF Content
<1>4. Content(new, a, Succ(b)) = [k \in 1 .. n + 1 |-> new[Slot(a, k - 1)]]
  BY <1>2 DEF Content
<1>5. \A k \in 1 .. n : new[Slot(a, k - 1)] = ring[Slot(a, k - 1)]
  <2>1. \A k \in 1 .. n : k - 1 \in 0 .. n - 1
    BY <1>2
  <2> QED
    BY <1>2, <2>1
<1>6. n + 1 - 1 = n
  BY <1>2
<1>7. Content(new, a, Succ(b)) = Append(Content(ring, a, b), h)
  BY <1>2, <1>3, <1>4, <1>5, <1>6
<1> QED
  BY <1>7, ZenonT(60) DEF Puts

\* A get takes the head off the content of a ring that is not empty.
LEMMA ContentGet ==
  ASSUME RingSizes, NEW a \in Index, NEW b \in Index, a # b, NEW ring
  PROVE  /\ Content(ring, a, b) # <<>>
         /\ Content(ring, Succ(a), b) = Tail(Content(ring, a, b))
<1>1. PICK n : n = Dist(a, b)
  OBVIOUS
<1>2. /\ n \in Nat /\ n > 0 /\ Dist(Succ(a), b) = n - 1
      /\ \A k \in 0 .. n - 2 : Slot(Succ(a), k) = Slot(a, k + 1)
  BY <1>1, GetSlots
<1>3. Content(ring, a, b) = [k \in 1 .. n |-> ring[Slot(a, k - 1)]]
  BY <1>1 DEF Content
<1>4. Content(ring, Succ(a), b) = [k \in 1 .. n - 1 |-> ring[Slot(Succ(a), k - 1)]]
  BY <1>2 DEF Content
<1>5. \A k \in 1 .. n - 1 : Slot(Succ(a), k - 1) = Slot(a, k)
  <2>1. \A k \in 1 .. n - 1 : k - 1 \in 0 .. n - 2 /\ (k - 1) + 1 = k
    BY <1>2
  <2> QED
    BY <1>2, <2>1
<1>6. \A k \in 1 .. n - 1 : (k + 1) - 1 = k
  BY <1>2
<1> QED
  BY <1>2, <1>3, <1>4, <1>5, <1>6

\* Putting an entry on a ring that is not full.
LEMMA RingPut ==
  ASSUME RingSizes, NEW ring, NEW a \in Index, NEW b \in Index,
         NEW h, Dist(a, b) < Size, h \notin Held(ring, a, b),
         Once(ring, a, b), NEW new, new[b % Size] = h,
         \A d \in Slots \ {b % Size} : new[d] = ring[d]
  PROVE  /\ Succ(b) \in Index
         /\ Dist(a, Succ(b)) = Dist(a, b) + 1
         /\ Held(new, a, Succ(b)) = Held(ring, a, b) \union {h}
         /\ Once(new, a, Succ(b))
<1> DEFINE n == Dist(a, b)
<1>1. n \in Nat /\ n < Size
  BY DistIs DEF Index
<1>2. Succ(b) \in Index /\ Dist(a, Succ(b)) = n + 1
  BY SuccIs, DistPut
<1>3. Slot(a, n) = b % Size
  BY SlotEnd
<1> HIDE DEF n
<1>4. /\ Window(a, b) = 0 .. n - 1
      /\ Window(a, Succ(b)) = 0 .. n
  BY <1>1, <1>2 DEF Window, n
<1>5. /\ \A k \in 0 .. n : Slot(a, k) \in Slots
      /\ \A k \in 0 .. n - 1 : Slot(a, k) # Slot(a, n)
  BY <1>1, SlotType, SlotApart
<1>6. /\ new[Slot(a, n)] = h
      /\ \A k \in 0 .. n - 1 : new[Slot(a, k)] = ring[Slot(a, k)]
  BY <1>1, <1>3, <1>5
<1>7. \A k \in 0 .. n - 1 : ring[Slot(a, k)] # h
  BY <1>4 DEF Held
<1>8. Held(new, a, Succ(b)) = Held(ring, a, b) \union {h}
  BY <1>1, <1>4, <1>6 DEF Held
<1>9. Once(new, a, Succ(b))
  BY <1>1, <1>4, <1>6, <1>7 DEF Once
<1> QED
  BY <1>2, <1>6, <1>8, <1>9 DEF n

\* Taking the oldest entry off a ring that is not empty.
LEMMA RingGet ==
  ASSUME RingSizes, NEW ring, NEW a \in Index, NEW b \in Index, a # b,
         Once(ring, a, b)
  PROVE  /\ Succ(a) \in Index
         /\ Dist(Succ(a), b) = Dist(a, b) - 1
         /\ ring[a % Size] \in Held(ring, a, b)
         /\ Held(ring, Succ(a), b) = Held(ring, a, b) \ {ring[a % Size]}
         /\ Once(ring, Succ(a), b)
<1> DEFINE n == Dist(a, b)
<1>1. n \in Nat /\ n > 0
  BY DistIs DEF Index
<1>2. Succ(a) \in Index /\ Dist(Succ(a), b) = n - 1
  BY SuccIs, DistGet
<1>3. Slot(a, 0) = a % Size
  BY DEF Slot, Index
<1> HIDE DEF n
<1>4. /\ Window(a, b) = 0 .. n - 1
      /\ Window(Succ(a), b) = 0 .. n - 2
  BY <1>1, <1>2 DEF Window, n
<1>5. \A k \in 0 .. n - 2 : k + 1 \in 0 .. n - 1 /\ Slot(Succ(a), k) = Slot(a, k + 1)
  BY <1>1, SlotInc
<1>6. \A k \in 0 .. n - 1 :
        k = 0 \/ (k - 1 \in 0 .. n - 2 /\ Slot(a, k) = Slot(Succ(a), k - 1))
  <2> SUFFICES ASSUME NEW k \in 0 .. n - 1, k # 0
               PROVE  k - 1 \in 0 .. n - 2 /\ Slot(a, k) = Slot(Succ(a), k - 1)
    OBVIOUS
  <2>1. PICK j \in 0 .. n - 2 : j = k - 1 /\ k = j + 1
    BY <1>1
  <2> QED
    BY <2>1, <1>5
<1>7. ring[a % Size] \in Held(ring, a, b)
  BY <1>1, <1>3, <1>4 DEF Held
<1>8. ASSUME NEW h \in Held(ring, Succ(a), b)
      PROVE  h \in Held(ring, a, b) \ {ring[a % Size]}
  <2>1. PICK k \in 0 .. n - 2 : h = ring[Slot(a, k + 1)]
    BY <1>4, <1>5 DEF Held
  <2>2. k + 1 \in 0 .. n - 1 /\ 0 \in 0 .. n - 1 /\ k + 1 # 0
    BY <1>1
  <2> QED
    BY <2>1, <2>2, <1>3, <1>4 DEF Held, Once
<1>9. ASSUME NEW h \in Held(ring, a, b), h # ring[a % Size]
      PROVE  h \in Held(ring, Succ(a), b)
  BY <1>9, <1>3, <1>4, <1>6 DEF Held
<1>10. Once(ring, Succ(a), b)
  <2> SUFFICES ASSUME NEW j \in 0 .. n - 2, NEW k \in 0 .. n - 2,
                      ring[Slot(a, j + 1)] = ring[Slot(a, k + 1)]
               PROVE  j = k
    BY <1>4, <1>5 DEF Once
  <2>1. j + 1 = k + 1
    BY <1>4, <1>5 DEF Once
  <2> QED
    BY <2>1, <1>1
<1> QED
  BY <1>2, <1>7, <1>8, <1>9, <1>10 DEF n


\* The same distance without the detour over Modulus, and a step back.
LEMMA Backwards ==
  ASSUME RingSizes, NEW a \in Index, NEW b \in Index
  PROVE  (b - a) % Modulus = Dist(a, b)
<1>1. b - a \in Int /\ Modulus > 0
  BY DEF Index
<1>2. PICK q \in Int : b - a = Modulus * q + ((b - a) % Modulus)
  BY <1>1, Remainder, ZenonT(60)
<1>3. PICK u \in 0 .. Modulus - 1 : u = (b - a) % Modulus
  BY <1>1, Remainder, ZenonT(60)
<1>4. b - a = Modulus * q + u
  BY <1>2, <1>3
<1>5. q \in {0, -1}
  <2>1. CASE q >= 1
    <3>1. Modulus * q >= Modulus
      BY <2>1
    <3> QED BY <3>1, <1>4 DEF Index
  <2>2. CASE q <= -2
    <3>1. Modulus * q <= -2 * Modulus
      BY <2>2
    <3> QED BY <3>1, <1>4 DEF Index
  <2> QED BY <2>1, <2>2
<1>6. Modulus * 0 = 0 /\ Modulus * (-1) = -Modulus
  OBVIOUS
<1>7. u = IF a <= b THEN b - a ELSE b + Modulus - a
  BY <1>4, <1>5, <1>6 DEF Index
<1> QED
  BY <1>3, <1>7, DistIs

LEMMA PredIs ==
  ASSUME RingSizes, NEW b \in Index
  PROVE  (b - 1) % Modulus \in Index /\ Succ((b - 1) % Modulus) = b
<1>1. 1 \in Index
  BY DEF Index
<1>2. (b - 1) % Modulus = IF 1 <= b THEN b - 1 ELSE b + Modulus - 1
  BY <1>1, Backwards, DistIs, ZenonT(60)
<1>3. PICK c \in Index : c = (b - 1) % Modulus
  BY <1>2 DEF Index
<1>4. Succ(c) = b
  BY <1>2, <1>3, SuccIs DEF Index
<1> QED
  BY <1>3, <1>4

\* Three indices in order.
Ordered(a, b, c) == Dist(a, b) + Dist(b, c) = Dist(a, c)

\* The content as a sequence: its type, its length and its elements.
Lists(s, V, ring, a, b) ==
  /\ s \in Seq(V) /\ Len(s) = Dist(a, b)
  /\ \A k \in 1 .. Dist(a, b) : s[k] = ring[Slot(a, k - 1)]

LEMMA ContentType ==
  ASSUME RingSizes, NEW a \in Index, NEW b \in Index, NEW V, NEW ring \in [Slots -> V]
  PROVE  Lists(Content(ring, a, b), V, ring, a, b)
<1>1. PICK n \in Nat : n = Dist(a, b)
  BY DistType
<1>2. \A k \in 1 .. n : ring[Slot(a, k - 1)] \in V
  <2>1. \A k \in 1 .. n : k - 1 \in Nat
    BY <1>1
  <2>2. \A k \in 1 .. n : Slot(a, k - 1) \in Slots
    BY <2>1, SlotType, ZenonT(60)
  <2> QED
    BY <2>2
<1>3. Content(ring, a, b) = [k \in 1 .. n |-> ring[Slot(a, k - 1)]]
  BY <1>1 DEF Content
<1> QED
  BY <1>1, <1>2, <1>3 DEF Lists

\* The content up to a later index.
Joins(ring, a, b, c) ==
  Content(ring, a, c) = Content(ring, a, b) \o Content(ring, b, c)

LEMMA ContentJoin ==
  ASSUME RingSizes, NEW a \in Index, NEW b \in Index, NEW c \in Index,
         Ordered(a, b, c), NEW V, NEW ring \in [Slots -> V]
  PROVE  Joins(ring, a, b, c)
<1>1. PICK m \in Nat, n \in Nat : m = Dist(a, b) /\ n = Dist(b, c)
  BY DistType
<1>2. Dist(a, c) = m + n
  BY <1>1 DEF Ordered
<1>3. \A k \in Nat : Slot(b, k) = Slot(a, m + k)
  <2> SUFFICES ASSUME NEW k \in Nat PROVE Slot(b, k) = Slot(a, m + k)
    OBVIOUS
  <2>1. CASE a <= b
    <3>1. b + k = a + (m + k)
      BY <2>1, <1>1, DistIs DEF Index
    <3> QED
      BY <3>1 DEF Slot
  <2>2. CASE ~(a <= b)
    <3>1. a + (m + k) = (b + k) + Modulus /\ b + k \in Int
      BY <2>2, <1>1, DistIs DEF Index
    <3>2. ((b + k) + Modulus) % Size = (b + k) % Size
      BY <3>1, SameSlot, ZenonT(60)
    <3> QED
      BY <3>1, <3>2, ZenonT(60) DEF Slot
  <2> QED
    BY <2>1, <2>2
<1>4. PICK s \in Seq(V) : /\ s = Content(ring, a, b) /\ Len(s) = m
                         /\ \A k \in 1 .. m : s[k] = ring[Slot(a, k - 1)]
  <2>1. Lists(Content(ring, a, b), V, ring, a, b)
    BY ContentType, ZenonT(60)
  <2> QED
    BY <1>1, <2>1, ZenonT(60) DEF Lists
<1>5. PICK t \in Seq(V) : /\ t = Content(ring, b, c) /\ Len(t) = n
                         /\ \A k \in 1 .. n : t[k] = ring[Slot(b, k - 1)]
  <2>1. Lists(Content(ring, b, c), V, ring, b, c)
    BY ContentType, ZenonT(60)
  <2> QED
    BY <1>1, <2>1, ZenonT(60) DEF Lists
<1>6. PICK z \in Seq(V) : /\ z = Content(ring, a, c) /\ Len(z) = m + n
                         /\ \A k \in 1 .. m + n : z[k] = ring[Slot(a, k - 1)]
  <2>1. Lists(Content(ring, a, c), V, ring, a, c)
    BY ContentType, ZenonT(60)
  <2> QED
    BY <1>2, <2>1, ZenonT(60) DEF Lists
<1>7. \A k \in m + 1 .. m + n : ring[Slot(a, k - 1)] = ring[Slot(b, (k - m) - 1)]
  <2>1. \A k \in m + 1 .. m + n : (k - m) - 1 \in Nat /\ m + ((k - m) - 1) = k - 1
    BY <1>1
  <2> QED
    BY <2>1, <1>3
<1>8. \A k \in 1 .. m + n : z[k] = IF k <= m THEN s[k] ELSE t[k - m]
  BY <1>4, <1>5, <1>6, <1>7
<1>9. s \o t \in Seq(V) /\ Len(s \o t) = m + n
      /\ \A k \in 1 .. m + n : (s \o t)[k] = IF k <= m THEN s[k] ELSE t[k - m]
  BY <1>4, <1>5, ConcatProperties
<1>10. z = s \o t
  <2>1. Len(z) = Len(s \o t) /\ \A k \in 1 .. Len(z) : z[k] = (s \o t)[k]
    BY <1>6, <1>8, <1>9
  <2>2. z \in Seq(V) /\ s \o t \in Seq(V)
    BY <1>6, <1>9
  <2> QED
    BY <2>1, <2>2, SeqEqual, ZenonT(60)
<1>11. Content(ring, a, c) = Content(ring, a, b) \o Content(ring, b, c)
  BY <1>4, <1>5, <1>6, <1>10
<1> QED
  BY <1>11, ZenonT(60) DEF Joins

\* A sequence in two parts grows with the second.
Appends(s, t, c) == Append(s \o t, c) = s \o Append(t, c)

LEMMA AppendConcat ==
  ASSUME NEW V, NEW s \in Seq(V), NEW t \in Seq(V), NEW c \in V
  PROVE  Appends(s, t, c)
<1>1. s \o t \in Seq(V) /\ <<c>> \in Seq(V)
  BY ConcatProperties
<1>2. Append(s \o t, c) = (s \o t) \o <<c>> /\ Append(t, c) = t \o <<c>>
  BY <1>1, AppendIsConcat
<1>3. (s \o t) \o <<c>> = s \o (t \o <<c>>)
  BY <1>1, ConcatAssociative
<1> QED
  BY <1>2, <1>3, ZenonT(60) DEF Appends

\* Taking back the last entry.
Drops(ring, a, b) ==
  /\ Content(ring, a, Succ(b)) # <<>>
  /\ Content(ring, a, b) =
       SubSeq(Content(ring, a, Succ(b)), 1, Len(Content(ring, a, Succ(b))) - 1)

LEMMA ContentLast ==
  ASSUME RingSizes, NEW a \in Index, NEW b \in Index, Dist(a, b) < Size,
         NEW V, NEW ring \in [Slots -> V]
  PROVE  Drops(ring, a, b)
<1>1. PICK n \in Nat : n = Dist(a, b) /\ Dist(a, Succ(b)) = n + 1 /\ Succ(b) \in Index
  BY DistType, DistPut, SuccIs
<1>2. PICK s \in Seq(V) : /\ s = Content(ring, a, b) /\ Len(s) = n
                         /\ \A k \in 1 .. n : s[k] = ring[Slot(a, k - 1)]
  <2>1. Lists(Content(ring, a, b), V, ring, a, b)
    BY ContentType, ZenonT(60)
  <2> QED
    BY <1>1, <2>1, ZenonT(60) DEF Lists
<1>3. PICK t \in Seq(V) : /\ t = Content(ring, a, Succ(b)) /\ Len(t) = n + 1
                         /\ \A k \in 1 .. n + 1 : t[k] = ring[Slot(a, k - 1)]
  <2>1. Lists(Content(ring, a, Succ(b)), V, ring, a, Succ(b))
    BY <1>1, ContentType, ZenonT(60)
  <2> QED
    BY <1>1, <2>1, ZenonT(60) DEF Lists
<1>4. /\ SubSeq(t, 1, n) \in Seq(V) /\ Len(SubSeq(t, 1, n)) = n
      /\ \A k \in 1 .. n : SubSeq(t, 1, n)[k] = t[k]
  BY <1>1, <1>3
<1>5. s = SubSeq(t, 1, n)
  BY <1>2, <1>3, <1>4
<1>6. t # <<>> /\ Len(t) - 1 = n
  BY <1>1, <1>3
<1> QED
  BY <1>2, <1>3, <1>5, <1>6, ZenonT(60) DEF Drops

\* An entry that is put behind a later index.
Keeps(ring, new, a, b) == Content(new, a, b) = Content(ring, a, b)

LEMMA ContentOther ==
  ASSUME RingSizes, NEW a \in Index, NEW b \in Index, NEW c \in Index,
         Ordered(a, b, c), Dist(a, c) < Size, NEW ring, NEW new,
         \A d \in Slots \ {c % Size} : new[d] = ring[d]
  PROVE  Keeps(ring, new, a, b)
<1>1. PICK m \in Nat, n \in Nat : m = Dist(a, b) /\ n = Dist(b, c) /\ m + n = Dist(a, c)
  BY DistType DEF Ordered
<1>2. \A k \in 1 .. m : Slot(a, k - 1) \in Slots /\ Slot(a, k - 1) # Slot(a, m + n)
  <2>1. \A k \in 1 .. m : /\ k - 1 \in Nat /\ k - 1 \in 0 .. Size - 1
                          /\ m + n \in 0 .. Size - 1 /\ k - 1 < m + n
    BY <1>1
  <2> QED
    BY <2>1, SlotType, SlotApart, ZenonT(60)
<1>3. Slot(a, m + n) = c % Size
  BY <1>1, SlotEnd
<1>4. \A k \in 1 .. m : new[Slot(a, k - 1)] = ring[Slot(a, k - 1)]
  BY <1>2, <1>3, ZenonT(60)
<1> QED
  BY <1>1, <1>4, ZenonT(60) DEF Keeps, Content

\* The entry k + 1 places before index b.
LEMMA SlotBack ==
  ASSUME RingSizes, NEW a \in Index, NEW b \in Index, NEW k \in Window(a, b)
  PROVE  (b - k - 1) % Size = Slot(a, Dist(a, b) - k - 1)
<1>1. k \in Nat /\ Dist(a, b) \in Nat /\ k < Dist(a, b)
  BY DistType DEF Window
<1>2. Dist(a, b) = IF a <= b THEN b - a ELSE b + Modulus - a
  BY DistIs
<1>3. CASE a <= b
  <2>1. a + (Dist(a, b) - k - 1) = b - k - 1
    BY <1>1, <1>2, <1>3 DEF Index
  <2> QED
    BY <2>1, ZenonT(60) DEF Slot
<1>4. CASE ~(a <= b)
  <2>1. /\ a + (Dist(a, b) - k - 1) = (b - k - 1) + Modulus
        /\ b - k - 1 \in Int
    BY <1>1, <1>2, <1>4 DEF Index
  <2>2. ((b - k - 1) + Modulus) % Size = (b - k - 1) % Size
    BY <2>1, SameSlot, ZenonT(60)
  <2> QED
    BY <2>1, <2>2, ZenonT(60) DEF Slot
<1> QED
  BY <1>3, <1>4

\* As far back as index a is from b.
LEMMA BackTo ==
  ASSUME RingSizes, NEW a \in Index, NEW b \in Index
  PROVE  (b - Dist(a, b)) % Modulus = a
<1>1. PICK d \in Index : /\ d = Dist(a, b)
                        /\ d = IF a <= b THEN b - a ELSE b + Modulus - a
  BY DistIs DEF Index
<1>2. (b - d) % Modulus = IF d <= b THEN b - d ELSE b + Modulus - d
  BY Backwards, DistIs, ZenonT(60)
<1> QED
  BY <1>1, <1>2 DEF Index
=============================================================================
