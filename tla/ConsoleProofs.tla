--------------------------- MODULE ConsoleProofs ----------------------------
(***************************************************************************)
(* The inductive invariant of Console, and the proofs that nobody sleeps   *)
(* on a condition that is false, that the output buffer is a bounded queue *)
(* and that the input buffer is a readable queue with a line that is still *)
(* edited, for any number of processes and any sizes.                      *)
(***************************************************************************)
EXTENDS Console, TLAPS

Actors == Writers \union {Handler}
ReaderPcs == {"user", "acquire", "loop", "sleep", "asleep"}
WriterPcs == {"user", "acquire", "asleep", "start", "thr"}
HandlerPcs == {"none", "rx", "key", "echo", "echosend", "tx", "start", "thr"}

Types ==
  /\ buf \in [0 .. INPUT_BUF_SIZE - 1 -> Keys \union {None}]
  /\ r \in 0 .. UINT - 1 /\ w \in 0 .. UINT - 1 /\ e \in 0 .. UINT - 1
  /\ txbuf \in [0 .. UART_TX_BUF_SIZE - 1 -> Bytes \union {None}]
  /\ txr \in 0 .. UINT64 - 1 /\ txw \in 0 .. UINT64 - 1
  /\ pc \in [Procs -> ReaderPcs \union WriterPcs]
  /\ \A p \in Readers : pc[p] \in ReaderPcs
  /\ \A p \in Writers : pc[p] \in WriterPcs
  /\ ch \in [Actors -> Bytes \union Keys \union Specials \union {None}]
  /\ \A p \in Writers : pc[p] \in {"acquire", "asleep"} => ch[p] \in Bytes
  /\ ipc \in HandlerPcs /\ fifo \in Nat

\* Who holds cons.lock and uart_tx_lock.
Locks ==
  /\ \A p \in Readers : consLock = p <=> pc[p] \in {"loop", "sleep"}
  /\ consLock = Handler <=> ipc \in {"echo", "echosend"}
  /\ \A p \in Writers : txLock = p <=> pc[p] \in {"start", "thr"}
  /\ txLock = Handler <=> ipc \in {"start", "thr"}

\* A reader that is about to sleep has tested r = w with cons.lock held.
Sleepers ==
  /\ \A p \in Readers : pc[p] \in {"sleep", "asleep"} => r = w
  /\ \A p \in Writers : pc[p] = "asleep" => TxFull

\* Who has found the UART idle and not yet written THR: of uartstart() and of
\* uartputc_sync() each one at most.
Sends == ipc = "thr" \/ \E p \in Writers : pc[p] = "thr"
Sending ==
  /\ fifo <= 2
  /\ Sends \/ ipc = "echosend" => fifo <= 1
  /\ Sends /\ ipc = "echosend" => fifo = 0

TxRing == TxLen <= UART_TX_BUF_SIZE

\* The indices of the input are in order, and the line has no newline.
InRing ==
  /\ Dist(r, w) + Dist(w, e) = Dist(r, e) /\ Dist(r, e) <= INPUT_BUF_SIZE
  /\ \A k \in 1 .. Dist(w, e) : Edit[k] # "newline"

Inv == Types /\ Locks /\ Sleepers /\ Sending /\ TxRing /\ InRing

-----------------------------------------------------------------------------
LEMMA Sizes ==
  /\ INPUT_BUF_SIZE \in Nat /\ UART_TX_BUF_SIZE \in Nat
  /\ Readers \intersect Writers = {} /\ Procs = Readers \union Writers
  /\ Handler \notin Procs /\ None \notin Procs /\ Handler # None
BY ConsoleConstants DEF Procs

USE Sizes, ZenonT(60)
USE DEF ReaderPcs, WriterPcs, HandlerPcs, Actors, cons, tx, uart

LEMMA InitInv == Init => Inv
<1> SUFFICES ASSUME Init PROVE Inv
  OBVIOUS
<1>1. 0 \in 0 .. UINT - 1 /\ 0 \in 0 .. UINT64 - 1
  BY ConsoleConstants, SMTT(60)
<1>2. (0 - 0) % UINT = 0 /\ (0 - 0) % UINT64 = 0
  BY ConsoleConstants, SMTT(60)
<1>3. /\ 0 \in Nat /\ 0 <= 2 /\ 0 <= 1 /\ 0 + 0 = 0
      /\ \A k \in 1 .. 0 : FALSE
      /\ 0 <= INPUT_BUF_SIZE /\ 0 <= UART_TX_BUF_SIZE
  BY SMTT(60)
<1>4. TxRing /\ InRing
  <2>1. Dist(r, w) = 0 /\ Dist(w, e) = 0 /\ Dist(r, e) = 0 /\ TxLen = 0
    BY <1>2 DEF Init, Dist, TxLen
  <2> QED
    BY <1>3, <2>1 DEF TxRing, InRing
<1>5. Types
  BY <1>1, <1>3 DEF Init, Types
<1>6. Locks /\ Sleepers
  BY DEF Init, Locks, Sleepers
<1>7. Sending
  BY <1>3 DEF Init, Sending, Sends
<1> QED
  BY <1>4, <1>5, <1>6, <1>7 DEF Inv

\* Steps that leave the output ring, or the input ring, alone.
TxSame == txbuf' = txbuf /\ txr' = txr /\ txw' = txw
InSame == buf' = buf /\ r' = r /\ w' = w /\ e' = e

LEMMA TxKept == Inv /\ TxSame => TxRing' /\ (TxFull' <=> TxFull)
BY ZenonT(60) DEF Inv, TxSame, TxRing, TxFull, TxLen

LEMMA InKept == Inv /\ InSame => InRing'
BY ZenonT(60) DEF Inv, InSame, InRing, Dist, Edit

\* A reader that holds cons.lock releases it.
LEMMA Released ==
  ASSUME Types, Locks, NEW p \in Readers, pc[p] \in {"loop", "sleep"},
         NEW v \in {"user", "asleep"}, consLock' = None, pc' = [pc EXCEPT ![p] = v],
         txLock' = txLock, ipc' = ipc
  PROVE  Locks'
<1>1. consLock = p
  BY DEF Locks
<1>2. pc'[p] = v /\ \A q \in Procs \ {p} : pc'[q] = pc[q]
  BY DEF Types
<1>3. \A q \in Readers : pc'[q] \notin {"loop", "sleep"}
  <2>1. \A q \in Readers \ {p} : pc[q] \notin {"loop", "sleep"}
    BY <1>1 DEF Locks
  <2> QED
    BY <1>2, <2>1
<1>4. ipc \notin {"echo", "echosend"}
  BY <1>1 DEF Locks
<1>5. \A q \in Writers : pc'[q] = pc[q]
  BY <1>2
<1> QED
  BY <1>3, <1>4, <1>5 DEF Locks

-----------------------------------------------------------------------------
(* One lemma per action: it preserves the invariant.  First the actions    *)
(* that change neither buffer.                                             *)

LEMMA ReadCallInv ==
  ASSUME Inv, NEW p \in Readers, NEW k, ReadCall(p, k)
  PROVE  Inv'
<1> USE DEF Inv
<1>1. InSame /\ InRing'
  BY InKept DEF InSame, ReadCall
<1>2. TxSame /\ TxRing' /\ (TxFull' <=> TxFull)
  BY TxKept DEF TxSame, ReadCall
<1>3. Types'
  BY <1>1, <1>2 DEF ReadCall, Types, InSame, TxSame
<1>4. Locks'
  BY <1>1, <1>2 DEF ReadCall, Types, Locks
<1>5. Sleepers'
  BY <1>1, <1>2 DEF ReadCall, Types, Locks, Sleepers, InSame
<1>6. Sending'
  BY <1>1, <1>2 DEF ReadCall, Types, Locks, Sending, Sends
<1> QED
  BY <1>1, <1>2, <1>3, <1>4, <1>5, <1>6

LEMMA ReadAcquireInv ==
  ASSUME Inv, NEW p \in Readers, ReadAcquire(p)
  PROVE  Inv'
<1> USE DEF Inv
<1>1. InSame /\ InRing'
  BY InKept DEF InSame, ReadAcquire
<1>2. TxSame /\ TxRing' /\ (TxFull' <=> TxFull)
  BY TxKept DEF TxSame, ReadAcquire
<1>3. Types'
  BY <1>1, <1>2 DEF ReadAcquire, Types, InSame, TxSame
<1>4. Locks'
  BY <1>1, <1>2 DEF ReadAcquire, Types, Locks
<1>5. Sleepers'
  BY <1>1, <1>2 DEF ReadAcquire, Types, Locks, Sleepers, InSame
<1>6. Sending'
  BY <1>1, <1>2 DEF ReadAcquire, Types, Locks, Sending, Sends
<1> QED
  BY <1>1, <1>2, <1>3, <1>4, <1>5, <1>6

LEMMA ReadEmptyInv ==
  ASSUME Inv, NEW p \in Readers, ReadEmpty(p)
  PROVE  Inv'
<1> USE DEF Inv
<1>1. InSame /\ InRing'
  BY InKept DEF InSame, ReadEmpty, Leave
<1>2. TxSame /\ TxRing' /\ (TxFull' <=> TxFull)
  BY TxKept DEF TxSame, ReadEmpty, Leave
<1>3. Types'
  BY <1>1, <1>2 DEF ReadEmpty, Leave, Types, InSame, TxSame
<1>4. Locks'
  <2>1. CASE Leave(p)
    BY <2>1, Released DEF ReadEmpty, Leave
  <2>2. CASE ~Leave(p)
    BY <2>2 DEF ReadEmpty, Types, Locks
  <2> QED
    BY <2>1, <2>2
<1>5. Sleepers'
  BY <1>1, <1>2 DEF ReadEmpty, Leave, Types, Locks, Sleepers, InSame
<1>6. Sending'
  BY <1>1, <1>2 DEF ReadEmpty, Leave, Types, Locks, Sending, Sends
<1> QED
  BY <1>1, <1>2, <1>3, <1>4, <1>5, <1>6

LEMMA ReadSleepInv ==
  ASSUME Inv, NEW p \in Readers, ReadSleep(p)
  PROVE  Inv'
<1> USE DEF Inv
<1>1. InSame /\ InRing'
  BY InKept DEF InSame, ReadSleep
<1>2. TxSame /\ TxRing' /\ (TxFull' <=> TxFull)
  BY TxKept DEF TxSame, ReadSleep
<1>3. Types'
  BY <1>1, <1>2 DEF ReadSleep, Types, InSame, TxSame
<1>4. Locks'
  BY Released DEF ReadSleep
<1>5. Sleepers'
  BY <1>1, <1>2 DEF ReadSleep, Types, Locks, Sleepers, InSame
<1>6. Sending'
  BY <1>1, <1>2 DEF ReadSleep, Types, Locks, Sending, Sends
<1> QED
  BY <1>1, <1>2, <1>3, <1>4, <1>5, <1>6

LEMMA ReadDoneInv ==
  ASSUME Inv, NEW p \in Readers, ReadDone(p)
  PROVE  Inv'
<1> USE DEF Inv
<1>1. InSame /\ InRing'
  BY InKept DEF InSame, ReadDone, Leave
<1>2. TxSame /\ TxRing' /\ (TxFull' <=> TxFull)
  BY TxKept DEF TxSame, ReadDone, Leave
<1>3. Types'
  BY <1>1, <1>2 DEF ReadDone, Leave, Types, InSame, TxSame
<1>4. Locks'
  BY Released DEF ReadDone, Leave
<1>5. Sleepers'
  BY <1>1, <1>2 DEF ReadDone, Leave, Types, Locks, Sleepers, InSame
<1>6. Sending'
  BY <1>1, <1>2 DEF ReadDone, Leave, Types, Locks, Sending, Sends
<1> QED
  BY <1>1, <1>2, <1>3, <1>4, <1>5, <1>6

LEMMA WriteCallInv ==
  ASSUME Inv, NEW p \in Writers, NEW c \in Bytes, WriteCall(p, c)
  PROVE  Inv'
<1> USE DEF Inv
<1>1. InSame /\ InRing'
  BY InKept DEF InSame, WriteCall
<1>2. TxSame /\ TxRing' /\ (TxFull' <=> TxFull)
  BY TxKept DEF TxSame, WriteCall
<1>3. Types'
  BY <1>1, <1>2 DEF WriteCall, Types, InSame, TxSame
<1>4. Locks'
  BY <1>1, <1>2 DEF WriteCall, Types, Locks
<1>5. Sleepers'
  BY <1>1, <1>2 DEF WriteCall, Types, Locks, Sleepers, InSame
<1>6. Sending'
  BY <1>1, <1>2 DEF WriteCall, Types, Locks, Sending, Sends
<1> QED
  BY <1>1, <1>2, <1>3, <1>4, <1>5, <1>6

LEMMA WriteFullInv ==
  ASSUME Inv, NEW p \in Writers, WriteFull(p)
  PROVE  Inv'
<1> USE DEF Inv
<1>1. InSame /\ InRing'
  BY InKept DEF InSame, WriteFull
<1>2. TxSame /\ TxRing' /\ (TxFull' <=> TxFull)
  BY TxKept DEF TxSame, WriteFull
<1>3. Types'
  BY <1>1, <1>2 DEF WriteFull, Types, InSame, TxSame
<1>4. Locks'
  BY <1>1, <1>2 DEF WriteFull, Types, Locks
<1>5. Sleepers'
  BY <1>1, <1>2 DEF WriteFull, Types, Locks, Sleepers, InSame
<1>6. Sending'
  BY <1>1, <1>2 DEF WriteFull, Types, Locks, Sending, Sends
<1> QED
  BY <1>1, <1>2, <1>3, <1>4, <1>5, <1>6

LEMMA StartDoneInv ==
  ASSUME Inv, NEW x \in Actors, StartDone(x)
  PROVE  Inv'
<1> USE DEF Inv
<1>1. InSame /\ InRing'
  BY InKept DEF InSame, StartDone, Running
<1>2. TxSame /\ TxRing' /\ (TxFull' <=> TxFull)
  BY TxKept DEF TxSame, StartDone, Running
<1>3. Types'
  BY <1>1, <1>2 DEF StartDone, Running, Types, InSame, TxSame
<1>4. Locks'
  BY <1>1, <1>2 DEF StartDone, Running, Types, Locks
<1>5. Sleepers'
  BY <1>1, <1>2 DEF StartDone, Running, Types, Locks, Sleepers, InSame
<1>6. Sending'
  BY <1>1, <1>2 DEF StartDone, Running, Types, Locks, Sending, Sends
<1> QED
  BY <1>1, <1>2, <1>3, <1>4, <1>5, <1>6

LEMMA StartSendInv ==
  ASSUME Inv, NEW x \in Actors, StartSend(x)
  PROVE  Inv'
<1> USE DEF Inv
<1>1. InSame /\ InRing'
  BY InKept DEF InSame, StartSend, Writing
<1>2. TxSame /\ TxRing' /\ (TxFull' <=> TxFull)
  BY TxKept DEF TxSame, StartSend, Writing
<1>3. Types'
  BY <1>1, <1>2, SMTT(60) DEF StartSend, Writing, Types, InSame, TxSame
<1>4. Locks'
  BY <1>1, <1>2 DEF StartSend, Writing, Types, Locks
<1>5. Sleepers'
  BY <1>1, <1>2 DEF StartSend, Writing, Types, Locks, Sleepers, InSame
<1>6. Sending'
  BY <1>1, <1>2, SMTT(60) DEF StartSend, Writing, Types, Locks, Sending, Sends
<1> QED
  BY <1>1, <1>2, <1>3, <1>4, <1>5, <1>6

LEMMA ClaimInv ==
  ASSUME Inv, Claim
  PROVE  Inv'
<1> USE DEF Inv
<1>1. InSame /\ InRing'
  BY InKept DEF InSame, Claim
<1>2. TxSame /\ TxRing' /\ (TxFull' <=> TxFull)
  BY TxKept DEF TxSame, Claim
<1>3. Types'
  BY <1>1, <1>2 DEF Claim, Types, InSame, TxSame
<1>4. Locks'
  BY <1>1, <1>2 DEF Claim, Types, Locks
<1>5. Sleepers'
  BY <1>1, <1>2 DEF Claim, Types, Locks, Sleepers, InSame
<1>6. Sending'
  BY <1>1, <1>2 DEF Claim, Types, Locks, Sending, Sends
<1> QED
  BY <1>1, <1>2, <1>3, <1>4, <1>5, <1>6

LEMMA NoKeyInv ==
  ASSUME Inv, NoKey
  PROVE  Inv'
<1> USE DEF Inv
<1>1. InSame /\ InRing'
  BY InKept DEF InSame, NoKey
<1>2. TxSame /\ TxRing' /\ (TxFull' <=> TxFull)
  BY TxKept DEF TxSame, NoKey
<1>3. Types'
  BY <1>1, <1>2 DEF NoKey, Types, InSame, TxSame
<1>4. Locks'
  BY <1>1, <1>2 DEF NoKey, Types, Locks
<1>5. Sleepers'
  BY <1>1, <1>2 DEF NoKey, Types, Locks, Sleepers, InSame
<1>6. Sending'
  BY <1>1, <1>2 DEF NoKey, Types, Locks, Sending, Sends
<1> QED
  BY <1>1, <1>2, <1>3, <1>4, <1>5, <1>6

LEMMA TransmitInv ==
  ASSUME Inv, Transmit
  PROVE  Inv'
<1> USE DEF Inv
<1>1. InSame /\ InRing'
  BY InKept DEF InSame, Transmit
<1>2. TxSame /\ TxRing' /\ (TxFull' <=> TxFull)
  BY TxKept DEF TxSame, Transmit
<1>3. Types'
  BY <1>1, <1>2 DEF Transmit, Types, InSame, TxSame
<1>4. Locks'
  BY <1>1, <1>2 DEF Transmit, Types, Locks
<1>5. Sleepers'
  BY <1>1, <1>2 DEF Transmit, Types, Locks, Sleepers, InSame
<1>6. Sending'
  BY <1>1, <1>2 DEF Transmit, Types, Locks, Sending, Sends
<1> QED
  BY <1>1, <1>2, <1>3, <1>4, <1>5, <1>6

LEMMA GetKeyInv ==
  ASSUME Inv, NEW c \in Keys \union Specials, GetKey(c)
  PROVE  Inv'
<1> USE DEF Inv
<1>1. InSame /\ InRing'
  BY InKept DEF InSame, GetKey
<1>2. TxSame /\ TxRing' /\ (TxFull' <=> TxFull)
  BY TxKept DEF TxSame, GetKey
<1>3. Types'
  BY <1>1, <1>2 DEF GetKey, Types, InSame, TxSame
<1>4. Locks'
  BY <1>1, <1>2 DEF GetKey, Types, Locks
<1>5. Sleepers'
  BY <1>1, <1>2 DEF GetKey, Types, Locks, Sleepers, InSame
<1>6. Sending'
  BY <1>1, <1>2 DEF GetKey, Types, Locks, Sending, Sends
<1> QED
  BY <1>1, <1>2, <1>3, <1>4, <1>5, <1>6

LEMMA ConsoleIntrInv ==
  ASSUME Inv, ConsoleIntr
  PROVE  Inv'
<1> USE DEF Inv
<1>1. InSame /\ InRing'
  BY InKept DEF InSame, ConsoleIntr
<1>2. TxSame /\ TxRing' /\ (TxFull' <=> TxFull)
  BY TxKept DEF TxSame, ConsoleIntr
<1>3. Types'
  BY <1>1, <1>2 DEF ConsoleIntr, Types, InSame, TxSame
<1>4. Locks'
  BY <1>1, <1>2 DEF ConsoleIntr, Types, Locks
<1>5. Sleepers'
  BY <1>1, <1>2 DEF ConsoleIntr, Types, Locks, Sleepers, InSame
<1>6. Sending'
  BY <1>1, <1>2 DEF ConsoleIntr, Types, Locks, Sending, Sends
<1> QED
  BY <1>1, <1>2, <1>3, <1>4, <1>5, <1>6

LEMMA EchoWaitInv ==
  ASSUME Inv, EchoWait
  PROVE  Inv'
<1> USE DEF Inv
<1>1. InSame /\ InRing'
  BY InKept DEF InSame, EchoWait
<1>2. TxSame /\ TxRing' /\ (TxFull' <=> TxFull)
  BY TxKept DEF TxSame, EchoWait
<1>3. Types'
  BY <1>1, <1>2 DEF EchoWait, Types, InSame, TxSame
<1>4. Locks'
  BY <1>1, <1>2 DEF EchoWait, Types, Locks
<1>5. Sleepers'
  BY <1>1, <1>2 DEF EchoWait, Types, Locks, Sleepers, InSame
<1>6. Sending'
  BY <1>1, <1>2, SMTT(60) DEF EchoWait, Types, Locks, Sending, Sends
<1> QED
  BY <1>1, <1>2, <1>3, <1>4, <1>5, <1>6

LEMMA EchoSendInv ==
  ASSUME Inv, EchoSend
  PROVE  Inv'
<1> USE DEF Inv
<1>1. InSame /\ InRing'
  BY InKept DEF InSame, EchoSend
<1>2. TxSame /\ TxRing' /\ (TxFull' <=> TxFull)
  BY TxKept DEF TxSame, EchoSend
<1>3. Types'
  BY <1>1, <1>2, SMTT(60) DEF EchoSend, Types, InSame, TxSame
<1>4. Locks'
  BY <1>1, <1>2 DEF EchoSend, Types, Locks
<1>5. Sleepers'
  BY <1>1, <1>2 DEF EchoSend, Types, Locks, Sleepers, InSame
<1>6. Sending'
  BY <1>1, <1>2, SMTT(60) DEF EchoSend, Types, Locks, Sending, Sends
<1> QED
  BY <1>1, <1>2, <1>3, <1>4, <1>5, <1>6

LEMMA KeyInv ==
  ASSUME Inv, Key
  PROVE  Inv'
<1> USE DEF Inv
<1>1. InSame /\ InRing'
  BY InKept DEF InSame, Key
<1>2. TxSame /\ TxRing' /\ (TxFull' <=> TxFull)
  BY TxKept DEF TxSame, Key
<1>3. Types'
  BY <1>1, <1>2 DEF Key, Types, InSame, TxSame
<1>4. Locks'
  BY <1>1, <1>2 DEF Key, Types, Locks
<1>5. Sleepers'
  BY <1>1, <1>2 DEF Key, Types, Locks, Sleepers, InSame
<1>6. Sending'
  BY <1>1, <1>2 DEF Key, Types, Locks, Sending, Sends
<1> QED
  BY <1>1, <1>2, <1>3, <1>4, <1>5, <1>6

LEMMA SentInv ==
  ASSUME Inv, Sent
  PROVE  Inv'
<1> USE DEF Inv
<1>1. InSame /\ InRing'
  BY InKept DEF InSame, Sent
<1>2. TxSame /\ TxRing' /\ (TxFull' <=> TxFull)
  BY TxKept DEF TxSame, Sent
<1>3. Types'
  BY <1>1, <1>2, SMTT(60) DEF Sent, Types, InSame, TxSame
<1>4. Locks'
  BY <1>1, <1>2 DEF Sent, Types, Locks
<1>5. Sleepers'
  BY <1>1, <1>2 DEF Sent, Types, Locks, Sleepers, InSame
<1>6. Sending'
  BY <1>1, <1>2, SMTT(60) DEF Sent, Types, Locks, Sending, Sends
<1> QED
  BY <1>1, <1>2, <1>3, <1>4, <1>5, <1>6

LEMMA KillInv ==
  ASSUME Inv, NEW p \in Readers, Kill(p)
  PROVE  Inv'
<1> USE DEF Inv
<1>1. InSame /\ InRing'
  BY InKept DEF InSame, Kill, Wake
<1>2. TxSame /\ TxRing' /\ (TxFull' <=> TxFull)
  BY TxKept DEF TxSame, Kill, Wake
<1>3. Types'
  BY <1>1, <1>2 DEF Kill, Wake, Types, InSame, TxSame
<1>4. Locks'
  BY <1>1, <1>2 DEF Kill, Wake, Types, Locks
<1>5. Sleepers'
  BY <1>1, <1>2 DEF Kill, Wake, Types, Locks, Sleepers, InSame
<1>6. Sending'
  BY <1>1, <1>2 DEF Kill, Wake, Types, Locks, Sending, Sends
<1> QED
  BY <1>1, <1>2, <1>3, <1>4, <1>5, <1>6

LEMMA KillWriterInv ==
  ASSUME Inv, NEW p \in Writers, KillWriter(p)
  PROVE  Inv'
<1> USE DEF Inv
<1>1. InSame /\ InRing'
  BY InKept DEF InSame, KillWriter, Wake
<1>2. TxSame /\ TxRing' /\ (TxFull' <=> TxFull)
  BY TxKept DEF TxSame, KillWriter, Wake
<1>3. Types'
  BY <1>1, <1>2 DEF KillWriter, Wake, Types, InSame, TxSame
<1>4. Locks'
  BY <1>1, <1>2 DEF KillWriter, Wake, Types, Locks
<1>5. Sleepers'
  BY <1>1, <1>2 DEF KillWriter, Wake, Types, Locks, Sleepers, InSame
<1>6. Sending'
  BY <1>1, <1>2 DEF KillWriter, Wake, Types, Locks, Sending, Sends
<1> QED
  BY <1>1, <1>2, <1>3, <1>4, <1>5, <1>6

LEMMA StutterInv == Inv /\ UNCHANGED vars => Inv'
<1> SUFFICES ASSUME Inv, UNCHANGED vars PROVE Inv'
  OBVIOUS
<1> USE DEF Inv
<1>1. InSame /\ InRing'
  BY InKept DEF InSame, vars
<1>2. TxSame /\ TxRing' /\ (TxFull' <=> TxFull)
  BY TxKept DEF TxSame, vars
<1>3. UNCHANGED <<consLock, txLock, pc, ch, ipc, fifo>>
  BY DEF vars
<1> QED
  BY <1>1, <1>2, <1>3 DEF Types, Locks, Sleepers, Sending, Sends, InSame, TxSame

\* Only uartputc() and uartstart() change the output buffer, only
\* consoleread() and consoleintr() the input buffer.
SomePut == \E p \in Writers : WriteByte(p)
SomeTake == \E x \in Actors : StartTake(x)
SomeRead == \E p \in Readers : ReadChar(p)

LEMMA OutputKept == [Next]_vars /\ ~SomePut /\ ~SomeTake => TxSame
<1> SUFFICES ASSUME [Next]_vars, ~SomePut, ~SomeTake PROVE TxSame
  OBVIOUS
<1> USE DEF TxSame
<1>1. ASSUME NEW x \in Actors, Uartstart(x) PROVE TxSame
  BY <1>1 DEF Uartstart, StartDone, StartSend, SomeTake
<1>2. ASSUME NEW p \in Readers,
             Read(p) \/ Kill(p) \/ \E k \in 1 .. MaxRead : ReadCall(p, k)
      PROVE  TxSame
  BY <1>2 DEF Read, ReadCall, ReadAcquire, ReadEmpty, ReadSleep, ReadChar, ReadDone,
     Kill
<1>3. ASSUME NEW p \in Writers,
             Write(p) \/ KillWriter(p) \/ \E c \in Bytes : WriteCall(p, c)
      PROVE  TxSame
  BY <1>1, <1>3 DEF Write, WriteCall, WriteFull, KillWriter, SomePut
<1>4. CASE Interrupt
  BY <1>1, <1>4 DEF Interrupt, Claim, ConsoleIntr, EchoWait, EchoSend, StoreKey,
     NoKey, Transmit, GetKey
<1>5. CASE Sent \/ Key \/ UNCHANGED vars
  BY <1>5 DEF Sent, Key, vars
<1> QED
  BY <1>2, <1>3, <1>4, <1>5 DEF Next

LEMMA InputKept == [Next]_vars /\ ~SomeRead /\ ~StoreKey => InSame
<1> SUFFICES ASSUME [Next]_vars, ~SomeRead, ~StoreKey PROVE InSame
  OBVIOUS
<1> USE DEF InSame
<1>1. ASSUME NEW x \in Actors, Uartstart(x) PROVE InSame
  BY <1>1 DEF Uartstart, StartDone, StartTake, StartSend
<1>2. ASSUME NEW p \in Readers,
             Read(p) \/ Kill(p) \/ \E k \in 1 .. MaxRead : ReadCall(p, k)
      PROVE  InSame
  BY <1>2 DEF Read, ReadCall, ReadAcquire, ReadEmpty, ReadSleep, ReadDone, Kill,
     SomeRead
<1>3. ASSUME NEW p \in Writers,
             Write(p) \/ KillWriter(p) \/ \E c \in Bytes : WriteCall(p, c)
      PROVE  InSame
  BY <1>1, <1>3 DEF Write, WriteCall, WriteFull, WriteByte, KillWriter
<1>4. CASE Interrupt
  BY <1>1, <1>4 DEF Interrupt, Claim, ConsoleIntr, EchoWait, EchoSend, NoKey,
     Transmit,
     GetKey
<1>5. CASE Sent \/ Key \/ UNCHANGED vars
  BY <1>5 DEF Sent, Key, vars
<1> QED
  BY <1>2, <1>3, <1>4, <1>5 DEF Next

-----------------------------------------------------------------------------
(* The output buffer: uartputc(), uartstart(), and that it is a bounded    *)
(* queue.                                                                  *)

Tx == INSTANCE Rings WITH Size <- UART_TX_BUF_SIZE, Modulus <- UINT64

LEMMA TxRings == Tx!RingSizes
BY ConsoleConstants, SMTT(60) DEF Tx!RingSizes

\* The test of uartputc(), and the length of the output, as a distance.
LEMMA TxFullIs ==
  ASSUME Types
  PROVE  /\ TxFull <=> Tx!Dist(txr, txw) = UART_TX_BUF_SIZE
         /\ Tx!Dist(txr, txw) \in Nat /\ TxLen = Tx!Dist(txr, txw)
<1>1. txr \in Tx!Index /\ txw \in Tx!Index
  BY DEF Types, Tx!Index
<1>2. UINT64 \in Nat /\ UINT64 > UART_TX_BUF_SIZE
  BY ConsoleConstants
<1>3. Tx!Dist(txr, txw) = IF txr <= txw THEN txw - txr ELSE txw + UINT64 - txr
  BY <1>1, Tx!DistIs, TxRings
<1>4. (txr + UART_TX_BUF_SIZE) % UINT64 =
        IF txr + UART_TX_BUF_SIZE < UINT64 THEN txr + UART_TX_BUF_SIZE
                                           ELSE txr + UART_TX_BUF_SIZE - UINT64
  BY <1>1, <1>2, SMTT(60) DEF Tx!Index
<1>5. TxLen = Tx!Dist(txr, txw) /\ Tx!Dist(txr, txw) \in Nat
  BY <1>1, Tx!Backwards, Tx!DistType, TxRings DEF TxLen
<1>6. TxFull <=> Tx!Dist(txr, txw) = UART_TX_BUF_SIZE
  BY <1>1, <1>2, <1>3, <1>4, SMTT(60) DEF TxFull, Tx!Index
<1> QED
  BY <1>5, <1>6

\* What the output ring is after a byte has gone in or come out.
LEMMA TxPut ==
  ASSUME Inv, ~TxFull, txw' = (txw + 1) % UINT64, txr' = txr
  PROVE  txw' \in Tx!Index /\ TxRing'
<1>1. txr \in Tx!Index /\ txw \in Tx!Index /\ txw' = Tx!Succ(txw)
  BY DEF Inv, Types, Tx!Index, Tx!Succ
<1>2. Tx!Dist(txr, txw) < UART_TX_BUF_SIZE /\ Tx!Dist(txr, txw) \in Nat
  BY TxFullIs, SMTT(60) DEF Inv, TxRing
<1>3. /\ Tx!Succ(txw) \in Tx!Index
      /\ Tx!Dist(txr, Tx!Succ(txw)) = Tx!Dist(txr, txw) + 1
  BY <1>1, <1>2, Tx!SuccIs, Tx!DistPut, TxRings
<1>4. Tx!Dist(txr, txw) + 1 <= UART_TX_BUF_SIZE
  BY <1>2, SMTT(60)
<1>5. TxLen' = Tx!Dist(txr, Tx!Succ(txw))
  BY <1>1, <1>3, Tx!Backwards, TxRings DEF TxLen
<1> QED
  BY <1>1, <1>3, <1>4, <1>5 DEF TxRing

LEMMA TxGet ==
  ASSUME Inv, txr # txw, txr' = (txr + 1) % UINT64, txw' = txw
  PROVE  txr' \in Tx!Index /\ TxRing'
<1>1. txr \in Tx!Index /\ txw \in Tx!Index /\ txr' = Tx!Succ(txr)
  BY DEF Inv, Types, Tx!Index, Tx!Succ
<1>2. Tx!Dist(txr, txw) <= UART_TX_BUF_SIZE /\ Tx!Dist(txr, txw) \in Nat
  BY TxFullIs DEF Inv, TxRing
<1>3. /\ Tx!Succ(txr) \in Tx!Index
      /\ Tx!Dist(Tx!Succ(txr), txw) = Tx!Dist(txr, txw) - 1
  BY <1>1, Tx!SuccIs, Tx!DistGet, TxRings
<1>4. Tx!Dist(txr, txw) - 1 <= UART_TX_BUF_SIZE
  BY <1>2, SMTT(60)
<1>5. TxLen' = Tx!Dist(Tx!Succ(txr), txw)
  BY <1>1, <1>3, Tx!Backwards, TxRings DEF TxLen
<1> QED
  BY <1>1, <1>3, <1>4, <1>5 DEF TxRing

LEMMA WriteByteInv ==
  ASSUME Inv, NEW p \in Writers, WriteByte(p)
  PROVE  Inv'
<1> USE DEF Inv
<1>1. InSame /\ InRing'
  BY InKept DEF InSame, WriteByte
<1>2. txw' \in Tx!Index /\ TxRing'
  BY TxPut DEF WriteByte
<1>3. /\ pc[p] = "acquire" /\ txLock = None /\ ~TxFull
      /\ txLock' = p /\ txr' = txr
      /\ ch' = [ch EXCEPT ![p] = None] /\ pc' = [pc EXCEPT ![p] = "start"]
      /\ UNCHANGED <<consLock, ipc, fifo>>
      /\ txbuf' = [txbuf EXCEPT ![txw % UART_TX_BUF_SIZE] = ch[p]]
  BY DEF WriteByte
<1>4. Types'
  BY <1>1, <1>2, <1>3 DEF Types, InSame, Tx!Index
<1>5. Locks'
  BY <1>3 DEF Types, Locks
<1>6. Sleepers'
  BY <1>1, <1>3 DEF Types, Locks, Sleepers, InSame
<1>7. Sending'
  BY <1>3 DEF Types, Locks, Sending, Sends
<1> QED
  BY <1>1, <1>2, <1>4, <1>5, <1>6, <1>7

LEMMA StartTakeInv ==
  ASSUME Inv, NEW x \in Actors, StartTake(x)
  PROVE  Inv'
<1> USE DEF Inv
<1>1. InSame /\ InRing'
  BY InKept DEF InSame, StartTake
<1>2. txr' \in Tx!Index /\ TxRing'
  BY TxGet DEF StartTake
<1>3. /\ Running(x) /\ fifo = 0 /\ txw' = txw /\ txbuf' = txbuf
      /\ ipc' = IF x = Handler THEN "thr" ELSE ipc
      /\ UNCHANGED <<consLock, txLock, fifo>>
      /\ ch' = [ch EXCEPT ![x] = txbuf[txr % UART_TX_BUF_SIZE]]
  BY DEF StartTake
<1>4. txbuf[txr % UART_TX_BUF_SIZE] \in Bytes \union {None}
  <2>1. txr % UART_TX_BUF_SIZE \in Tx!Slots
    BY TxRings, SMTT(60) DEF Types, Tx!Slots, Tx!RingSizes
  <2> QED
    BY <2>1 DEF Types, Tx!Slots
<1>5. /\ pc' \in [Procs -> ReaderPcs \union WriterPcs]
      /\ \A q \in Readers : pc'[q] = pc[q]
      /\ \A q \in Writers : pc'[q] = IF q = x THEN "thr"
                                     ELSE IF pc[q] = "asleep" THEN "acquire" ELSE pc[q]
  BY DEF StartTake, StartWakes, Wake, Types
<1>6. Types'
  BY <1>1, <1>2, <1>3, <1>4, <1>5 DEF Types, InSame, Running, Tx!Index
<1>7. Locks'
  BY <1>3, <1>5 DEF Types, Locks, Running
<1>8. Sleepers'
  BY <1>1, <1>5 DEF Sleepers, InSame
<1>9. Sending'
  BY <1>3, SMTT(60) DEF Sending
<1> QED
  BY <1>1, <1>2, <1>6, <1>7, <1>8, <1>9

\* The output as the content of a ring.
TxContent == Tx!Content(txbuf, txr, txw)

SameOutput == Output = TxContent

LEMMA OutputIs == Types => SameOutput
<1> SUFFICES ASSUME Types PROVE Output = TxContent
  BY DEF SameOutput
<1>1. TxLen = Tx!Dist(txr, txw) /\ Tx!Dist(txr, txw) \in Nat
  BY TxFullIs
<1>2. txr \in Int
  BY SMTT(60) DEF Types
<1>3. \A k \in 1 .. TxLen : txr + (k - 1) = txr + k - 1
  BY <1>1, <1>2, SMTT(60)
<1>4. \A k \in 1 .. TxLen : txbuf[(txr + (k - 1)) % UART_TX_BUF_SIZE]
                             = txbuf[(txr + k - 1) % UART_TX_BUF_SIZE]
  BY <1>3
<1> QED
  BY <1>1, <1>4 DEF Output, TxContent, Tx!Content, Tx!Slot

LEMMA PutRefines ==
  ASSUME Inv, NEW p \in Writers, WriteByte(p)
  PROVE  /\ Len(TxContent) < UART_TX_BUF_SIZE
         /\ \E c \in Bytes : TxContent' = Append(TxContent, c)
<1>1. /\ txr \in Tx!Index /\ txw \in Tx!Index /\ ch[p] \in Bytes
      /\ txbuf \in [Tx!Slots -> Bytes \union {None}]
  BY DEF Inv, Types, Tx!Index, Tx!Slots, WriteByte
<1>2. /\ txr' = txr /\ txw' = Tx!Succ(txw) /\ ~TxFull
      /\ txbuf' = [txbuf EXCEPT ![txw % UART_TX_BUF_SIZE] = ch[p]]
  BY DEF WriteByte, Tx!Succ
<1>3. Tx!Dist(txr, txw) < UART_TX_BUF_SIZE /\ Tx!Dist(txr, txw) \in Nat
  BY <1>2, TxFullIs, SMTT(60) DEF Inv, TxRing
<1>4. txw % UART_TX_BUF_SIZE \in Tx!Slots
  BY <1>1, TxRings, SMTT(60) DEF Tx!Index, Tx!Slots, Tx!RingSizes
<1>5. /\ txbuf'[txw % UART_TX_BUF_SIZE] = ch[p]
      /\ \A d \in Tx!Slots \ {txw % UART_TX_BUF_SIZE} : txbuf'[d] = txbuf[d]
  BY <1>1, <1>2, <1>4
<1>6. Tx!Puts(txbuf, txbuf', txr, txw, ch[p])
  BY <1>1, <1>3, <1>5, Tx!ContentPut, TxRings
<1>7. Len(TxContent) = Tx!Dist(txr, txw)
  <2>1. Tx!Lists(TxContent, Bytes \union {None}, txbuf, txr, txw)
    BY <1>1, Tx!ContentType, TxRings DEF TxContent
  <2> QED
    BY <2>1 DEF Tx!Lists
<1>8. TxContent' = Append(TxContent, ch[p])
  BY <1>2, <1>6 DEF TxContent, Tx!Puts
<1> QED
  BY <1>1, <1>3, <1>7, <1>8

LEMMA GetRefines ==
  ASSUME Inv, NEW x \in Actors, StartTake(x)
  PROVE  TxContent # <<>> /\ TxContent' = Tail(TxContent)
<1>1. txr \in Tx!Index /\ txw \in Tx!Index /\ txr # txw
  BY DEF Inv, Types, Tx!Index, Tx!Slots, StartTake
<1>2. txr' = Tx!Succ(txr) /\ txw' = txw /\ txbuf' = txbuf
  BY DEF StartTake, Tx!Succ
<1>3. /\ Tx!Content(txbuf, txr, txw) # <<>>
      /\ Tx!Content(txbuf, Tx!Succ(txr), txw) = Tail(Tx!Content(txbuf, txr, txw))
  BY <1>1, Tx!ContentGet, TxRings
<1> QED
  BY <1>2, <1>3 DEF TxContent

LEMMA OutputRefines == Inv /\ Inv' /\ [Next]_vars => [TX!Next]_Output
<1> SUFFICES ASSUME Inv, Inv', [Next]_vars PROVE [TX!Next]_Output
  OBVIOUS
<1>1. Output = TxContent /\ Output' = TxContent'
  <2>1. Types /\ Types'
    BY DEF Inv
  <2>2. SameOutput /\ SameOutput'
    BY <2>1, OutputIs, PTL
  <2> QED
    BY <2>2 DEF SameOutput
<1>2. CASE SomePut
  BY <1>1, <1>2, PutRefines DEF SomePut, TX!Next, TX!Put
<1>3. CASE SomeTake
  BY <1>1, <1>3, GetRefines DEF SomeTake, TX!Next, TX!Get
<1>4. CASE ~SomePut /\ ~SomeTake
  <2>1. TxContent' = TxContent
    BY <1>4, OutputKept DEF TxSame, TxContent
  <2> QED
    BY <1>1, <2>1
<1> QED
  BY <1>2, <1>3, <1>4

-----------------------------------------------------------------------------
(* The input buffer: consoleread(), consoleintr(), and that it is a        *)
(* readable queue and a line that is edited.                               *)

In == INSTANCE Rings WITH Size <- INPUT_BUF_SIZE, Modulus <- UINT

LEMMA InRings == In!RingSizes
BY ConsoleConstants, SMTT(60) DEF In!RingSizes

\* The queue and the line as contents of a ring.
Readable == In!Content(buf, r, w)
Line == In!Content(buf, w, e)

SameInput ==
  /\ Dist(r, w) = In!Dist(r, w) /\ Dist(w, e) = In!Dist(w, e)
  /\ Dist(r, e) = In!Dist(r, e)
  /\ Queue = Readable /\ Edit = Line

LEMMA InputIs == Types => SameInput
<1> SUFFICES ASSUME Types PROVE SameInput
  OBVIOUS
<1>0. r \in In!Index /\ w \in In!Index /\ e \in In!Index
  BY DEF Types, In!Index
<1>1. /\ Dist(r, w) = In!Dist(r, w) /\ Dist(w, e) = In!Dist(w, e)
      /\ Dist(r, e) = In!Dist(r, e)
  BY <1>0, In!Backwards, InRings DEF Dist
<1>2. r \in Int /\ w \in Int /\ In!Dist(r, w) \in Nat /\ In!Dist(w, e) \in Nat
  BY <1>0, In!DistType, InRings, SMTT(60) DEF In!Index
<1>3. /\ \A i \in 1 .. In!Dist(r, w) : r + (i - 1) = r + i - 1
      /\ \A i \in 1 .. In!Dist(w, e) : w + (i - 1) = w + i - 1
  BY <1>2, SMTT(60)
<1>4. /\ \A i \in 1 .. In!Dist(r, w) : buf[(r + (i - 1)) % INPUT_BUF_SIZE]
                                       = buf[(r + i - 1) % INPUT_BUF_SIZE]
      /\ \A i \in 1 .. In!Dist(w, e) : buf[(w + (i - 1)) % INPUT_BUF_SIZE]
                                       = buf[(w + i - 1) % INPUT_BUF_SIZE]
  BY <1>3
<1>5. Queue = Readable
  BY <1>1, <1>4 DEF Queue, Readable, In!Content, In!Slot
<1>6. Edit = Line
  BY <1>1, <1>4 DEF Edit, Line, In!Content, In!Slot
<1> QED
  BY <1>1, <1>5, <1>6 DEF SameInput

\* InRing, said of the ring.
InShape ==
  /\ In!Ordered(r, w, e) /\ In!Dist(r, e) <= INPUT_BUF_SIZE
  /\ \A k \in 1 .. In!Dist(w, e) : Line[k] # "newline"

LEMMA InIs == Types => (InRing <=> InShape)
BY InputIs DEF SameInput, InRing, InShape, In!Ordered

LEMMA InvShape == Inv => InShape
BY InIs DEF Inv

\* The distances between the indices of the input.
LEMMA InDists ==
  ASSUME Inv
  PROVE  /\ In!Dist(r, w) \in Nat /\ In!Dist(w, e) \in Nat /\ In!Dist(r, e) \in Nat
         /\ In!Dist(r, w) + In!Dist(w, e) = In!Dist(r, e)
         /\ In!Dist(r, e) <= INPUT_BUF_SIZE
         /\ r # w => r # e /\ In!Dist(r, w) > 0
         /\ e # w => r # e /\ In!Dist(w, e) > 0
         /\ Dist(r, w) = In!Dist(r, w) /\ Dist(w, e) = In!Dist(w, e)
         /\ Dist(r, e) = In!Dist(r, e)
<1>1. r \in In!Index /\ w \in In!Index /\ e \in In!Index
  BY DEF Inv, Types, In!Index
<1>2. In!Dist(r, w) \in Nat /\ In!Dist(w, e) \in Nat /\ In!Dist(r, e) \in Nat
  BY <1>1, In!DistType, InRings
<1>3. /\ Dist(r, w) = In!Dist(r, w) /\ Dist(w, e) = In!Dist(w, e)
      /\ Dist(r, e) = In!Dist(r, e)
  BY InputIs DEF Inv, SameInput
<1>4. /\ In!Dist(r, w) = 0 => r = w
      /\ In!Dist(w, e) = 0 => w = e
      /\ r = e => In!Dist(r, e) = 0
  <2>1. UINT \in Nat
    BY ConsoleConstants
  <2>2. /\ In!Dist(r, w) = IF r <= w THEN w - r ELSE w + UINT - r
        /\ In!Dist(w, e) = IF w <= e THEN e - w ELSE e + UINT - w
        /\ In!Dist(r, e) = IF r <= e THEN e - r ELSE e + UINT - r
    BY <1>1, In!DistIs, InRings
  <2> QED
    BY <1>1, <2>1, <2>2, SMTT(60) DEF In!Index
<1>5. /\ In!Dist(r, w) + In!Dist(w, e) = In!Dist(r, e)
      /\ In!Dist(r, e) <= INPUT_BUF_SIZE
  BY InvShape DEF InShape, In!Ordered
<1> QED
  BY <1>2, <1>3, <1>4, <1>5, SMTT(60)

\* A reader takes a character.
LEMMA InTake ==
  ASSUME Inv, r # w, r' = (r + 1) % UINT, w' = w, e' = e, buf' = buf
  PROVE  r' \in In!Index /\ InShape'
<1>1. r \in In!Index /\ w \in In!Index /\ e \in In!Index /\ r' = In!Succ(r)
  BY DEF Inv, Types, In!Index, In!Slots, In!Succ
<1>2. /\ r' \in In!Index /\ In!Dist(r', w) = In!Dist(r, w) - 1
      /\ In!Dist(r', e) = In!Dist(r, e) - 1
  BY <1>1, InDists, In!SuccIs, In!DistGet, InRings
<1>3. /\ In!Dist(r', w) + In!Dist(w, e) = In!Dist(r', e)
      /\ In!Dist(r', e) <= INPUT_BUF_SIZE
  BY <1>2, InDists, SMTT(60)
<1> QED
  BY <1>2, <1>3, InvShape DEF InShape, In!Ordered, Line

\* A character is taken back.
LEMMA InBack ==
  ASSUME Inv, e # w, e' = (e - 1) % UINT, r' = r, w' = w, buf' = buf
  PROVE  /\ e' \in In!Index /\ InShape' /\ In!Succ(e') = e
         /\ In!Dist(w, e) = In!Dist(w, e') + 1
<1>1. r \in In!Index /\ w \in In!Index /\ e \in In!Index
  BY DEF Inv, Types, In!Index, In!Slots
<1>2. e' \in In!Index /\ In!Succ(e') = e
  BY <1>1, In!PredIs, InRings
<1>3. In!Dist(w, e) = In!Dist(w, e') + 1 /\ In!Dist(r, e) = In!Dist(r, e') + 1
  <2>1. e # r
    BY InDists
  <2> QED
    BY <1>1, <1>2, <2>1, In!DistNext, InRings
<1>4. In!Dist(w, e') \in Nat /\ In!Dist(r, e') \in Nat
  BY <1>1, <1>2, In!DistType, InRings
<1>5. /\ In!Dist(r, w) + In!Dist(w, e') = In!Dist(r, e')
      /\ In!Dist(r, e') <= INPUT_BUF_SIZE
      /\ \A k \in 1 .. In!Dist(w, e') : k \in 1 .. In!Dist(w, e)
  BY <1>3, <1>4, InDists, SMTT(60)
<1>6. \A k \in 1 .. In!Dist(w, e') : Line'[k] # "newline"
  <2>1. \A k \in 1 .. In!Dist(w, e') : Line'[k] = Line[k]
    BY <1>5 DEF Line, In!Content
  <2> QED
    BY <1>5, <2>1, InvShape DEF InShape
<1> QED
  BY <1>2, <1>3, <1>5, <1>6 DEF InShape, In!Ordered

\* ^U takes back the whole line.
LEMMA WholeLine == Inv => Killed1 = In!Dist(w, e)
<1> SUFFICES ASSUME Inv PROVE Killed1 = In!Dist(w, e)
  OBVIOUS
<1> DEFINE d == In!Dist(w, e)
           Newline(k) == buf[(e - k - 1) % INPUT_BUF_SIZE] = "newline"
<1>1. w \in In!Index /\ e \in In!Index /\ d \in Nat /\ Dist(w, e) = d
  BY InDists DEF Inv, Types, In!Index, In!Slots
<1>2. ASSUME NEW k \in 0 .. d - 1
      PROVE  ~Newline(k)
  <2>1. (e - k - 1) % INPUT_BUF_SIZE = In!Slot(w, d - k - 1)
    BY <1>1, In!SlotBack, InRings DEF In!Window
  <2>2. d - k \in 1 .. d
    BY <1>1, SMTT(60)
  <2>3. Line[d - k] = buf[In!Slot(w, d - k - 1)]
    BY <2>2 DEF Line, In!Content
  <2> QED
    BY <2>1, <2>2, <2>3, InvShape DEF InShape
<1>3. d \in 0 .. d /\ \A k \in 0 .. d : k = d \/ k \in 0 .. d - 1
  BY <1>1, SMTT(60)
<1> HIDE DEF d, Newline
<1>4. \A k \in 0 .. d :
        ((k = d \/ Newline(k)) /\ \A j \in 0 .. k - 1 : ~Newline(j)) <=> k = d
  BY <1>2, <1>3
<1>5. d = CHOOSE k \in 0 .. d : /\ k = d \/ Newline(k)
                               /\ \A j \in 0 .. k - 1 : ~Newline(j)
  BY <1>3, <1>4
<1> QED
  BY <1>1, <1>5 DEF Killed1, Newline, d

LEMMA InSelf == \A i \in In!Index : In!Dist(i, i) = 0
<1>1. \A i \in In!Index : In!Dist(i, i) = IF i <= i THEN i - i ELSE i + UINT - i
  BY In!DistIs, InRings
<1> QED
  BY <1>1, SMTT(60) DEF In!Index

LEMMA InKill ==
  ASSUME Inv, e' = (e - Killed1) % UINT, r' = r, w' = w, buf' = buf
  PROVE  e' = w /\ e' \in In!Index /\ InShape' /\ In!Dist(w, w) = 0
<1>1. r \in In!Index /\ w \in In!Index /\ e \in In!Index
  BY DEF Inv, Types, In!Index, In!Slots
<1>2. e' = w
  BY <1>1, WholeLine, In!BackTo, InRings
<1>3. In!Dist(w, w) = 0
  BY <1>1, InSelf
<1>4. In!Dist(r, w) + 0 = In!Dist(r, w) /\ In!Dist(r, w) <= INPUT_BUF_SIZE
  BY InDists, SMTT(60)
<1>5. \A k \in 1 .. 0 : FALSE
  BY SMTT(60)
<1> QED
  BY <1>1, <1>2, <1>3, <1>4, <1>5 DEF InShape, In!Ordered

\* A key is stored.
LEMMA BufPut ==
  ASSUME Inv, Fits, NEW c \in Keys, buf' = [buf EXCEPT ![e % INPUT_BUF_SIZE] = c]
  PROVE  /\ In!Dist(r, e) < INPUT_BUF_SIZE /\ In!Dist(w, e) < INPUT_BUF_SIZE
         /\ buf' \in [In!Slots -> Keys \union {None}]
         /\ \A d \in In!Slots \ {e % INPUT_BUF_SIZE} : buf'[d] = buf[d]
         /\ In!Puts(buf, buf', r, e, c) /\ In!Puts(buf, buf', w, e, c)
<1>1. /\ r \in In!Index /\ w \in In!Index /\ e \in In!Index
      /\ buf \in [In!Slots -> Keys \union {None}]
  BY DEF Inv, Types, In!Index, In!Slots
<1>2. In!Dist(r, e) < INPUT_BUF_SIZE /\ In!Dist(w, e) < INPUT_BUF_SIZE
  BY InDists, SMTT(60) DEF Fits
<1>3. e % INPUT_BUF_SIZE \in In!Slots
  BY <1>1, InRings, SMTT(60) DEF In!Index, In!Slots, In!RingSizes
<1>4. /\ buf' \in [In!Slots -> Keys \union {None}]
      /\ buf'[e % INPUT_BUF_SIZE] = c
      /\ \A d \in In!Slots \ {e % INPUT_BUF_SIZE} : buf'[d] = buf[d]
  BY <1>1, <1>3
<1>5. In!Puts(buf, buf', r, e, c) /\ In!Puts(buf, buf', w, e, c)
  BY <1>1, <1>2, <1>4, In!ContentPut, InRings
<1> QED
  BY <1>2, <1>4, <1>5

LEMMA LineIs ==
  ASSUME Inv
  PROVE  Line \in Seq(Keys \union {None}) /\ Len(Line) = In!Dist(w, e)
<1>1. In!Lists(Line, Keys \union {None}, buf, w, e)
  BY In!ContentType, InRings DEF Inv, Types, In!Index, In!Slots, Line
<1> QED
  BY <1>1 DEF In!Lists

OneMore(i, j, k) ==
  i + (j + 1) = k + 1 /\ k + 1 <= INPUT_BUF_SIZE /\ (k + 1) + 0 = k + 1

LEMMA MoreFits ==
  ASSUME NEW i \in Nat, NEW j \in Nat, NEW k \in Nat, i + j = k, k < INPUT_BUF_SIZE
  PROVE  OneMore(i, j, k)
BY SMTT(60) DEF OneMore

\* When the line is complete it becomes readable.
LEMMA InPut ==
  ASSUME Inv, Fits, NEW c \in Keys,
         buf' = [buf EXCEPT ![e % INPUT_BUF_SIZE] = c], e' = (e + 1) % UINT,
         r' = r, w' = IF Complete(c) THEN e' ELSE w
  PROVE  w' \in In!Index /\ e' \in In!Index /\ InShape'
<1>1. r \in In!Index /\ w \in In!Index /\ e \in In!Index /\ e' = In!Succ(e)
  BY DEF Inv, Types, In!Index, In!Slots, In!Succ
<1>2. In!Dist(r, e) < INPUT_BUF_SIZE /\ In!Dist(w, e) < INPUT_BUF_SIZE
  BY BufPut
<1>3. /\ e' \in In!Index /\ In!Dist(r, e') = In!Dist(r, e) + 1
      /\ In!Dist(w, e') = In!Dist(w, e) + 1
  BY <1>1, <1>2, In!SuccIs, In!DistPut, InRings
<1>4. /\ In!Dist(r, w) + In!Dist(w, e') = In!Dist(r, e')
      /\ In!Dist(r, e') + 0 = In!Dist(r, e') /\ In!Dist(r, e') <= INPUT_BUF_SIZE
      /\ \A k \in 1 .. 0 : FALSE
  <2>1. OneMore(In!Dist(r, w), In!Dist(w, e), In!Dist(r, e))
    BY <1>2, InDists, MoreFits
  <2>2. \A l \in 1 .. 0 : FALSE
    BY SMTT(60)
  <2> QED
    BY <1>3, <2>1, <2>2 DEF OneMore
<1>5. CASE Complete(c)
  <2>1. In!Dist(e', e') = 0 /\ w' = e'
    BY <1>3, <1>5, InSelf
  <2> QED
    BY <1>3, <1>4, <2>1 DEF InShape, In!Ordered
<1>6. CASE ~Complete(c)
  <2> DEFINE d == In!Dist(w, e)
  <2>1. c # "newline" /\ w' = w
    BY <1>6 DEF Complete
  <2>2. Line' = Append(Line, c)
    <3>1. In!Puts(buf, buf', w, e, c)
      BY BufPut
    <3> QED
      BY <1>1, <2>1, <3>1 DEF Line, In!Puts
  <2>3. Line \in Seq(Keys \union {None}) /\ Len(Line) = d
    BY LineIs
  <2>4. \A k \in 1 .. d : Line[k] # "newline"
    BY InvShape DEF InShape
  <2> HIDE DEF d
  <2>5. \A k \in 1 .. d + 1 : Append(Line, c)[k] # "newline"
    BY <2>1, <2>3, <2>4, SMTT(60)
  <2>6. \A k \in 1 .. d + 1 : Line'[k] # "newline"
    BY <2>2, <2>5
  <2> QED
    BY <1>1, <1>3, <2>1, <1>4, <2>6 DEF InShape, In!Ordered, d
<1> QED
  BY <1>5, <1>6

LEMMA ReadCharInv ==
  ASSUME Inv, NEW p \in Readers, ReadChar(p)
  PROVE  Inv'
<1> USE DEF Inv
<1>1. TxSame /\ TxRing' /\ (TxFull' <=> TxFull)
  BY TxKept DEF TxSame, ReadChar
<1>2. /\ pc[p] = "loop" /\ r # w /\ UNCHANGED <<buf, w, e, txLock, ch, ipc, fifo>>
      /\ r' = r \/ r' = (r + 1) % UINT
      /\ \/ consLock' = None /\ pc' = [pc EXCEPT ![p] = "user"]
         \/ UNCHANGED <<consLock, pc>>
  BY DEF ReadChar, Leave
<1>3. r' \in 0 .. UINT - 1 /\ (InRing' \/ InShape')
  <2>1. CASE r' = r
    BY <1>2, <2>1, InKept DEF InSame, Types
  <2>2. CASE r' = (r + 1) % UINT
    BY <1>2, <2>2, InTake DEF In!Index
  <2> QED
    BY <1>2, <2>1, <2>2
<1>4. \A q \in Readers : pc'[q] \notin {"sleep", "asleep"}
  BY <1>2 DEF Types, Sleepers
<1>5. Types'
  BY <1>1, <1>2, <1>3 DEF Types, TxSame
<1>6. Locks'
  <2>1. CASE consLock' = None /\ pc' = [pc EXCEPT ![p] = "user"]
    BY <1>2, <2>1, Released
  <2>2. CASE UNCHANGED <<consLock, pc>>
    BY <1>2, <2>2 DEF Locks
  <2> QED
    BY <1>2, <2>1, <2>2
<1>7. Sleepers'
  BY <1>1, <1>2, <1>4 DEF Types, Sleepers
<1>8. Sending'
  BY <1>2 DEF Types, Sending, Sends
<1>9. InRing'
  BY <1>3, <1>5, InIs, PTL
<1> QED
  BY <1>1, <1>9, <1>5, <1>6, <1>7, <1>8

LEMMA StoreKeyInv ==
  ASSUME Inv, StoreKey
  PROVE  Inv'
<1> USE DEF Inv
<1>1. TxSame /\ TxRing' /\ (TxFull' <=> TxFull)
  BY TxKept DEF TxSame, StoreKey
<1>2. /\ ipc = "echo" /\ consLock' = None /\ ch' = [ch EXCEPT ![Handler] = None]
      /\ ipc' = "rx" /\ UNCHANGED <<r, txLock, fifo>>
  BY DEF StoreKey
<1>3. /\ buf' \in [0 .. INPUT_BUF_SIZE - 1 -> Keys \union {None}]
      /\ w' \in 0 .. UINT - 1 /\ e' \in 0 .. UINT - 1 /\ (InRing' \/ InShape')
      /\ \/ w' = w /\ pc' = pc
         \/ pc' = Wake(Readers)
  <2>1. CASE UNCHANGED <<buf, w, e, pc>>
    BY <1>2, <2>1, InKept DEF InSame, Types
  <2>2. CASE e' = (e - Killed1) % UINT /\ UNCHANGED <<buf, w, pc>>
    BY <1>2, <2>2, InKill DEF Types, In!Index
  <2>3. CASE e' = (IF e # w THEN (e - 1) % UINT ELSE e) /\ UNCHANGED <<buf, w, pc>>
    BY <1>2, <2>1, <2>3, InBack DEF Types, In!Index
  <2>4. ASSUME NEW c \in Keys, Fits, buf' = [buf EXCEPT ![e % INPUT_BUF_SIZE] = c],
               e' = (e + 1) % UINT, w' = IF Complete(c) THEN e' ELSE w,
               pc' = IF Complete(c) THEN Wake(Readers) ELSE pc
        PROVE  /\ buf' \in [0 .. INPUT_BUF_SIZE - 1 -> Keys \union {None}]
               /\ w' \in 0 .. UINT - 1 /\ e' \in 0 .. UINT - 1 /\ (InRing' \/ InShape')
               /\ \/ w' = w /\ pc' = pc
                  \/ pc' = Wake(Readers)
    BY <1>2, <2>4, BufPut, InPut DEF In!Index, In!Slots
  <2> QED
    BY <2>1, <2>2, <2>3, <2>4 DEF StoreKey
<1>4. /\ pc' \in [Procs -> ReaderPcs \union WriterPcs]
      /\ \A q \in Writers : pc'[q] = pc[q]
      /\ \A q \in Readers : \/ pc'[q] = pc[q]
                            \/ pc[q] = "asleep" /\ pc'[q] = "acquire"
  <2>1. pc \in [Procs -> ReaderPcs \union WriterPcs]
    BY DEF Types
  <2>2. CASE w' = w /\ pc' = pc
    BY <2>1, <2>2
  <2>3. CASE pc' = Wake(Readers)
    BY <2>1, <2>3 DEF Wake
  <2> QED
    BY <1>3, <2>2, <2>3
<1>5. \A q \in Readers : pc'[q] \in {"sleep", "asleep"} => r = w'
  <2>1. \A q \in Readers : pc[q] # "sleep"
    BY <1>2 DEF Locks
  <2>2. CASE w' = w /\ pc' = pc
    BY <2>2 DEF Sleepers
  <2>3. CASE pc' = Wake(Readers)
    BY <2>1, <2>3 DEF Wake
  <2> QED
    BY <1>3, <2>2, <2>3
<1>6. Types'
  BY <1>1, <1>2, <1>3, <1>4 DEF Types, TxSame
<1>7. Locks'
  BY <1>2, <1>4 DEF Locks
<1>8. Sleepers'
  BY <1>1, <1>2, <1>4, <1>5 DEF Sleepers
<1>9. Sending'
  BY <1>2, <1>4, SMTT(60) DEF Sending, Sends
<1>10. InRing'
  BY <1>3, <1>6, InIs, PTL
<1> QED
  BY <1>1, <1>10, <1>6, <1>7, <1>8, <1>9

LEMMA ReadableIs ==
  ASSUME Inv
  PROVE  Readable \in Seq(Keys \union {None}) /\ Len(Readable) = In!Dist(r, w)
<1>1. In!Lists(Readable, Keys \union {None}, buf, r, w)
  BY In!ContentType, InRings DEF Inv, Types, In!Index, In!Slots, Readable
<1> QED
  BY <1>1 DEF In!Lists

\* A line of no length is empty.
LEMMA NoLine ==
  ASSUME NEW ring, NEW i, NEW j, In!Dist(i, j) = 0
  PROVE  In!Content(ring, i, j) = <<>>
BY SMTT(60) DEF In!Content

LEMMA TakeRefines ==
  ASSUME Inv, NEW p \in Readers, ReadChar(p), r' # r
  PROVE  Readable # <<>> /\ Readable' = Tail(Readable) /\ Line' = Line
<1>1. r \in In!Index /\ w \in In!Index /\ r # w
  BY DEF Inv, Types, In!Index, In!Slots, ReadChar
<1>2. r' = In!Succ(r) /\ w' = w /\ e' = e /\ buf' = buf
  BY DEF ReadChar, In!Succ
<1>3. /\ In!Content(buf, r, w) # <<>>
      /\ In!Content(buf, In!Succ(r), w) = Tail(In!Content(buf, r, w))
  BY <1>1, In!ContentGet, InRings
<1> QED
  BY <1>2, <1>3 DEF Readable, Line

\* ^U
LEMMA KillRefines ==
  ASSUME Inv, e' = (e - Killed1) % UINT, r' = r, w' = w, buf' = buf
  PROVE  Line' = <<>> /\ Readable' = Readable
<1>1. e' = w /\ In!Dist(w, w) = 0
  BY InKill
<1>2. In!Content(buf, w, w) = <<>>
  BY <1>1, NoLine
<1> QED
  BY <1>1, <1>2 DEF Readable, Line

\* ^H
LEMMA BackspaceRefines ==
  ASSUME Inv, e # w, e' = (e - 1) % UINT, r' = r, w' = w, buf' = buf
  PROVE  /\ Line # <<>> /\ Line' = SubSeq(Line, 1, Len(Line) - 1)
         /\ Readable' = Readable
<1>1. /\ w \in In!Index /\ e' \in In!Index /\ In!Succ(e') = e
      /\ In!Dist(w, e) = In!Dist(w, e') + 1
      /\ buf \in [In!Slots -> Keys \union {None}]
  BY InBack DEF Inv, Types, In!Index, In!Slots
<1>2. In!Dist(w, e') \in Nat
  BY <1>1, In!DistType, InRings
<1>3. In!Dist(w, e') < INPUT_BUF_SIZE
  BY <1>1, <1>2, InDists, SMTT(60)
<1>4. In!Drops(buf, w, e')
  BY <1>1, <1>3, In!ContentLast, InRings
<1> QED
  BY <1>1, <1>4 DEF Line, Readable, In!Drops

LEMMA LongerLine ==
  ASSUME Inv, NEW c \in Keys
  PROVE  Append(Readable \o Line, c) = Readable \o Append(Line, c)
<1>1. PICK V : Readable \in Seq(V) /\ Line \in Seq(V) /\ c \in V
  BY ReadableIs, LineIs
<1>2. In!Appends(Readable, Line, c)
  BY <1>1, In!AppendConcat
<1> QED
  BY <1>2 DEF In!Appends

\* A character that is stored.
LEMMA EnterRefines ==
  ASSUME Inv, Fits, NEW c \in Keys,
         buf' = [buf EXCEPT ![e % INPUT_BUF_SIZE] = c], e' = (e + 1) % UINT,
         r' = r, w' = IF Complete(c) THEN e' ELSE w
  PROVE  /\ Len(Readable) + Len(Line) < INPUT_BUF_SIZE
         /\ IF \/ c \in {"newline", "eof"}
               \/ Len(Readable) + Len(Line) + 1 = INPUT_BUF_SIZE
              THEN Readable' = Readable \o Append(Line, c) /\ Line' = <<>>
              ELSE Line' = Append(Line, c) /\ Readable' = Readable
<1>1. /\ r \in In!Index /\ w \in In!Index /\ e \in In!Index /\ e' = In!Succ(e)
      /\ buf \in [In!Slots -> Keys \union {None}] /\ In!Ordered(r, w, e)
      /\ e' \in In!Index
  BY InPut, InvShape DEF Inv, Types, In!Index, In!Slots, InShape, In!Succ
<1>2. /\ In!Dist(r, e) < INPUT_BUF_SIZE
      /\ \A d \in In!Slots \ {e % INPUT_BUF_SIZE} : buf'[d] = buf[d]
      /\ In!Content(buf', r, In!Succ(e)) = Append(In!Content(buf, r, e), c)
      /\ In!Content(buf', w, In!Succ(e)) = Append(In!Content(buf, w, e), c)
  BY BufPut DEF In!Puts
<1>3. /\ Len(Readable) + Len(Line) = In!Dist(r, e)
      /\ Complete(c) <=> \/ c \in {"newline", "eof"}
                         \/ Len(Readable) + Len(Line) + 1 = INPUT_BUF_SIZE
  <2>1. Len(Readable) + Len(Line) = In!Dist(r, e) /\ Dist(r, e) = In!Dist(r, e)
    BY ReadableIs, LineIs, InDists
  <2> QED
    BY <2>1 DEF Complete
<1>4. CASE Complete(c)
  <2>1. In!Content(buf, r, e) = Readable \o Line
    <3>1. In!Joins(buf, r, w, e)
      BY <1>1, In!ContentJoin, InRings
    <3> QED
      BY <3>1 DEF Readable, Line, In!Joins
  <2>2. Append(Readable \o Line, c) = Readable \o Append(Line, c)
    BY LongerLine
  <2>3. Readable' = Readable \o Append(Line, c)
    BY <1>1, <1>2, <1>4, <2>1, <2>2 DEF Readable
  <2>4. In!Content(buf', e', e') = <<>>
    BY <1>1, InSelf, NoLine
  <2>5. Line' = <<>>
    BY <1>4, <2>4 DEF Line
  <2> QED
    BY <1>2, <1>3, <1>4, <2>3, <2>5
<1>5. CASE ~Complete(c)
  <2>1. In!Keeps(buf, buf', r, w)
    BY <1>1, <1>2, In!ContentOther, InRings
  <2>2. Readable' = Readable /\ Line' = Append(Line, c)
    BY <1>1, <1>2, <1>5, <2>1 DEF Readable, Line, In!Keeps
  <2> QED
    BY <1>2, <1>3, <1>5, <2>2
<1> QED
  BY <1>4, <1>5

LEMMA StoreKeyRefines ==
  ASSUME Inv, StoreKey
  PROVE  \/ Readable' = Readable /\ Line' = Line
         \/ Readable' = Readable /\ Line' = <<>>
         \/ /\ Readable' = Readable /\ Line # <<>>
            /\ Line' = SubSeq(Line, 1, Len(Line) - 1)
         \/ \E c \in Keys :
              /\ Len(Readable) + Len(Line) < INPUT_BUF_SIZE
              /\ IF \/ c \in {"newline", "eof"}
                    \/ Len(Readable) + Len(Line) + 1 = INPUT_BUF_SIZE
                   THEN Readable' = Readable \o Append(Line, c) /\ Line' = <<>>
                   ELSE Line' = Append(Line, c) /\ Readable' = Readable
<1>1. r' = r
  BY DEF StoreKey
<1>2. CASE UNCHANGED <<buf, w, e>>
  BY <1>1, <1>2 DEF Readable, Line
<1>3. CASE e' = (e - Killed1) % UINT /\ UNCHANGED <<buf, w>>
  BY <1>1, <1>3, KillRefines
<1>4. CASE e # w /\ e' = (e - 1) % UINT /\ UNCHANGED <<buf, w>>
  BY <1>1, <1>4, BackspaceRefines
<1>5. CASE \E c \in Keys : /\ Fits /\ buf' = [buf EXCEPT ![e % INPUT_BUF_SIZE] = c]
                            /\ e' = (e + 1) % UINT
                            /\ w' = IF Complete(c) THEN e' ELSE w
  <2>1. PICK c \in Keys : /\ Fits /\ buf' = [buf EXCEPT ![e % INPUT_BUF_SIZE] = c]
                          /\ e' = (e + 1) % UINT
                          /\ w' = IF Complete(c) THEN e' ELSE w
    BY <1>5
  <2> QED
    BY <1>1, <2>1, EnterRefines
<1> QED
  BY <1>2, <1>3, <1>4, <1>5 DEF StoreKey

LEMMA InputRefines == Inv /\ Inv' /\ [Next]_vars => [LI!Next]_<<Queue, Edit>>
<1> SUFFICES ASSUME Inv, Inv', [Next]_vars PROVE [LI!Next]_<<Queue, Edit>>
  OBVIOUS
<1>1. Queue = Readable /\ Edit = Line /\ Queue' = Readable' /\ Edit' = Line'
  <2>1. Types /\ Types'
    BY DEF Inv
  <2>2. SameInput /\ SameInput'
    BY <2>1, InputIs, PTL
  <2> QED
    BY <2>2 DEF SameInput
<1>2. CASE StoreKey
  BY <1>1, <1>2, StoreKeyRefines
     DEF LI!Next, LI!KillLine, LI!Backspace, LI!Enter
<1>3. CASE \E p \in Readers : ReadChar(p) /\ r' # r
  BY <1>1, <1>3, TakeRefines DEF LI!Next, LI!Take
<1>4. CASE InSame
  <2>1. Readable' = Readable /\ Line' = Line
    BY <1>4 DEF InSame, Readable, Line
  <2> QED
    BY <1>1, <2>1
<1>5. ASSUME NEW p \in Readers, ReadChar(p), r' = r PROVE InSame
  BY <1>5 DEF InSame, ReadChar
<1> QED
  BY <1>2, <1>3, <1>4, <1>5, InputKept DEF SomeRead

-----------------------------------------------------------------------------
(* The theorems.                                                           *)

LEMMA NextInv == Inv /\ [Next]_vars => Inv'
<1> SUFFICES ASSUME Inv, [Next]_vars PROVE Inv'
  OBVIOUS
<1>1. ASSUME NEW p \in Readers,
             Read(p) \/ Kill(p) \/ \E k \in 1 .. MaxRead : ReadCall(p, k)
      PROVE  Inv'
  BY <1>1, ReadCallInv, ReadAcquireInv, ReadEmptyInv, ReadSleepInv, ReadCharInv,
     ReadDoneInv, KillInv DEF Read
<1>2. ASSUME NEW x \in Actors, Uartstart(x)
      PROVE  Inv'
  BY <1>2, StartDoneInv, StartTakeInv, StartSendInv DEF Uartstart
<1>3. ASSUME NEW p \in Writers,
             Write(p) \/ KillWriter(p) \/ \E c \in Bytes : WriteCall(p, c)
      PROVE  Inv'
  BY <1>2, <1>3, WriteCallInv, WriteFullInv, WriteByteInv, KillWriterInv DEF Write
<1>4. CASE Interrupt
  BY <1>2, <1>4, ClaimInv, ConsoleIntrInv, EchoWaitInv, EchoSendInv, StoreKeyInv,
     NoKeyInv, TransmitInv, GetKeyInv DEF Interrupt
<1>5. CASE Sent \/ Key
  BY <1>5, SentInv, KeyInv
<1> QED
  BY <1>1, <1>3, <1>4, <1>5, StutterInv DEF Next

LEMMA ConsoleInvariant == Spec => []Inv
BY InitInv, NextInv, PTL DEF Spec

(* A reader sleeps in consoleread() only while nothing is readable, a      *)
(* writer in uartputc() only while the output buffer is full, and the UART *)
(* is never given more than the two characters of the race between         *)
(* uartstart() and uartputc_sync().                                        *)
THEOREM ConsoleSleepers == Spec => []SleepersMustWait
<1>1. Inv => SleepersMustWait
  BY DEF Inv, Sleepers, Sending, SleepersMustWait
<1> QED
  BY <1>1, ConsoleInvariant, PTL

(* The bytes that uartputc() accepts leave the output buffer once and in   *)
(* order, whoever runs uartstart() and however the indices wrap around:    *)
(* the buffer implements Fifo.                                             *)
THEOREM ConsoleImplementsTxFifo == Spec => ImplementsTxFifo
<1>1. Init => TX!Init
  <2> SUFFICES ASSUME Init PROVE TX!Init
    OBVIOUS
  <2>1. TxLen = 0
    BY SMTT(60), ConsoleConstants DEF Init, TxLen
  <2> QED
    BY <2>1, SMTT(60) DEF TX!Init, Output
<1> QED
  BY <1>1, ConsoleInvariant, OutputRefines, PTL
     DEF Spec, ImplementsTxFifo, TX!Spec

(* A key never overwrites what is not read, ^H and ^U never take back what *)
(* is readable, a line becomes readable as a whole and no later than it    *)
(* fills the buffer, and readers get it in order, for any size and however *)
(* the three indices wrap around: the input buffer implements LineInput.   *)
THEOREM ConsoleImplementsLineInput == Spec => ImplementsLineInput
<1>1. Init => LI!Init
  <2> SUFFICES ASSUME Init PROVE LI!Init
    OBVIOUS
  <2>1. SameInput
    BY InitInv, InputIs DEF Inv
  <2>2. In!Dist(r, w) = 0 /\ In!Dist(w, e) = 0
    <3>1. r \in In!Index /\ r = w /\ w = e
      BY InitInv DEF Inv, Types, Init, In!Index
    <3> QED
      BY <3>1, InSelf
  <2>3. Readable = <<>> /\ Line = <<>>
    BY <2>2, NoLine DEF Readable, Line
  <2> QED
    BY <2>1, <2>3 DEF SameInput, LI!Init
<1> QED
  BY <1>1, ConsoleInvariant, InputRefines, PTL
     DEF Spec, ImplementsLineInput, LI!Spec
=============================================================================
