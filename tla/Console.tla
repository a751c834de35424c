------------------------------- MODULE Console -------------------------------
(***************************************************************************)
(* The console and the serial line (kernel/console.c, kernel/uart.c):      *)
(* processes in consoleread() and consolewrite(), the handler of the       *)
(* UART's interrupt, and the device.  cons.lock and uart_tx_lock are       *)
(* explicit; the registers are read and written without any lock by        *)
(* uartputc_sync(), so the check of LSR and the write of THR are separate  *)
(* steps.                                                                  *)
(***************************************************************************)
EXTENDS Integers, Sequences, FiniteSets

CONSTANTS Readers, Writers,
          Letters,            \* keys without a meaning of their own
          Bytes,              \* what processes write
          INPUT_BUF_SIZE, UART_TX_BUF_SIZE,
          UINT, UINT64,       \* indices of input and of output wrap at these
          MaxRead,            \* bound: the n of a read
          Handler, None       \* the interrupt handler, as the holder of a lock

Procs == Readers \union Writers

ASSUME ConsoleConstants ==
  /\ INPUT_BUF_SIZE \in Nat \ {0} /\ UART_TX_BUF_SIZE \in Nat \ {0}
  /\ UINT \in Nat /\ UINT > INPUT_BUF_SIZE /\ UINT % INPUT_BUF_SIZE = 0
  /\ UINT64 \in Nat /\ UINT64 > UART_TX_BUF_SIZE /\ UINT64 % UART_TX_BUF_SIZE = 0
  /\ Readers \intersect Writers = {} /\ {Handler, None} \intersect Procs = {}
  /\ Handler # None /\ MaxRead \in Nat \ {0}

VARIABLES buf, r, w, e,         \* cons: indices to read, write and edit at
          consLock,
          txbuf, txr, txw,      \* uart_tx_buf, uart_tx_r, uart_tx_w
          txLock,
          pc, killed,           \* a process
          n, target,            \* consoleread: bytes it still wants; n at first
          ch,                   \* the character in the hands of a process or of
                                \* the handler
          ipc, echo,            \* the handler: where; characters still to echo
          rhr, fifo, irq        \* UART: a key is received; characters to send; raised

cons == <<buf, r, w, e, consLock>>
tx == <<txbuf, txr, txw, txLock>>
reader == <<n, target>>
uart == <<rhr, fifo, irq>>
vars == <<cons, tx, pc, killed, reader, ch, ipc, echo, uart>>

Keys == Letters \union {"newline", "eof"}            \* what is stored
Specials == {"kill", "backspace", "proclist"}   \* ^U, ^H, ^P

Dist(i, j) == (j - i) % UINT
TxLen == (txw - txr) % UINT64

Wake(S) == [p \in Procs |-> IF p \in S /\ pc[p] = "asleep" THEN "acquire" ELSE pc[p]]

-----------------------------------------------------------------------------
(* consoleread                                                             *)

ReadCall(p, k) ==
  /\ pc[p] = "user"
  /\ n' = [n EXCEPT ![p] = k] /\ target' = [target EXCEPT ![p] = k]
  /\ pc' = [pc EXCEPT ![p] = "acquire"]
  /\ UNCHANGED <<cons, tx, killed, ch, ipc, echo, uart>>

ReadAcquire(p) ==
  /\ pc[p] = "acquire" /\ p \in Readers /\ consLock = None
  /\ consLock' = p
  /\ pc' = [pc EXCEPT ![p] = "loop"]
  /\ UNCHANGED <<buf, r, w, e, tx, killed, reader, ch, ipc, echo, uart>>

\* release() and return: a killed process exits before it is in user space
\* again, and another takes its place.
Leave(p) ==
  /\ consLock' = None
  /\ pc' = [pc EXCEPT ![p] = "user"]
  /\ killed' = [killed EXCEPT ![p] = 0]
  /\ n' = [n EXCEPT ![p] = 0] /\ target' = [target EXCEPT ![p] = 0]

\* No input: killed() comes before sleep(), which is another step.
ReadEmpty(p) ==
  /\ pc[p] = "loop" /\ n[p] > 0 /\ r = w
  /\ \/ killed[p] = 1 /\ Leave(p)
     \/ /\ killed[p] = 0
        /\ pc' = [pc EXCEPT ![p] = "sleep"]
        /\ UNCHANGED <<consLock, killed, reader>>
  /\ UNCHANGED <<buf, r, w, e, tx, ch, ipc, echo, uart>>

\* sleep(): cons.lock is released once the process cannot miss a wakeup.
ReadSleep(p) ==
  /\ pc[p] = "sleep"
  /\ consLock' = None
  /\ pc' = [pc EXCEPT ![p] = "asleep"]
  /\ UNCHANGED <<buf, r, w, e, tx, killed, reader, ch, ipc, echo, uart>>

\* One character: end-of-file is kept for the next read unless it is alone;
\* a failing copyout() loses the character.
ReadChar(p) ==
  LET c == buf[r % INPUT_BUF_SIZE] IN
  /\ pc[p] = "loop" /\ n[p] > 0 /\ r # w
  /\ \/ c = "eof" /\ r' = (IF n[p] < target[p] THEN r ELSE (r + 1) % UINT) /\ Leave(p)
     \/ c # "eof" /\ r' = (r + 1) % UINT /\ Leave(p)   \* newline or copyout()
     \/ /\ c \notin {"eof", "newline"} /\ r' = (r + 1) % UINT
        /\ n' = [n EXCEPT ![p] = @ - 1]
        /\ UNCHANGED <<consLock, pc, killed, target>>
  /\ UNCHANGED <<buf, w, e, tx, ch, ipc, echo, uart>>

ReadDone(p) ==
  /\ pc[p] = "loop" /\ n[p] = 0
  /\ Leave(p)
  /\ UNCHANGED <<buf, r, w, e, tx, ch, ipc, echo, uart>>

-----------------------------------------------------------------------------
(* consolewrite: uartputc() for each byte                                  *)

WriteCall(p, c) ==
  /\ pc[p] = "user"
  /\ ch' = [ch EXCEPT ![p] = c]
  /\ pc' = [pc EXCEPT ![p] = "acquire"]
  /\ UNCHANGED <<cons, tx, killed, reader, ipc, echo, uart>>

\* A bug: one byte too many.
TxFullLate == txw = (txr + UART_TX_BUF_SIZE + 1) % UINT64

TxFull == txw = (txr + UART_TX_BUF_SIZE) % UINT64

WriteFull(p) ==
  /\ pc[p] = "acquire" /\ p \in Writers /\ txLock = None /\ TxFull
  /\ pc' = [pc EXCEPT ![p] = "asleep"]
  /\ UNCHANGED <<cons, tx, killed, reader, ch, ipc, echo, uart>>

WriteByte(p) ==
  /\ pc[p] = "acquire" /\ p \in Writers /\ txLock = None /\ ~TxFull
  /\ txLock' = p
  /\ txbuf' = [txbuf EXCEPT ![txw % UART_TX_BUF_SIZE] = ch[p]]
  /\ txw' = (txw + 1) % UINT64
  /\ ch' = [ch EXCEPT ![p] = None]
  /\ pc' = [pc EXCEPT ![p] = "start"]
  /\ UNCHANGED <<cons, txr, killed, reader, ipc, echo, uart>>

-----------------------------------------------------------------------------
(* uartstart, by whoever holds uart_tx_lock; then the lock is released.    *)

Running(x) == (IF x = Handler THEN ipc ELSE pc[x]) = "start"
Writing(x) == (IF x = Handler THEN ipc ELSE pc[x]) = "thr"

StartDone(x) ==
  /\ Running(x) /\ (txr = txw \/ fifo > 0)
  /\ txLock' = None
  /\ IF x = Handler
       THEN ipc' = "none" /\ UNCHANGED pc
       ELSE pc' = [pc EXCEPT ![x] = "user"] /\ UNCHANGED ipc
  /\ UNCHANGED <<cons, txbuf, txr, txw, killed, reader, ch, echo, uart>>

\* A bug: nobody is told that there is room again.
NoneWoken(x) == IF x = Handler THEN pc ELSE [pc EXCEPT ![x] = "thr"]

StartWakes(x) == IF x = Handler THEN Wake(Writers) ELSE [Wake(Writers) EXCEPT ![x] = "thr"]

StartTake(x) ==
  /\ Running(x) /\ txr # txw /\ fifo = 0
  /\ ch' = [ch EXCEPT ![x] = txbuf[txr % UART_TX_BUF_SIZE]]
  /\ txr' = (txr + 1) % UINT64
  /\ pc' = StartWakes(x)
  /\ ipc' = IF x = Handler THEN "thr" ELSE ipc
  /\ UNCHANGED <<cons, txbuf, txw, txLock, killed, reader, echo, uart>>

StartSend(x) ==
  /\ Writing(x)
  /\ fifo' = fifo + 1
  /\ ch' = [ch EXCEPT ![x] = None]
  /\ IF x = Handler THEN ipc' = "start" /\ UNCHANGED pc
                    ELSE pc' = [pc EXCEPT ![x] = "start"] /\ UNCHANGED ipc
  /\ UNCHANGED <<cons, tx, killed, reader, echo, rhr, irq>>

-----------------------------------------------------------------------------
(* uartintr and consoleintr                                                *)

\* plic_claim()
Claim ==
  /\ ipc = "none" /\ irq = 1
  /\ irq' = 0
  /\ ipc' = "rx"
  /\ UNCHANGED <<cons, tx, pc, killed, reader, ch, echo, rhr, fifo>>

\* uartgetc() == -1: on to the output.
NoKey ==
  /\ ipc = "rx" /\ rhr = 0
  /\ ipc' = "tx"
  /\ UNCHANGED <<cons, tx, pc, killed, reader, ch, echo, uart>>

\* A bug: only uartputc() starts output.
TransmitNothing ==
  /\ ipc = "tx"
  /\ ipc' = "none"
  /\ UNCHANGED <<cons, tx, pc, killed, reader, ch, echo, uart>>

Transmit ==
  /\ ipc = "tx" /\ txLock = None
  /\ txLock' = Handler
  /\ ipc' = "start"
  /\ UNCHANGED <<cons, txbuf, txr, txw, pc, killed, reader, ch, echo, uart>>

\* ^U: characters up to the newline before, or to w.
Killed1 ==
  CHOOSE k \in 0 .. Dist(w, e) :
    /\ k = Dist(w, e) \/ buf[(e - k - 1) % INPUT_BUF_SIZE] = "newline"
    /\ \A j \in 0 .. k - 1 : buf[(e - j - 1) % INPUT_BUF_SIZE] # "newline"

Fits == Dist(r, e) < INPUT_BUF_SIZE

\* What consputc() echoes: \b, space and \b for each character taken back;
\* one character stands for the text of procdump().
EchoOf(c) ==
  CASE c = "proclist" -> 1
    [] c = "kill" -> 3 * Killed1
    [] c = "backspace" -> IF e # w THEN 3 ELSE 0
    [] OTHER -> IF Fits THEN 1 ELSE 0

\* uartgetc(): which key it is shows when it is read.
GetKey(c) ==
  /\ ipc = "rx" /\ rhr = 1
  /\ ch' = [ch EXCEPT ![Handler] = c]
  /\ rhr' = 0
  /\ ipc' = "key"
  /\ UNCHANGED <<cons, tx, pc, killed, reader, echo, fifo, irq>>

ConsoleIntr ==
  /\ ipc = "key" /\ consLock = None
  /\ consLock' = Handler
  /\ echo' = EchoOf(ch[Handler])
  /\ ipc' = "echo"
  /\ UNCHANGED <<buf, r, w, e, tx, pc, killed, reader, ch, uart>>

\* uartputc_sync(): wait for LSR_TX_IDLE, then write THR.
EchoWait ==
  /\ ipc = "echo" /\ echo > 0 /\ fifo = 0
  /\ ipc' = "echosend"
  /\ UNCHANGED <<cons, tx, pc, killed, reader, ch, echo, uart>>

EchoSend ==
  /\ ipc = "echosend"
  /\ fifo' = fifo + 1
  /\ echo' = echo - 1
  /\ ipc' = "echo"
  /\ UNCHANGED <<cons, tx, pc, killed, reader, ch, rhr, irq>>

\* A bug: a line longer than the buffer never becomes readable.
CompleteUnlessFull(c) == c \in {"newline", "eof"}

Complete(c) == c \in {"newline", "eof"} \/ Dist(r, e) + 1 = INPUT_BUF_SIZE

\* consoleintr(), the changes to cons, and release().
StoreKey ==
  LET c == ch[Handler] IN
  /\ ipc = "echo" /\ echo = 0
  /\ \/ c = "proclist" /\ UNCHANGED <<buf, w, e, pc>>
     \/ c = "kill" /\ e' = (e - Killed1) % UINT /\ UNCHANGED <<buf, w, pc>>
     \/ /\ c = "backspace"
        /\ e' = IF e # w THEN (e - 1) % UINT ELSE e
        /\ UNCHANGED <<buf, w, pc>>
     \/ c \in Keys /\ ~Fits /\ UNCHANGED <<buf, w, e, pc>>
     \/ /\ c \in Keys /\ Fits
        /\ buf' = [buf EXCEPT ![e % INPUT_BUF_SIZE] = c]
        /\ e' = (e + 1) % UINT
        /\ w' = IF Complete(c) THEN e' ELSE w
        /\ pc' = IF Complete(c) THEN Wake(Readers) ELSE pc
  /\ consLock' = None
  /\ ch' = [ch EXCEPT ![Handler] = None]
  /\ ipc' = "rx"
  /\ UNCHANGED <<r, tx, killed, reader, echo, uart>>

-----------------------------------------------------------------------------
(* The device, and kill()                                                  *)

Key ==
  /\ rhr = 0
  /\ rhr' = 1 /\ irq' = 1
  /\ UNCHANGED <<cons, tx, pc, killed, reader, ch, ipc, echo, fifo>>

\* The line takes a character; the UART interrupts when it is idle again.
Sent ==
  /\ fifo > 0
  /\ fifo' = fifo - 1
  /\ irq' = IF fifo = 1 THEN 1 ELSE irq
  /\ UNCHANGED <<cons, tx, pc, killed, reader, ch, ipc, echo, rhr>>

Kill(p) ==
  /\ killed[p] = 0 /\ pc[p] # "user"
  /\ killed' = [killed EXCEPT ![p] = 1]
  /\ pc' = Wake({p})
  /\ UNCHANGED <<cons, tx, reader, ch, ipc, echo, uart>>

\* uartputc() does not look at killed: kill() only wakes the writer up.
KillWriter(p) ==
  /\ pc[p] = "asleep"
  /\ pc' = Wake({p})
  /\ UNCHANGED <<cons, tx, killed, reader, ch, ipc, echo, uart>>

-----------------------------------------------------------------------------
Init ==
  /\ buf = [i \in 0 .. INPUT_BUF_SIZE - 1 |-> None]
  /\ r = 0 /\ w = 0 /\ e = 0 /\ consLock = None
  /\ txbuf = [i \in 0 .. UART_TX_BUF_SIZE - 1 |-> None]
  /\ txr = 0 /\ txw = 0 /\ txLock = None
  /\ pc = [p \in Procs |-> "user"] /\ killed = [p \in Readers |-> 0]
  /\ n = [p \in Readers |-> 0] /\ target = [p \in Readers |-> 0]
  /\ ch = [x \in Writers \union {Handler} |-> None]
  /\ ipc = "none" /\ echo = 0
  /\ rhr = 0 /\ fifo = 0 /\ irq = 0

Read(p) ==
  ReadAcquire(p) \/ ReadEmpty(p) \/ ReadSleep(p) \/ ReadChar(p) \/ ReadDone(p)

Uartstart(x) == StartDone(x) \/ StartTake(x) \/ StartSend(x)

Write(p) == WriteFull(p) \/ WriteByte(p) \/ Uartstart(p)

Interrupt ==
  \/ Claim \/ ConsoleIntr \/ EchoWait \/ EchoSend \/ StoreKey \/ NoKey \/ Transmit
  \/ Uartstart(Handler) \/ \E c \in Keys \union Specials : GetKey(c)

Next ==
  \/ \E p \in Readers : Read(p) \/ Kill(p) \/ \E k \in 1 .. MaxRead : ReadCall(p, k)
  \/ \E p \in Writers : Write(p) \/ KillWriter(p) \/ \E c \in Bytes : WriteCall(p, c)
  \/ Interrupt \/ Sent \/ Key

\* The line sends, the interrupt is taken, and a process that holds or can
\* get a lock goes on.  No fairness for keys, calls and kills.
Fairness ==
  /\ WF_vars(Sent) /\ WF_vars(Interrupt)
  /\ \A p \in Readers : WF_vars(Read(p))
  /\ \A p \in Writers : WF_vars(Write(p))

Spec == Init /\ [][Next]_vars /\ Fairness

-----------------------------------------------------------------------------
Queue == [i \in 1 .. Dist(r, w) |-> buf[(r + i - 1) % INPUT_BUF_SIZE]]
Edit == [i \in 1 .. Dist(w, e) |-> buf[(w + i - 1) % INPUT_BUF_SIZE]]

LI == INSTANCE LineInput WITH Size <- INPUT_BUF_SIZE, queue <- Queue, edit <- Edit

(* Between its three indices, which wrap around, the input buffer is a     *)
(* readable queue and a line that is edited: a key never overwrites what   *)
(* is not read, editing never takes back what is readable, and a line that *)
(* fills the buffer becomes readable.                                      *)
ImplementsLineInput == LI!Spec

Output == [i \in 1 .. TxLen |-> txbuf[(txr + i - 1) % UART_TX_BUF_SIZE]]

TX == INSTANCE Fifo WITH Cap <- UART_TX_BUF_SIZE, q <- Output

(* The output buffer is a bounded queue: uartstart(), called both by       *)
(* processes and by the interrupt, sends every byte of uartputc() once, in *)
(* order.                                                                  *)
ImplementsTxFifo == TX!Spec

(* Nobody sleeps on a condition that is false: a reader only while nothing *)
(* is readable, a writer only while the output buffer is full; and the     *)
(* UART, whose idle state an echo by uartputc_sync() tests without a lock, *)
(* never has more than the two characters of such a race to send.          *)
SleepersMustWait ==
  /\ \A p \in Readers : pc[p] = "asleep" => r = w
  /\ \A p \in Writers : pc[p] = "asleep" => TxFull
  /\ fifo <= 2

(* A full output buffer does not stay full: the UART interrupts, also when *)
(* the character it has sent was an echo, and the handler sends the next.  *)
(* Unless keys keep coming: uartintr() goes on to the output only once no  *)
(* key is waiting.                                                         *)
OutputMoves == TxFull ~> (~TxFull \/ rhr = 1)

=============================================================================
