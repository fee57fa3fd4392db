-------------------------------- MODULE Echo --------------------------------
(***************************************************************************)
(* Bytes on their way through two buffers: from the receive interrupt of   *)
(* drivers/uart/uart.c into its fifo, from there by tasks that open the    *)
(* device, read what has arrived and write it to a pipe of kernel/pipe.c,  *)
(* and from the pipe to the task that prints them (app/echo.c). The system *)
(* is preemptive and its critical sections mask interrupts, as on the AVR  *)
(* this driver is for: every critical section is one step, and every read  *)
(* outside of one is a step of its own.                                    *)
(***************************************************************************)
EXTENDS Pipe

CONSTANTS
  Reader,     \* tasks that forward from the device to the pipe
  FifoSize,   \* rx_buffer_size, which uart_driver_init rounds but does not clamp
  PipeLength, \* the argument of ucx_pipe_create
  MaxFlushes, \* bound: flushes of the pipe
  Numbers     \* accepted bytes are numbered modulo Numbers

ASSUME EchoAssumption ==
  /\ {FifoSize, PipeLength, MaxFlushes, Numbers} \subseteq Nat
  /\ FifoSize \in 2..65536 /\ PipeLength <= 32768
  /\ Numbers >= 2 * RingSize(FifoSize) + RingSize(PipeLength)

VARIABLES
  rx,      \* the receive fifo: rx_head, rx_tail, rx_size, rx_buffer
  busy,    \* data->busy
  pipe,    \* the pipe
  step,    \* where each reader is
  buf,     \* the bytes it has read and not yet written
  left,    \* the bytes its uart_driver_read still has to return
  print,   \* where the printing task is
  asked,   \* the bytes its ucx_pipe_read still has to return
  sent,    \* history: the number of the next byte the interrupt accepts
  printed, \* history: the number of the next byte that leaves the pipe
  flushes  \* history: flushes so far

uart == <<rx, busy>>
reader == <<step, buf, left>>
printer == <<print, asked>>
history == <<sent, printed, flushes>>
vars == <<uart, pipe, reader, printer, history>>

\* The number k after n.
Nth(n, k) == IF n + k < Numbers THEN n + k ELSE (n + k) - Numbers

Init ==
  /\ rx = RingCreate(FifoSize) /\ busy = FALSE
  /\ pipe = PipeCreate(PipeLength)
  /\ step = [r \in Reader |-> "open"]
  /\ buf = [r \in Reader |-> <<>>] /\ left = [r \in Reader |-> 0]
  /\ print = "poll" /\ asked = 0
  /\ sent = 0 /\ printed = 0 /\ flushes = 0

--------------------------------------------------------------- \* the driver
\* put_fifo, called by the receive interrupt: a full fifo drops the byte.
Overrun_Off == FALSE                                                \* mutant
Overrun == RingFull(rx)

Receive ==
  /\ ~Overrun
  /\ rx' = RingPut(rx, sent)
  /\ sent' = Nth(sent, 1)
  /\ UNCHANGED <<busy, pipe, reader, printer, printed, flushes>>

\* uart_driver_open; a reader that is refused tries again.
Claim_Shared == TRUE                                                \* mutant
Claim == ~busy
Open(r) ==
  /\ step[r] = "open" /\ Claim
  /\ busy' = TRUE
  /\ step' = [step EXCEPT ![r] = "count"]
  /\ UNCHANGED <<rx, pipe, buf, left, printer, history>>

\* uart_driver_read of no bytes returns rx_size; the reader asks for as many.
ReadSize(r) ==
  /\ step[r] = "count"
  /\ left' = [left EXCEPT ![r] = rx.elem]
  /\ step' = [step EXCEPT ![r] = IF rx.elem = 0 THEN "close" ELSE "spin"]
  /\ UNCHANGED <<uart, pipe, buf, printer, history>>

\* while (data->rx_size == 0)
Spin(r) ==
  /\ step[r] = "spin" /\ rx.elem # 0
  /\ step' = [step EXCEPT ![r] = "get"]
  /\ UNCHANGED <<uart, pipe, buf, left, printer, history>>

\* get_fifo: a fifo that is empty by now returns 0, a byte nobody sent.
Get(r) ==
  /\ step[r] = "get"
  /\ rx' = IF RingEmpty(rx) THEN rx ELSE RingTake(rx)
  /\ buf' = [buf EXCEPT ![r] = Append(@, IF RingEmpty(rx) THEN NULL ELSE RingFront(rx))]
  /\ left' = [left EXCEPT ![r] = @ - 1]
  /\ step' = [step EXCEPT ![r] = IF left[r] = 1 THEN "write" ELSE "spin"]
  /\ UNCHANGED <<busy, pipe, printer, history>>

\* uart_driver_close, once all bytes are in the pipe.
Close(r) ==
  /\ step[r] = "close"
  /\ busy' = FALSE
  /\ step' = [step EXCEPT ![r] = "open"]
  /\ UNCHANGED <<rx, pipe, buf, left, printer, history>>

----------------------------------------------------------------- \* the pipe
\* One turn of the loop of ucx_pipe_write that does not find the pipe full; or
\* of ucx_pipe_nbwrite, whose caller writes the rest again.
Write(r) ==
  /\ step[r] = "write" /\ ~PipeFull(pipe)
  /\ pipe' = PipePut(pipe, Head(buf[r]))
  /\ buf' = [buf EXCEPT ![r] = Tail(@)]
  /\ step' = [step EXCEPT ![r] = IF Len(buf[r]) = 1 THEN "close" ELSE "write"]
  /\ UNCHANGED <<uart, left, printer, history>>

\* while (ucx_pipe_size(pipe) < 1), then the size once more for the argument.
Waiting_ForTwo == PipeSize(pipe) <= 1                               \* mutant
Waiting == PipeSize(pipe) < 1
Poll ==
  /\ print = "poll" /\ ~Waiting
  /\ print' = "size"
  /\ UNCHANGED <<uart, pipe, reader, asked, history>>
Ask ==
  /\ print = "size"
  /\ asked' = PipeSize(pipe)
  /\ print' = "read"
  /\ UNCHANGED <<uart, pipe, reader, history>>

\* One turn of the loop of ucx_pipe_read; ucx_pipe_nbread gives up where that
\* one goes on.
Took(byte) ==
  /\ printed' = Nth(printed, 1)
  /\ asked' = asked - 1
  /\ print' = IF asked = 1 THEN "poll" ELSE "read"
ReadByte ==
  /\ print = "read"
  /\ pipe' = PipeGet(pipe).pipe
  /\ IF PipeGet(pipe).byte = NoByte
     THEN UNCHANGED <<asked, printed>> /\ print' \in {"read", "poll"}
     ELSE Took(PipeGet(pipe).byte)
  /\ UNCHANGED <<uart, reader, sent, flushes>>

\* ucx_pipe_flush by the printing task between two reads.
Flushed == PipeFlush(pipe)
Flush ==
  /\ print = "poll" /\ PipeSize(pipe) >= 1
  /\ flushes < MaxFlushes /\ flushes' = flushes + 1
  /\ pipe' = Flushed
  /\ printed' = Nth(printed, pipe.elem)
  /\ UNCHANGED <<uart, reader, printer, sent>>

ReaderStep(r) ==
  Open(r) \/ ReadSize(r) \/ Spin(r) \/ Get(r) \/ Write(r) \/ Close(r)
PrinterStep == Poll \/ Ask \/ ReadByte

Next == Receive \/ PrinterStep \/ Flush \/ \E r \in Reader : ReaderStep(r)

Spec == Init /\ [][Next]_vars

\* The scheduler lets every ready task run again and again (ReadyRuns of
\* Kernel); no byte has to arrive and nobody has to flush.
LiveSpec == Spec /\ WF_vars(PrinterStep) /\ \A r \in Reader : WF_vars(ReaderStep(r))

-----------------------------------------------------------------------------
\* The bytes on their way, oldest first: the pipe, what a reader has in hand,
\* the fifo. Two readers never have bytes in hand at once.
Holders == {r \in Reader : buf[r] # <<>>}
InHand == IF Holders = {} THEN <<>> ELSE buf[CHOOSE r \in Holders : TRUE]
OnTheWay == RingItems(pipe) \o InHand \o RingItems(rx)

\* No byte that the interrupt accepted is lost, doubled, reordered or invented
\* between two buffers, three tasks and an interrupt: the bytes on their way
\* are exactly those from the next to be printed to the next to be accepted.
StreamIntact ==
  /\ \A r, s \in Holders : r = s
  /\ sent = Nth(printed, Len(OnTheWay))
  /\ \A k \in 1..Len(OnTheWay) : OnTheWay[k] = Nth(printed, k - 1)

\* A size that was read outside of any critical section is still safe to act
\* on: the bytes a reader or the printing task has counted are there when it
\* comes to take them, so neither loop ever spins and get_fifo never returns a
\* byte nobody sent.
CountedBytesArePresent ==
  /\ \A r \in Reader : step[r] \in {"spin", "get"} => left[r] >= 1 /\ rx.elem >= left[r]
  /\ print = "size" => PipeSize(pipe) >= 1
  /\ print = "read" => asked >= 1 /\ PipeSize(pipe) >= asked
  /\ rx.tail = Cell(rx, rx.elem) /\ pipe.tail = Cell(pipe, pipe.elem)

\* Every byte the interrupt accepted is printed or flushed in the end: a full
\* pipe holds up the readers and a held device the other reader, but the
\* printing task waits for neither. Numbers go round, so that number 0 stands
\* for every byte.
Travelling(n) == \E k \in 1..Len(OnTheWay) : OnTheWay[k] = n
EveryByteArrives == Travelling(0) ~> ~Travelling(0)
=============================================================================
