-------------------------------- MODULE Pipe --------------------------------
(***************************************************************************)
(* struct pipe_s of kernel/pipe.c: a circular buffer of bytes, field for   *)
(* field the queue of lib/queue.c (size is its elem, mask its size - 1).   *)
(* These are the critical sections; the loops around them are the actions  *)
(* of the modules that use a pipe.                                         *)
(***************************************************************************)
EXTENDS Ring, Integers

CONSTANTS
  CharSigned,  \* is char a signed type on this target
  AllOnes      \* the byte 0xff

ASSUME PipeAssumption == CharSigned \in BOOLEAN

NoByte == -1      \* what ucx_pipe_get returns for an empty pipe

\* ucx_pipe_create, for a size whose power of two fits in its uint16_t.
PipeCreate(size) == RingCreate(size)

\* ucx_pipe_size, which takes no critical section.
PipeSize(pipe) == pipe.elem

\* ucx_pipe_flush
PipeFlush(pipe) == [pipe EXCEPT !.head = 0, !.tail = 0, !.elem = 0]

\* ucx_pipe_get: the pipe after it and the byte as its caller sees it. The byte
\* passes through a char: a signed one turns 0xff into -1, after it was taken.
PipeGet(pipe) ==
  IF RingEmpty(pipe) THEN [pipe |-> pipe, byte |-> NoByte]
  ELSE [pipe |-> RingTake(pipe),
        byte |-> IF CharSigned /\ RingFront(pipe) = AllOnes THEN NoByte ELSE RingFront(pipe)]

\* ucx_pipe_put, where it does not return -1.
PipePut(pipe, byte) == RingPut(pipe, byte)
PipeFull(pipe) == RingFull(pipe)
=============================================================================
