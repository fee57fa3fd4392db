-------------------------------- MODULE Ring --------------------------------
(***************************************************************************)
(* struct queue_s of lib/queue.c: a circular array of pointers whose size  *)
(* is a power of two. These are its operations on a queue value; Queue     *)
(* makes them the actions of one queue, Semaphore runs them inside the     *)
(* critical sections of semaphore.c.                                       *)
(***************************************************************************)
EXTENDS Naturals, Sequences

CONSTANT NULL      \* the null pointer, which an empty queue returns

\* queue_create: a size below 2 becomes 2, any other the next power of two
\* (up to the largest a uint16_t argument of a caller can ask for).
Powers == {2, 4, 8, 16, 32, 64, 128, 256, 512, 1024, 2048, 4096, 8192,
           16384, 32768, 65536}
RingSize(n) == CHOOSE p \in Powers : p >= n /\ \A r \in Powers : r >= n => p <= r

RingCreate(n) ==
  [size |-> RingSize(n), head |-> 0, tail |-> 0, elem |-> 0,
   pdata |-> [k \in 0..(RingSize(n) - 1) |-> NULL]]

\* (k + 1) & mask
Next1(q, k) == IF k + 1 = q.size THEN 0 ELSE k + 1

\* One cell stays free, to tell a full queue from an empty one.
RingFull_AllCells(q) == q.elem = q.size                             \* mutant
RingFull(q) == Next1(q, q.tail) = q.head
RingEmpty(q) == q.head = q.tail

RingPut(q, d) ==
  [q EXCEPT !.pdata = [@ EXCEPT ![q.tail] = d], !.tail = Next1(q, q.tail), !.elem = q.elem + 1]
RingTake_NoWrap(q) ==                                               \* mutant
  [q EXCEPT !.head = IF q.head + 1 < q.size THEN q.head + 1 ELSE q.head,
            !.elem = q.elem - 1]
RingTake(q) == [q EXCEPT !.head = Next1(q, q.head), !.elem = q.elem - 1]
RingFront(q) == q.pdata[q.head]

\* The elements, oldest first: what the cells from head on stand for.
Cell(q, k) == IF q.head + k < q.size THEN q.head + k ELSE (q.head + k) - q.size
RingItems(q) == [k \in 1..q.elem |-> q.pdata[Cell(q, k - 1)]]
=============================================================================
