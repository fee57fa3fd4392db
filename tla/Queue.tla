------------------------------- MODULE Queue --------------------------------
(***************************************************************************)
(* One queue of lib/queue.c and the calls on it, made one at a time (a     *)
(* queue protects nothing itself; its users do). ret is what the last call *)
(* returned.                                                               *)
(***************************************************************************)
EXTENDS Ring

CONSTANTS
  Data,       \* the pointers that are enqueued; NULL may be one of them
  Requested   \* the argument of queue_create

ASSUME RequestAssumption == Requested \in Nat /\ Requested <= 65536

VARIABLES q, ret, freed
qvars == <<q, ret, freed>>

Init == q = RingCreate(Requested) /\ ret = <<"created">> /\ freed = FALSE

Enqueue == \E d \in Data :
  /\ ~freed
  /\ IF RingFull(q)
     THEN ret' = <<"refused">> /\ UNCHANGED q
     ELSE q' = RingPut(q, d) /\ ret' = <<"stored">>
  /\ UNCHANGED freed

Dequeue ==
  /\ ~freed
  /\ IF RingEmpty(q)
     THEN ret' = <<"item", NULL>> /\ UNCHANGED q
     ELSE q' = RingTake(q) /\ ret' = <<"item", RingFront(q)>>
  /\ UNCHANGED freed

Peek ==
  /\ ~freed
  /\ ret' = <<"item", IF RingEmpty(q) THEN NULL ELSE RingFront(q)>>
  /\ UNCHANGED <<q, freed>>

Count == ~freed /\ ret' = <<"count", q.elem>> /\ UNCHANGED <<q, freed>>

Destroy ==
  /\ ~freed
  /\ IF RingEmpty(q) /\ q.elem = 0
     THEN freed' = TRUE /\ ret' = <<"freed">>
     ELSE ret' = <<"busy">> /\ UNCHANGED freed
  /\ UNCHANGED q

\* The storage is gone: no call is legal any more.
Gone == freed /\ UNCHANGED qvars

Next == Enqueue \/ Dequeue \/ Peek \/ Count \/ Destroy \/ Gone
Spec == Init /\ [][Next]_qvars

\* The queue is a FIFO of size - 1 elements (one less than the README's
\* "defined size"): no call reorders, loses or invents an element, whatever
\* the positions have wrapped to.
Fifo == INSTANCE BoundedFifo WITH items <- RingItems(q), Capacity <- RingSize(Requested) - 1
ImplementsFifo == Fifo!FSpec

\* The three counters never disagree: elem is the distance from head to tail,
\* and head = tail means empty, never full (queue_destroy tests both).
Consistent ==
  /\ q.head \in 0..(q.size - 1)
  /\ q.elem \in 0..(q.size - 1)
  /\ q.tail = Cell(q, q.elem)
=============================================================================
