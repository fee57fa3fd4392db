---------------------------- MODULE QueueProofs -----------------------------
(***************************************************************************)
(* The circular array of lib/queue.c is a FIFO, for every size a caller    *)
(* can ask for and every position head and tail have wrapped to.           *)
(***************************************************************************)
EXTENDS MessageQueue, RingProofs

Stored == Data \cup {NULL}

LEMMA StoredHas == NULL \in Stored /\ \A d \in Data : d \in Stored
BY DEF Stored

LEMMA RequestedSize == RingSize(Requested) \in CellCount
<1>1. Requested \in Sizes
  BY RequestAssumption DEF Sizes
<1>2. RingSize(Requested) \in Nat /\ RingSize(Requested) >= 2
  BY <1>1, SizeRange
<1> QED BY <1>2 DEF CellCount

(***************************************************************************)
(* The invariant, and the step of each call against the FIFO's.            *)
(***************************************************************************)
QueueInv == IsRing(q, RingSize(Requested), Stored) /\ freed \in BOOLEAN

LEMMA QueueInvInit == Init => QueueInv
<1>1. RingSize(Requested) \in CellCount
  BY RequestedSize
<1>2. IsRing(RingCreate(Requested), RingSize(Requested), Stored)
  BY <1>1, StoredHas, CreateIsRing
<1> QED BY <1>2 DEF Init, QueueInv

LEMMA QueueInvStep == QueueInv /\ [Next]_qvars => QueueInv'
<1> SUFFICES ASSUME QueueInv, [Next]_qvars PROVE QueueInv'
  OBVIOUS
<1> DEFINE N == RingSize(Requested)
<1>1. N \in CellCount /\ IsRing(q, N, Stored) /\ freed \in BOOLEAN
  BY RequestedSize DEF QueueInv
<1>2. freed' \in BOOLEAN
  BY <1>1 DEF Next, Enqueue, Dequeue, Peek, Count, Destroy, Gone, qvars
<1>3. UNCHANGED q \/ Enqueue \/ Dequeue
  BY DEF Next, Peek, Count, Destroy, Gone, qvars
<1>4. CASE UNCHANGED q
  BY <1>1, <1>2, <1>4 DEF QueueInv
<1>5. CASE Enqueue /\ ~RingFull(q)
  <2>1. \E d \in Data : q' = RingPut(q, d)
    BY <1>5 DEF Enqueue
  <2>2. IsRing(q', N, Stored)
    BY <1>1, <1>5, <2>1, StoredHas, PutAppends
  <2> QED BY <1>2, <2>2 DEF QueueInv
<1>6. CASE Dequeue /\ ~RingEmpty(q)
  <2>1. q' = RingTake(q)
    BY <1>6 DEF Dequeue
  <2>2. IsRing(q', N, Stored)
    BY <1>1, <1>6, <2>1, TakeIsTail
  <2> QED BY <1>2, <2>2 DEF QueueInv
<1> QED BY <1>3, <1>4, <1>5, <1>6 DEF Enqueue, Dequeue

\* Head, tail and elem agree after every sequence of calls.
THEOREM QueueConsistent == Spec => []Consistent
<1>1. QueueInv => Consistent
  BY DEF QueueInv, IsRing, Cells, Consistent
<1> QED BY <1>1, QueueInvInit, QueueInvStep, PTL DEF Spec

LEMMA FifoInit == Init => Fifo!FInit
<1> SUFFICES ASSUME Init PROVE Fifo!FInit
  OBVIOUS
<1>1. RingSize(Requested) \in CellCount
  BY RequestedSize
<1>2. RingItems(q) = <<>>
  <2>1. IsRing(q, RingSize(Requested), Stored) /\ q.elem = 0
    BY <1>1, StoredHas, CreateIsRing DEF Init
  <2>2. RingItems(q) \in Seq(Stored) /\ Len(RingItems(q)) = 0
    BY <1>1, <2>1, ItemsType
  <2> QED BY <2>2
<1> QED BY <1>2 DEF Init, Fifo!FInit

\* Each call against the FIFO's call of that name.
LEMMA FifoCalls ==
  ASSUME QueueInv
  PROVE  /\ Enqueue => ~freed /\ Fifo!Put
         /\ Dequeue => ~freed /\ Fifo!Take
         /\ Peek => ~freed /\ Fifo!Peek
         /\ Count => ~freed /\ Fifo!Count
         /\ Destroy => ~freed /\ Fifo!Destroy
         /\ q.elem = 0 <=> RingItems(q) = <<>>
<1> DEFINE N == RingSize(Requested)
           items == RingItems(q)
<1>1. N \in CellCount /\ N \in Nat \ {0} /\ IsRing(q, N, Stored)
  BY RequestedSize DEF QueueInv, CellCount
<1>2. /\ items \in Seq(Stored) /\ Len(items) = q.elem
      /\ RingFull(q) <=> Len(items) = N - 1
      /\ RingEmpty(q) <=> items = <<>>
      /\ q.elem \in 0..(N - 1)
  <2>1. items \in Seq(Stored) /\ Len(items) = q.elem
    BY <1>1, ItemsType
  <2>2. (RingFull(q) <=> q.elem = N - 1) /\ (RingEmpty(q) <=> q.elem = 0)
    BY <1>1, FullMeansOneFree, EmptyMeansNone
  <2>3. q.elem \in 0..(N - 1)
    BY <1>1 DEF IsRing, Cells
  <2> QED BY <2>1, <2>2, <2>3
<1>3. ASSUME Enqueue PROVE ~freed /\ Fifo!Put
  <2>1. PICK d \in Data :
          /\ ~freed /\ UNCHANGED freed
          /\ IF RingFull(q) THEN ret' = <<"refused">> /\ UNCHANGED q
                            ELSE q' = RingPut(q, d) /\ ret' = <<"stored">>
    BY <1>3 DEF Enqueue
  <2>2. CASE RingFull(q)
    BY <1>1, <1>2, <2>1, <2>2 DEF Fifo!Put
  <2>3. CASE ~RingFull(q)
    <3>1. RingItems(q)' = Append(items, d)
      <4>1. Grows(q, RingPut(q, d), d)
        BY <1>1, <2>3, StoredHas, PutAppends
      <4> QED BY <2>1, <2>3, <4>1 DEF Grows
    <3>2. Len(items) < N - 1
      BY <1>1, <1>2, <2>3
    <3> QED BY <2>1, <2>3, <3>1, <3>2 DEF Fifo!Put
  <2> QED BY <2>2, <2>3
<1>4. ASSUME Dequeue PROVE ~freed /\ Fifo!Take
  <2>1. CASE RingEmpty(q)
    BY <1>2, <1>4, <2>1 DEF Dequeue, Fifo!Take
  <2>2. CASE ~RingEmpty(q)
    <3>1. /\ RingItems(RingTake(q)) = Tail(items) /\ RingFront(q) = Head(items)
          /\ items # <<>>
      <4>1. Shrinks(q, RingTake(q))
        BY <1>1, <2>2, TakeIsTail
      <4> QED BY <4>1 DEF Shrinks
    <3>2. /\ q' = RingTake(q) /\ ret' = <<"item", RingFront(q)>>
          /\ ~freed /\ UNCHANGED freed
      BY <1>4, <2>2 DEF Dequeue
    <3>3. RingItems(q)' = Tail(items)
      BY <3>1, <3>2
    <3> QED BY <3>1, <3>2, <3>3 DEF Fifo!Take
  <2> QED BY <2>1, <2>2
<1>5. ASSUME Peek PROVE ~freed /\ Fifo!Peek
  <2>1. ~RingEmpty(q) => RingFront(q) = Head(items)
    BY <1>1, TakeIsTail DEF Shrinks
  <2> QED BY <1>2, <1>5, <2>1 DEF Peek, Fifo!Peek
<1>6. ASSUME Count PROVE ~freed /\ Fifo!Count
  BY <1>2, <1>6 DEF Count, Fifo!Count
<1>7. ASSUME Destroy PROVE ~freed /\ Fifo!Destroy
  <2>1. (RingEmpty(q) /\ q.elem = 0) <=> items = <<>>
    BY <1>2
  <2>2. ~freed /\ RingItems(q)' = items
    BY <1>7 DEF Destroy
  <2>3. IF items = <<>> THEN freed' = TRUE /\ ret' = <<"freed">>
                        ELSE ret' = <<"busy">> /\ UNCHANGED freed
    BY <1>7, <2>1 DEF Destroy
  <2>4. freed' = (items = <<>>)
    <3>1. CASE items = <<>>
      BY <2>3, <3>1
    <3>2. CASE items # <<>>
      <4>1. freed' = freed
        BY <2>3, <3>2
      <4>2. freed = FALSE
        BY <2>2 DEF QueueInv
      <4> QED BY <3>2, <4>1, <4>2
    <3> QED BY <3>1, <3>2
  <2> QED BY <2>2, <2>3, <2>4 DEF Fifo!Destroy
<1> QED BY <1>2, <1>3, <1>4, <1>5, <1>6, <1>7

LEMMA FifoStep == QueueInv /\ [Next]_qvars => [Fifo!FNext]_Fifo!fvars
<1> SUFFICES ASSUME QueueInv, [Next]_qvars PROVE [Fifo!FNext]_Fifo!fvars
  OBVIOUS
<1>1. CASE Gone \/ UNCHANGED qvars
  BY <1>1 DEF Gone, qvars, Fifo!fvars
<1> QED BY <1>1, FifoCalls DEF Next, Fifo!FNext

\* Every behaviour of the queue is one of a bounded FIFO that holds one element
\* less than the array has cells.
THEOREM QueueIsFifo == Spec => ImplementsFifo
BY FifoInit, FifoStep, QueueInvInit, QueueInvStep, PTL DEF Spec, ImplementsFifo, Fifo!FSpec

-----------------------------------------------------------------------------
(***************************************************************************)
(* A message queue is a FIFO whose destroy is not atomic.                  *)
(***************************************************************************)
\* The messages that no destroy preceded are all that is stored, until a
\* destroy begins; from then on there are none.
ClosingInv ==
  /\ QueueInv /\ closing \in BOOLEAN
  /\ closing => ~freed
  /\ early = IF closing \/ freed THEN 0 ELSE q.elem

LEMMA ElemStep ==
  ASSUME QueueInv
  PROVE  /\ q.elem \in Nat
         /\ Enqueue => q'.elem = IF RingFull(q) THEN q.elem ELSE q.elem + 1
         /\ Dequeue => q'.elem = IF q.elem = 0 THEN 0 ELSE q.elem - 1
<1> DEFINE N == RingSize(Requested)
<1>1. N \in CellCount /\ IsRing(q, N, Stored)
  BY RequestedSize DEF QueueInv
<1>2. q.elem \in Nat /\ (RingEmpty(q) <=> q.elem = 0)
  <2>1. q.elem \in Nat
    BY <1>1 DEF IsRing, Cells, CellCount
  <2> QED BY <1>1, <2>1, EmptyMeansNone
<1>3. ASSUME Enqueue PROVE q'.elem = IF RingFull(q) THEN q.elem ELSE q.elem + 1
  <2>1. PICK d \in Data : IF RingFull(q) THEN UNCHANGED q ELSE q' = RingPut(q, d)
    BY <1>3 DEF Enqueue
  <2> QED BY <1>1, <2>1 DEF RingPut, IsRing, Cells
<1>4. ASSUME Dequeue PROVE q'.elem = IF q.elem = 0 THEN 0 ELSE q.elem - 1
  BY <1>1, <1>2, <1>4 DEF Dequeue, RingTake, IsRing, Cells
<1> QED BY <1>2, <1>3, <1>4

LEMMA ClosingInvStep == ClosingInv /\ [MqNext]_mqvars => ClosingInv'
<1> SUFFICES ASSUME ClosingInv, [MqNext]_mqvars PROVE ClosingInv'
  OBVIOUS
<1> USE DEF ClosingInv
<1>1. CASE MqEnqueue
  <2>1. QueueInv'
    BY <1>1, QueueInvStep DEF MqEnqueue, Next
  <2> QED BY <1>1, <2>1, ElemStep DEF MqEnqueue, Enqueue
<1>2. CASE MqDequeue
  <2>1. QueueInv'
    BY <1>2, QueueInvStep DEF MqDequeue, Next
  <2> QED BY <1>2, <2>1, ElemStep DEF MqDequeue, Dequeue
<1>3. CASE MqPeek \/ MqItems
  BY <1>3 DEF MqPeek, MqItems, Peek, Count, QueueInv
<1>4. CASE MqDestroyTest
  <2>1. QueueInv' /\ UNCHANGED <<q, freed, early>> /\ ~freed
    BY <1>4 DEF MqDestroyTest, QueueInv
  <2>2. \/ UNCHANGED closing
        \/ q.elem = 0 /\ ~closing /\ closing' = TRUE
    BY <1>4 DEF MqDestroyTest, NotEmpty
  <2>3. CASE UNCHANGED closing
    BY <2>1, <2>3
  <2>4. CASE q.elem = 0 /\ ~closing /\ closing' = TRUE
    <3>1. early = 0
      BY <2>1, <2>4
    <3> QED BY <2>1, <2>4, <3>1
  <2> QED BY <2>2, <2>3, <2>4
<1>5. CASE MqDestroyFree
  BY <1>5 DEF MqDestroyFree, QueueInv
<1>6. CASE MqGone \/ UNCHANGED mqvars
  BY <1>6 DEF MqGone, Gone, qvars, mqvars, QueueInv
<1> QED BY <1>1, <1>2, <1>3, <1>4, <1>5, <1>6 DEF MqNext

LEMMA ClosingInvInit == MqInit => ClosingInv
<1>1. Init => q.elem = 0
  BY DEF Init, RingCreate
<1> QED BY <1>1, QueueInvInit DEF MqInit, ClosingInv, Init

\* However calls of other tasks fall between the test of ucx_mq_destroy and its
\* critical section, no message that was stored at the test is freed.
THEOREM EarlyMessagesAreKept == MqSpec => []NoEarlyMessageLost
<1>1. ClosingInv => NoEarlyMessageLost
  BY DEF ClosingInv, NoEarlyMessageLost
<1> QED BY <1>1, ClosingInvInit, ClosingInvStep, PTL DEF MqSpec

LEMMA MessageStep == ClosingInv /\ [MqNext]_mqvars => [Messages!MNext]_Messages!mvars
<1> SUFFICES ASSUME ClosingInv, [MqNext]_mqvars
             PROVE  [Messages!MNext]_Messages!mvars
  OBVIOUS
<1> USE DEF Messages!MNext
<1>1. QueueInv
  BY DEF ClosingInv
<1>2. CASE MqEnqueue
  <2>1. ~freed /\ Messages!Put /\ UNCHANGED closing
    BY <1>1, <1>2, FifoCalls DEF MqEnqueue, Fifo!Put, Messages!Put
  <2> QED BY <2>1 DEF Messages!Call
<1>3. CASE MqDequeue
  <2>1. ~freed /\ Messages!Take /\ UNCHANGED closing
    BY <1>1, <1>3, FifoCalls DEF MqDequeue, Fifo!Take, Messages!Take
  <2> QED BY <2>1 DEF Messages!Call
<1>4. CASE MqPeek
  <2>1. ~freed /\ Messages!Peek /\ UNCHANGED closing
    BY <1>1, <1>4, FifoCalls DEF MqPeek, Fifo!Peek, Messages!Peek
  <2> QED BY <2>1 DEF Messages!Call
<1>5. CASE MqItems
  <2>1. ~freed /\ Messages!Count /\ UNCHANGED closing
    BY <1>1, <1>5, FifoCalls DEF MqItems, Fifo!Count, Messages!Count
  <2> QED BY <2>1 DEF Messages!Call
<1>6. CASE MqDestroyTest
  <2>1. q.elem = 0 <=> RingItems(q) = <<>>
    BY <1>1, FifoCalls
  <2>2. ~freed /\ UNCHANGED freed /\ RingItems(q)' = RingItems(q)
    BY <1>6 DEF MqDestroyTest
  <2>3. CASE NotEmpty
    <3>1. Messages!Refuse
      BY <1>6, <2>1, <2>2, <2>3 DEF MqDestroyTest, NotEmpty, Messages!Refuse
    <3> QED BY <2>2, <3>1
  <2>4. CASE ~NotEmpty
    <3>1. Messages!Begin
      BY <1>6, <2>1, <2>2, <2>4
         DEF MqDestroyTest, NotEmpty, Messages!Begin, Messages!fvars
    <3> QED BY <2>2, <3>1
  <2> QED BY <2>3, <2>4
<1>7. CASE MqDestroyFree
  <2>1. ~freed
    BY <1>7 DEF MqDestroyFree, ClosingInv
  <2>2. Messages!Free
    BY <1>7 DEF MqDestroyFree, Messages!Free
  <2> QED BY <2>1, <2>2
<1>8. CASE MqGone \/ UNCHANGED mqvars
  BY <1>8 DEF MqGone, Gone, qvars, mqvars, Messages!mvars, Messages!fvars
<1> QED BY <1>2, <1>3, <1>4, <1>5, <1>6, <1>7, <1>8 DEF MqNext

\* For every size and every message: the answer of every call of kernel/message.c
\* is that of a bounded FIFO, whose destroy begins only when it is empty.
THEOREM MessageQueueIsFifo == MqSpec => ImplementsMessageFifo
<1>1. MqInit => Messages!MInit
  BY FifoInit DEF MqInit, Messages!MInit, Messages!FInit, Fifo!FInit
<1> QED BY <1>1, ClosingInvInit, ClosingInvStep, MessageStep, PTL
    DEF MqSpec, ImplementsMessageFifo, Messages!MSpec
=============================================================================
