---------------------------- MODULE MessageQueue ----------------------------
(***************************************************************************)
(* The message queues of kernel/message.c: a queue of lib/queue.c whose    *)
(* calls run inside critical sections. ucx_mq_items and the test of        *)
(* ucx_mq_destroy do not, so a destroy is two steps, and other tasks make  *)
(* any call between them. What the code needs and does not check: nobody   *)
(* uses the queue after the free, so that a second destroy does not get    *)
(* past its test while the first is under way.                             *)
(***************************************************************************)
EXTENDS Queue

VARIABLES
  closing,  \* a task is between the two steps of ucx_mq_destroy
  early     \* history: the stored messages that no destroy under way preceded

mqvars == <<q, ret, freed, closing, early>>

MqInit == Init /\ closing = FALSE /\ early = 0

MqEnqueue ==
  /\ Enqueue
  /\ early' = IF closing \/ RingFull(q) THEN early ELSE early + 1
  /\ UNCHANGED closing
MqDequeue ==
  /\ Dequeue
  /\ early' = IF early = 0 THEN 0 ELSE early - 1
  /\ UNCHANGED closing
MqPeek == Peek /\ UNCHANGED <<closing, early>>
MqItems == Count /\ UNCHANGED <<closing, early>>

\* queue_count, outside of the critical section.
NotEmpty_Unchecked == FALSE                                         \* mutant
NotEmpty == q.elem # 0

MqDestroyTest ==
  /\ ~freed
  /\ \/ NotEmpty /\ ret' = <<"busy">> /\ UNCHANGED closing
     \/ ~NotEmpty /\ ~closing /\ closing' = TRUE /\ UNCHANGED ret
  /\ UNCHANGED <<q, freed, early>>

\* The critical section: queue_destroy refuses if a message came in meanwhile,
\* its result is ignored, and the message queue is freed with the message.
MqDestroyFree ==
  /\ closing
  /\ freed' = TRUE /\ ret' = <<"freed">> /\ closing' = FALSE
  /\ UNCHANGED <<q, early>>

MqGone == Gone /\ UNCHANGED <<closing, early>>

MqNext ==
  MqEnqueue \/ MqDequeue \/ MqPeek \/ MqItems \/ MqDestroyTest \/ MqDestroyFree \/ MqGone

MqSpec == MqInit /\ [][MqNext]_mqvars

\* A message that was stored when ucx_mq_destroy was called is never freed
\* with the queue, though the count is tested outside of the critical section
\* and other tasks take and store messages before the free: only a message
\* that a task stored after the test can be lost.
NoEarlyMessageLost == freed => early = 0

\* To its users a message queue is a FIFO, one call at a time, at every wrap
\* of the array, null pointers included; all that the unprotected test of
\* ucx_mq_destroy promises is that the queue was empty when it began.
Messages ==
  INSTANCE MessageFifo WITH items <- RingItems(q), Capacity <- RingSize(Requested) - 1
ImplementsMessageFifo == Messages!MSpec
=============================================================================
