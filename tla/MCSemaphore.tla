---------------------------- MODULE MCSemaphore -----------------------------
(***************************************************************************)
(* Instances of Semaphore for TLC: an idle task and three users.           *)
(***************************************************************************)
EXTENDS Semaphore

CONSTANTS i, a, b, c

FourTasks == {i, a, b, c}
Mutex == [t \in Task |-> IF t = i THEN "idle" ELSE "mutex"]
\* The producer signals whether or not anyone waits.
Mixed == [t \in Task |-> CASE t = i -> "idle" [] t = a -> "producer"
                           [] t = b -> "consumer" [] OTHER -> "mutex"]
=============================================================================
