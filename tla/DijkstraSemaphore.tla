------------------------- MODULE DijkstraSemaphore --------------------------
(***************************************************************************)
(* A counting semaphore with Dijkstra's semantics (README, "Semaphore"):   *)
(* units that tasks ask for, and waiters served in the order they came.    *)
(***************************************************************************)
EXTENDS Naturals, Sequences

CONSTANTS Task, Initially
VARIABLES
  units,    \* how many can still pass
  waiting,  \* the blocked tasks, oldest first
  status    \* where each task is in its call of wait

avars == <<units, waiting, status>>

AInit ==
  /\ units = Initially
  /\ waiting = <<>>
  /\ status = [t \in Task |-> "out"]

Moves(t, from, to) == status[t] = from /\ status' = [status EXCEPT ![t] = to]

Ask(t) == Moves(t, "out", "asking") /\ UNCHANGED <<units, waiting>>
Pass(t) ==
  /\ Moves(t, "asking", "granted")
  /\ units > 0 /\ units' = units - 1
  /\ UNCHANGED waiting
Wait(t) ==
  /\ Moves(t, "asking", "waiting")
  /\ units = 0
  /\ waiting' = Append(waiting, t)
  /\ UNCHANGED units
Return(t) == Moves(t, "granted", "out") /\ UNCHANGED <<units, waiting>>

\* A signal hands its unit to the oldest waiter, or keeps it.
Hand ==
  /\ waiting # <<>>
  /\ waiting' = Tail(waiting)
  /\ Moves(Head(waiting), "waiting", "granted")
  /\ UNCHANGED units
Keep == waiting = <<>> /\ units' = units + 1 /\ UNCHANGED <<waiting, status>>

ANext == Hand \/ Keep \/ \E t \in Task : Ask(t) \/ Pass(t) \/ Wait(t) \/ Return(t)
ASpec == AInit /\ [][ANext]_avars
=============================================================================
