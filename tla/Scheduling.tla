----------------------------- MODULE Scheduling -----------------------------
(***************************************************************************)
(* What the kernel promises about tasks, without the list, the credits,    *)
(* the saved contexts or the interrupt flag: the states of the README's    *)
(* task API, one task at a time on the processor, and a system that stops  *)
(* only when there is nothing to run or no memory.                         *)
(***************************************************************************)
CONSTANT Task

VARIABLES
  st,       \* "ABSENT" or the state of each task
  on,       \* the task on the processor, as a set: empty while scheduling
  stopped

svars == <<st, on, stopped>>

SInit ==
  /\ st \in [Task -> {"ABSENT", "READY"}]
  /\ \E t \in Task : st[t] = "READY" /\ on = {t}
  /\ stopped = FALSE

Becomes(t, s) == st' = [st EXCEPT ![t] = s]

\* The processor is taken, by a call or a tick; delays that ran out end.
Deschedule ==
  /\ on # {}
  /\ on' = {}
  /\ \E woken \in SUBSET {t \in Task : st[t] = "BLOCKED"} :
       st' = [t \in Task |-> IF t \in woken \/ (t \in on /\ st[t] = "RUNNING")
                             THEN "READY" ELSE st[t]]

Dispatch ==
  /\ on = {}
  /\ \E t \in Task : st[t] = "READY" /\ Becomes(t, "RUNNING") /\ on' = {t}

Block   == \E t \in on : Becomes(t, "BLOCKED") /\ on' = on
Suspend == /\ on # {} /\ on' = on
           /\ \E t \in Task : st[t] \in {"READY", "RUNNING"} /\ Becomes(t, "SUSPENDED")
Resume  == /\ on # {} /\ on' = on
           /\ \E t \in Task : st[t] = "SUSPENDED" /\ Becomes(t, "READY")
Spawn   == /\ on # {} /\ on' = on
           /\ \E t \in Task : st[t] = "ABSENT" /\ Becomes(t, "READY")
Cancel  == /\ on # {} /\ on' = on
           /\ \E t \in Task \ on : st[t] # "ABSENT" /\ Becomes(t, "ABSENT")

\* krnl_panic: nothing to run, or no memory for a new task.
Stop ==
  /\ \/ on = {} /\ \A t \in Task : st[t] # "READY"
     \/ on # {} /\ \A t \in Task : st[t] # "ABSENT"
  /\ stopped' = TRUE
  /\ UNCHANGED <<st, on>>

SNext ==
  /\ ~stopped
  /\ \/ Stop
     \/ /\ UNCHANGED stopped
        /\ \/ Deschedule \/ Dispatch \/ Block \/ Suspend \/ Resume
           \/ Spawn \/ Cancel

SSpec == SInit /\ [][SNext]_svars
=============================================================================
