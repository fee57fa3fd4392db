--------------------------- MODULE KernelFairness ---------------------------
(***************************************************************************)
(* How long a READY task can wait. Kernel with a history variable: the     *)
(* number of times the processor went to another task since the task last  *)
(* became READY. The list and the levels are as app_main left them.        *)
(***************************************************************************)
EXTENDS Kernel, Integers

\* What the bound is about, and every instance assumes.
FixedLevels == \A t \in Task : App[t] \cap {"priority", "spawn", "cancel"} = {}

VARIABLE passed
fvars == <<vars, passed>>

Dispatched == \E u \in Task : state[u] = "READY" /\ state'[u] = "RUNNING"

FInit == Init /\ passed = [t \in Task |-> 0]
FNext ==
  /\ Next
  /\ passed' = [t \in Task |->
       IF state[t] = "READY" /\ state'[t] = "READY"
       THEN IF Dispatched THEN passed[t] + 1 ELSE passed[t]
       ELSE 0]
FSpec == FInit /\ [][FNext]_fvars

\* The fairness Kernel justifies at KernelStep.
FLiveSpec == /\ FSpec
             /\ WF_vars(KernelStep) /\ SF_vars(Tick) /\ WF_vars(CallStep)

\* README: "tasks share processor time proportionally". A task whose level
\* reloads r credits is passed over at most r times by each other task, since
\* every visit of krnl_schedule to a READY task costs it one credit and no
\* task is chosen twice between two visits.
BoundedBypass ==
  \A t \in Task :
    Listed(t) /\ state[t] = "READY" => passed[t] <= reload[t] * (Len(tasks) - 1)

\* The argument: what a task was passed over and the most it still can be
\* come to no more than the bound, wherever krnl_schedule stands in the list.
BypassBudget ==
  \A i \in 1..Len(tasks) :
    LET t == tasks[i]
    IN  state[t] = "READY" =>
          passed[t] + (cnt[t] - 1) * (Len(tasks) - 1) + (Distance(i) - 1)
            <= reload[t] * (Len(tasks) - 1)
=============================================================================
