------------------------------ MODULE MCKernel ------------------------------
(***************************************************************************)
(* Instances of Kernel for TLC: three tasks, and what each one's code does.*)
(***************************************************************************)
EXTENDS Kernel

CONSTANTS i, a, b      \* i is the idle task of the sample applications

AllTasks == {i, a, b}
TwoTasks == <<i, a>>
ThreeTasks == <<i, a, b>>

\* Reload bytes, scaled: 1 is TASK_CRIT_PRIO, 3 stands for the lower levels.
MixedLevels == [t \in Task |-> IF t = a THEN 1 ELSE 3]

\* Cooperative application: tasks come and go, block and suspend each other.
CoopApp ==
  [t \in Task |-> IF t = i THEN {"yield", "spawn", "resume"}
                  ELSE {"yield", "delay", "suspend_self", "suspend_other",
                        "resume", "priority", "cancel"}]
\* Preemptive application: the idle task spins, the others use every call.
PreemptApp ==
  [t \in Task |-> IF t = i THEN {} ELSE
     {"yield", "delay", "suspend_self", "suspend_other", "resume", "priority", "wfi"}]
\* Nobody leaves the processor but to the tick.
SpinApp == [t \in Task |-> IF t = i THEN {}
                           ELSE {"suspend_other", "resume", "priority", "wfi"}]
=============================================================================
