-------------------------- MODULE MCKernelFairness --------------------------
(***************************************************************************)
(* Instances of KernelFairness: three tasks whose levels app_main has set. *)
(***************************************************************************)
EXTENDS KernelFairness

CONSTANTS i, a, b

ASSUME LevelsAreFixed == FixedLevels

AllTasks == {i, a, b}
ThreeTasks == <<i, a, b>>
MixedLevels == [t \in Task |-> IF t = a THEN 1 ELSE 3]
\* Every call but priority changes, which may postpone a task for ever: what
\* remains must let every delay end and every ready task run.
FairApp ==
  [t \in Task |-> CASE t = i -> {}
                    [] t = a -> {"yield", "delay", "suspend_other", "resume"}
                    [] OTHER -> {"yield", "delay", "suspend_self", "suspend_other", "wfi"}]
=============================================================================
