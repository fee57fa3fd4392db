---------------------------- MODULE KernelProofs ----------------------------
(***************************************************************************)
(* Theorems about Kernel, for every set of tasks, list length, set of      *)
(* levels and delays, and every application the hypotheses admit.          *)
(***************************************************************************)
EXTENDS KernelFairness, FiniteSetTheorems, TLAPS

LEMMA RemoveAtType ==
  ASSUME NEW s \in Seq(Task), NEW i \in 1..Len(s), Len(s) > 1
  PROVE  /\ RemoveAt(s, i) \in Seq(Task)
         /\ Len(RemoveAt(s, i)) = Len(s) - 1
         /\ \A k \in 1..(Len(s) - 1) :
              RemoveAt(s, i)[k] = IF k < i THEN s[k] ELSE s[k + 1]
BY DEF RemoveAt

(***************************************************************************)
(* Every variable keeps its type, whatever the HAL and the application:    *)
(* the walk over the list never leaves it, and a cancelled task never      *)
(* takes kcb->task_current with it.                                        *)
(***************************************************************************)
LEMMA TypeInit == Init => TypeOK
<1> SUFFICES ASSUME Init PROVE TypeOK
  OBVIOUS
<1>1. Boot[1] \in Task /\ 1 \in 1..Len(Boot)
  BY BootAssumption
<1>2. \A t \in Task : FreshFrame(t) \in Frame
  BY DEF FreshFrame, Frame, Point
<1>3. BootLevel \in [Task -> Levels] /\ BootLevel \in [Task -> Nat]
  BY BootAssumption, LevelAssumption
<1> QED BY <1>1, <1>2, <1>3, BootAssumption DEF Init, TypeOK, State

LEMMA EnterScheduleType ==
  ASSUME TypeOK, NEW upd \in BOOLEAN, EnterSchedule(upd)
  PROVE  state' \in [Task -> State] /\ delay' \in [Task -> Nat]
BY DEF EnterSchedule, TypeOK, State

LEMMA EnterYieldType ==
  ASSUME TypeOK, EnterYield
  PROVE  TypeOK'
<1>1. state' \in [Task -> State] /\ delay' \in [Task -> Nat]
  <2>1. PICK upd \in BOOLEAN : EnterSchedule(upd)
    BY DEF EnterYield
  <2> QED BY <2>1, EnterScheduleType
<1>2. Current \in Task
  BY DEF TypeOK, Current
<1> QED BY <1>1, <1>2 DEF EnterYield, TypeOK, Frame, Point

LEMMA VisitType ==
  ASSUME TypeOK, NEW t \in Task, Visit(t)
  PROVE  current' \in 1..Len(tasks)
BY DEF TypeOK, Visit, Successor

LEMMA NextVisitType == TypeOK /\ NextVisit => run' \in Frame
<1> SUFFICES ASSUME TypeOK, NextVisit PROVE run' \in Frame
  OBVIOUS
<1>1. run \in [thr : Task, pc : Point, on : Task, n : Nat]
  BY DEF TypeOK, Frame
<1>2. run.n + 1 \in Nat
  BY <1>1
<1>3. run' = [run EXCEPT !.n = run.n + 1]
  BY DEF NextVisit
<1> QED BY <1>1, <1>2, <1>3 DEF Frame

LEMMA TypeStep == TypeOK /\ [Next]_vars => TypeOK'
<1> SUFFICES ASSUME TypeOK, [Next]_vars PROVE TypeOK'
  OBVIOUS
<1> USE DEF Frame, Point, State, tcbs
<1>0. Current \in Task
  BY DEF TypeOK, Current
<1>1. CASE Tick
  <2>1. state' \in [Task -> State] /\ delay' \in [Task -> Nat]
    BY <1>1, EnterScheduleType DEF Tick
  <2> QED BY <1>0, <1>1, <2>1 DEF Tick, TypeOK
<1>2. CASE ScanPanic
  BY <1>2, VisitType DEF ScanPanic, TypeOK
<1>3. CASE ScanSkip
  <2>1. run' \in Frame /\ current' \in 1..Len(tasks)
    BY <1>3, VisitType, NextVisitType DEF ScanSkip
  <2> QED BY <1>3, <2>1 DEF ScanSkip, TypeOK
<1>4. CASE ScanAge
  <2>1. PICK t \in Task :
          /\ Visit(t) /\ cnt[t] # 1
          /\ cnt' = [cnt EXCEPT ![t] = IF @ = 0 THEN 255 ELSE @ - 1]
    BY <1>4 DEF ScanAge
  <2>2. run' \in Frame /\ current' \in 1..Len(tasks)
    BY <1>4, <2>1, VisitType, NextVisitType DEF ScanAge
  <2>3. cnt' \in [Task -> Nat]
    BY <2>1 DEF TypeOK
  <2>4. UNCHANGED <<tasks, state, delay, reload, ctx, saved, ie, halted>>
    BY <1>4 DEF ScanAge
  <2> QED BY <2>2, <2>3, <2>4 DEF TypeOK
<1>5. CASE ScanSelect
  <2>1. PICK t \in Task : Chosen(t, [cnt EXCEPT ![t] = reload[t]])
    BY <1>5 DEF ScanSelect
  <2>2. /\ cnt' \in [Task -> Nat]
        /\ ie' \in BOOLEAN
        /\ current' \in 1..Len(tasks)
    BY <2>1, VisitType, LevelAssumption DEF Chosen, ResumedIe, FirstRun, TypeOK
  <2>3. run' \in Frame
    BY <2>1 DEF Chosen, TypeOK
  <2>4. state' \in [Task -> State]
    BY <2>1 DEF Chosen, TypeOK
  <2> QED BY <1>5, <2>2, <2>3, <2>4 DEF ScanSelect, TypeOK
<1>19. CASE Launch
  <2>1. run' = ctx[run.on] /\ UNCHANGED <<tcbs, current, ctx, saved, ie, halted>>
    BY <1>19 DEF Launch
  <2>2. run' \in Frame
    BY <2>1 DEF TypeOK
  <2> QED BY <2>1, <2>2 DEF TypeOK
<1>6. CASE TaskYield \/ DelayYield
  BY <1>6, EnterYieldType DEF TaskYield, DelayYield
<1>7. CASE TaskDelay
  <2>1. ie' \in BOOLEAN
    BY <1>7 DEF TaskDelay, CriticalEnter, TypeOK
  <2>2. run' \in Frame
    BY <1>0, <1>7 DEF TaskDelay, Goto, TypeOK
  <2>3. delay' \in [Task -> Nat]
    BY <1>7, LevelAssumption DEF TaskDelay, TypeOK
  <2> QED BY <1>7, <2>1, <2>2, <2>3 DEF TaskDelay, TypeOK
<1>8. CASE DelaySet
  BY <1>8 DEF DelaySet, CriticalLeave, Goto, TypeOK
<1>9. CASE TaskSuspend
  BY <1>9 DEF TaskSuspend, CriticalEnter, CriticalLeave, Refuse, Goto, TypeOK
<1>10. CASE SuspendSet
  BY <1>10 DEF SuspendSet, CriticalLeave, Goto, TypeOK
<1>11. CASE SuspendYield
  <2>1. CASE run.on = Current
    BY <1>11, <2>1, EnterYieldType DEF SuspendYield
  <2>2. CASE run.on # Current
    BY <1>11, <2>2 DEF SuspendYield, Return, Goto, TypeOK
  <2> QED BY <2>1, <2>2
<1>12. CASE TaskResume
  BY <1>12 DEF TaskResume, CriticalEnter, CriticalLeave, Refuse, Goto, TypeOK
<1>13. CASE ResumeSet
  BY <1>13 DEF ResumeSet, CriticalLeave, Return, Goto, TypeOK
<1>14. CASE TaskPriority
  <2>1. ie' \in BOOLEAN /\ UNCHANGED <<tasks, current, state, delay, ctx, saved, run, halted>>
    BY <1>14 DEF TaskPriority, CriticalLeave, TypeOK
  <2>2. PICK t \in Task, p \in Levels :
          cnt' = [cnt EXCEPT ![t] = p] /\ reload' = [reload EXCEPT ![t] = p]
    BY <1>14 DEF TaskPriority
  <2>3. cnt' \in [Task -> Nat] /\ reload' \in [Task -> Levels]
    BY <2>2, LevelAssumption DEF TypeOK
  <2> QED BY <2>1, <2>3 DEF TypeOK
<1>15. CASE TaskWfi
  BY <1>15 DEF TaskWfi, Goto, TypeOK
<1>16. CASE TaskSpawn
  <2>1. CASE Len(tasks) < MaxTasks
    <3>1. PICK t \in Task :
            /\ tasks' = Append(tasks, t)
            /\ state' = [state EXCEPT ![t] = "READY"]
            /\ delay' = [delay EXCEPT ![t] = 0]
            /\ cnt' = [cnt EXCEPT ![t] = NormalLevel]
            /\ reload' = [reload EXCEPT ![t] = NormalLevel]
            /\ ctx' = [ctx EXCEPT ![t] = FreshFrame(t)]
            /\ saved' = [saved EXCEPT ![t] = "start"]
      BY <1>16, <2>1 DEF TaskSpawn
    <3>2. /\ tasks' \in Seq(Task)
          /\ Len(tasks') \in 1..MaxTasks
          /\ current \in 1..Len(tasks')
      <4>1. /\ tasks \in Seq(Task) /\ current \in 1..Len(tasks)
            /\ Len(tasks) \in Nat /\ MaxTasks \in Nat
        BY BootAssumption DEF TypeOK
      <4>2. tasks' \in Seq(Task) /\ Len(tasks') = Len(tasks) + 1
        BY <3>1, <4>1
      <4> QED BY <2>1, <4>1, <4>2
    <3>3. /\ FreshFrame(t) \in Frame
          /\ NormalLevel \in Levels /\ NormalLevel \in Nat
      BY LevelAssumption DEF FreshFrame
    <3>4. UNCHANGED <<current, run, ie, halted>>
      BY <1>16, <2>1 DEF TaskSpawn
    <3> QED BY <3>1, <3>2, <3>3, <3>4 DEF TypeOK
  <2>2. CASE ~(Len(tasks) < MaxTasks)
    BY <1>16, <2>2 DEF TaskSpawn, TypeOK
  <2> QED BY <2>1, <2>2
<1>17. CASE TaskCancel
  <2>1. PICK i \in 1..Len(tasks) :
          /\ i # current
          /\ tasks' = RemoveAt(tasks, i)
          /\ current' = IF i < current THEN current - 1 ELSE current
    BY <1>17 DEF TaskCancel
  <2>2. Len(tasks) > 1
    BY <2>1 DEF TypeOK
  <2>3. tasks' \in Seq(Task) /\ Len(tasks') = Len(tasks) - 1
    BY <2>1, <2>2, RemoveAtType DEF TypeOK
  <2>4. /\ Len(tasks) \in Nat /\ MaxTasks \in Nat
        /\ current \in 1..Len(tasks) /\ Len(tasks) <= MaxTasks
    BY BootAssumption DEF TypeOK
  <2>5. Len(tasks') \in 1..MaxTasks
    BY <2>2, <2>3, <2>4
  <2>6. current' \in 1..Len(tasks')
    BY <2>1, <2>3, <2>4
  <2> QED BY <1>17, <2>3, <2>5, <2>6 DEF TaskCancel, TypeOK
<1>18. CASE UNCHANGED vars
  BY <1>18 DEF vars, TypeOK
<1> QED
  BY <1>1, <1>2, <1>3, <1>4, <1>5, <1>6, <1>7, <1>8, <1>9, <1>10, <1>11,
     <1>12, <1>13, <1>14, <1>15, <1>16, <1>17, <1>18, <1>19
     DEF Next, Scan, Api, Halted

\* TypeOK holds in every reachable state.
THEOREM Typing == Spec => []TypeOK
BY TypeInit, TypeStep, PTL DEF Spec

(***************************************************************************)
(* The inductive invariant. Undisturbed is what the theorems ask of a      *)
(* preemptive system on the generic HAL: that its tasks leave the          *)
(* processor to the tick alone and that the handler ends within a tick     *)
(* period, since a tick inside yield() or before the longjmp to a fresh    *)
(* task would corrupt contexts. On the stm32f4, and in cooperative mode,   *)
(* it asks nothing.                                                        *)
(***************************************************************************)
Undisturbed ==
  Masks => /\ \A t \in Task : App[t] \cap {"yield", "delay", "suspend_self"} = {}
           /\ ~LateTick

Distinct == \A j, k \in 1..Len(tasks) : tasks[j] = tasks[k] => j = k

Credit == \A t \in Task : cnt[t] \in 1..reload[t]

\* Where a frame can stand, for what kind of application.
WellPlaced(f) ==
  /\ f.pc = "delay_set" => f.on = f.thr
  /\ f.pc \in {"irq_scan", "launch"} => Preemptive
  /\ Masks => /\ f.pc \notin {"delay_set", "yield", "yield_scan"}
              /\ f.pc \in {"susp_set", "susp_yield"} => f.on # f.thr

RunPlaced == WellPlaced(run)
CtxPlaced == \A t \in Task : /\ ctx[t].thr = t /\ ctx[t].pc \notin ScanPoint \cup {"launch"}
                             /\ WellPlaced(ctx[t])

TicksOff == Scanning /\ Preemptive => ~ie

RunnerInv ==
  /\ ~Scanning => Runner = Current
  /\ \A t \in Task : state[t] = "RUNNING" => t = Current /\ ~Scanning

\* A thread whose task is neither READY nor RUNNING is on its way to yield().
Leaving == run.pc = "yield" \/ (run.pc = "susp_yield" /\ run.on = run.thr)
Runnable == ~Scanning => state[Runner] \in {"READY", "RUNNING"} \/ Leaving

SafetyInv ==
  /\ TypeOK /\ Distinct /\ Credit /\ RunPlaced /\ CtxPlaced
  /\ TicksOff /\ RunnerInv /\ Runnable

LEMMA SafetyInit == Init => SafetyInv
<1> SUFFICES ASSUME Init PROVE SafetyInv
  OBVIOUS
<1>1. TypeOK
  BY TypeInit
<1>2. Distinct
  BY BootAssumption DEF Init, Distinct
<1>3. Credit
  <2>1. \A t \in Task : BootLevel[t] \in Nat \ {0}
    BY BootAssumption, LevelAssumption
  <2>2. \A t \in Task : BootLevel[t] \in 1..BootLevel[t]
    BY <2>1
  <2> QED BY <2>2 DEF Init, Credit
<1>4. RunPlaced /\ CtxPlaced /\ TicksOff
  BY BootAssumption
     DEF Init, RunPlaced, CtxPlaced, TicksOff, WellPlaced, FreshFrame, Scanning,
         ScanPoint
<1>5. RunnerInv /\ Runnable
  <2>1. run = FreshFrame(tasks[1]) /\ tasks[1] \in Task /\ Current = tasks[1]
    BY BootAssumption DEF Init, Current
  <2> QED BY <2>1 DEF Init, RunnerInv, Runnable, Runner, FreshFrame
<1> QED BY <1>1, <1>2, <1>3, <1>4, <1>5 DEF SafetyInv

\* Entering krnl_schedule leaves no task RUNNING.
LEMMA EnterScheduleStops ==
  ASSUME TypeOK, RunnerInv, NEW upd \in BOOLEAN, EnterSchedule(upd)
  PROVE  \A t \in Task : state'[t] # "RUNNING"
BY DEF EnterSchedule, RunnerInv

LEMMA EnterYieldSafe ==
  ASSUME SafetyInv, ~Masks, ~Scanning, run.pc # "launch", EnterYield
  PROVE  SafetyInv'
<1> USE DEF SafetyInv
<1>1. TypeOK'
  BY EnterYieldType
<1>2. Current \in Task /\ run \in Frame /\ ctx \in [Task -> Frame]
  BY DEF TypeOK, Current
<1>3. \A t \in Task : state'[t] # "RUNNING"
  BY EnterScheduleStops, HalAssumption DEF EnterYield
<1>4. Scanning' /\ run'.pc = "yield_scan"
  BY <1>2 DEF EnterYield, Scanning, ScanPoint, Frame
<1>5. Distinct' /\ Credit'
  BY DEF EnterYield, Distinct, Credit
<1>6. RunPlaced'
  BY <1>4 DEF RunPlaced, WellPlaced, Masks
<1>7. CtxPlaced'
  BY <1>2 DEF EnterYield, CtxPlaced, WellPlaced, RunnerInv, Runner, ScanPoint, Frame, Masks
<1>8. TicksOff'
  BY HalAssumption DEF EnterYield, TicksOff, Masks
<1>9. RunnerInv' /\ Runnable'
  BY <1>3, <1>4 DEF RunnerInv, Runnable
<1> QED BY <1>1, <1>5, <1>6, <1>7, <1>8, <1>9

LEMMA TickSafe ==
  ASSUME Undisturbed, SafetyInv, Tick
  PROVE  SafetyInv'
<1> USE DEF SafetyInv
<1>1. TypeOK'
  BY TypeStep DEF Next
<1>2. Current \in Task /\ run \in Frame /\ ctx \in [Task -> Frame]
  BY DEF TypeOK, Current
<1>3. \A t \in Task : state'[t] # "RUNNING"
  BY EnterScheduleStops DEF Tick
<1>4. Scanning' /\ run'.pc = "irq_scan" /\ ~Scanning
  BY <1>2 DEF Tick, Scanning, ScanPoint, Frame, TicksOff
<1>5. Distinct' /\ Credit'
  BY DEF Tick, Distinct, Credit
<1>6. RunPlaced' /\ TicksOff'
  BY <1>4 DEF Tick, RunPlaced, WellPlaced, Masks, TicksOff
<1>8. run.pc # "launch"
  BY HalAssumption DEF Tick, Undisturbed, Masks
<1>7. CtxPlaced'
  <2>1. run.thr = Current /\ run.pc \notin ScanPoint \cup {"launch"}
    BY <1>4, <1>8 DEF RunnerInv, Runner, Scanning
  <2>2. PICK f \in Frame : /\ ctx' = [ctx EXCEPT ![Current] = f]
                           /\ f = IF run.pc = "wfi" THEN [run EXCEPT !.pc = "app"] ELSE run
    BY <1>2 DEF Tick, Frame, Point
  <2>3. f.thr = Current /\ f.pc \notin ScanPoint \cup {"launch"} /\ WellPlaced(f)
    BY <1>2, <2>1, <2>2 DEF Frame, RunPlaced, WellPlaced, ScanPoint
  <2> QED BY <1>2, <2>2, <2>3 DEF CtxPlaced, WellPlaced, Masks
<1>9. RunnerInv' /\ Runnable'
  BY <1>3, <1>4 DEF RunnerInv, Runnable
<1> QED BY <1>1, <1>5, <1>6, <1>7, <1>9

LEMMA ScanSafe ==
  ASSUME SafetyInv, Scan
  PROVE  SafetyInv'
<1> USE DEF SafetyInv
<1>0. run \in Frame
  BY DEF TypeOK
<1>1. TypeOK'
  BY TypeStep DEF Next
<1>2. Scanning /\ \A t \in Task : state[t] # "RUNNING"
  BY DEF Scan, ScanPanic, ScanSkip, ScanAge, ScanSelect, Chosen, Visit, RunnerInv
<1>3. CASE ScanPanic
  <2>1. Scanning' /\ UNCHANGED <<run, ie, state>>
    BY <1>2, <1>3 DEF ScanPanic, Scanning, tcbs
  <2>2. Distinct' /\ Credit' /\ RunPlaced' /\ CtxPlaced' /\ TicksOff'
    BY <1>2, <1>3 DEF ScanPanic, tcbs, Distinct, Credit, RunPlaced, CtxPlaced,
                      WellPlaced, Masks, TicksOff, Scanning
  <2> QED BY <1>1, <1>2, <2>1, <2>2 DEF RunnerInv, Runnable
<1>4. CASE ScanSkip \/ ScanAge
  <2>1. /\ run' = [run EXCEPT !.n = run.n + 1]
        /\ UNCHANGED <<tasks, state, reload, ctx, ie>>
    BY <1>4 DEF ScanSkip, ScanAge, NextVisit, tcbs
  <2>2. run'.pc = run.pc /\ run'.thr = run.thr /\ run'.on = run.on
    BY <2>1 DEF TypeOK, Frame
  <2>3. Scanning'
    BY <1>2, <2>2 DEF Scanning
  <2>4. Credit'
    <3>1. CASE ScanSkip
      BY <3>1 DEF ScanSkip, tcbs, Credit
    <3>2. CASE ScanAge
      <4>1. PICK t \in Task :
              /\ cnt[t] # 1
              /\ cnt' = [cnt EXCEPT ![t] = IF @ = 0 THEN 255 ELSE @ - 1]
        BY <3>2 DEF ScanAge
      <4>2. cnt[t] \in 1..reload[t] /\ reload[t] \in Nat
        BY LevelAssumption DEF Credit, TypeOK
      <4>3. cnt[t] - 1 \in 1..reload[t] /\ cnt[t] # 0
        BY <4>1, <4>2
      <4>4. cnt' = [cnt EXCEPT ![t] = cnt[t] - 1]
        BY <4>1, <4>3
      <4> QED BY <2>1, <4>3, <4>4 DEF Credit, TypeOK
    <3> QED BY <1>4, <3>1, <3>2
  <2>5. Distinct' /\ RunPlaced' /\ CtxPlaced' /\ TicksOff'
    BY <1>2, <2>1, <2>2 DEF Distinct, RunPlaced, CtxPlaced, WellPlaced, Masks,
                            TicksOff, Scanning
  <2> QED BY <1>1, <1>2, <2>1, <2>3, <2>4, <2>5 DEF RunnerInv, Runnable
<1>5. CASE ScanSelect
  <2>1. PICK t \in Task : Chosen(t, [cnt EXCEPT ![t] = reload[t]])
    BY <1>5 DEF ScanSelect
  <2>2. UNCHANGED <<tasks, reload, ctx>>
    BY <1>5 DEF ScanSelect
  <2>3. ~Scanning' /\ Runner' = t /\ WellPlaced(run')
    <3>1. CASE FirstRun(t)
      <4>1. run' = [run EXCEPT !.pc = "launch", !.on = t, !.n = 0] /\ run.pc = "irq_scan"
        BY <2>1, <3>1 DEF Chosen, FirstRun
      <4>2. run'.pc = "launch" /\ run'.on = t
        BY <1>0, <4>1 DEF Frame
      <4> QED BY <4>1, <4>2 DEF Scanning, ScanPoint, Runner, WellPlaced, RunPlaced
    <3>2. CASE ~FirstRun(t)
      <4>1. run' = ctx[t]
        BY <2>1, <3>2 DEF Chosen
      <4> QED BY <4>1 DEF Scanning, Runner, CtxPlaced
    <3> QED BY <3>1, <3>2
  <2>4. Current' = t
    BY <2>1, <2>2 DEF Chosen, Visit, Current
  <2>5. Credit'
    <3>1. cnt' = [cnt EXCEPT ![t] = reload[t]]
      BY <2>1 DEF Chosen
    <3>2. reload[t] \in Nat \ {0}
      BY LevelAssumption DEF TypeOK
    <3>3. reload[t] \in 1..reload[t]
      BY <3>2
    <3> QED BY <2>2, <3>1, <3>3 DEF Credit, TypeOK
  <2>6. state' = [state EXCEPT ![t] = "RUNNING"]
    BY <2>1 DEF Chosen
  <2>7. RunnerInv' /\ Runnable'
    BY <1>2, <2>3, <2>4, <2>6 DEF RunnerInv, Runnable, TypeOK
  <2>8. Distinct' /\ RunPlaced' /\ CtxPlaced' /\ TicksOff'
    BY <2>2, <2>3 DEF Distinct, RunPlaced, CtxPlaced, WellPlaced, Masks, TicksOff
  <2> QED BY <1>1, <2>5, <2>7, <2>8
<1> QED BY <1>3, <1>4, <1>5 DEF Scan

\* The longjmp to a task that never ran.
LEMMA LaunchSafe ==
  ASSUME SafetyInv, Launch
  PROVE  SafetyInv'
<1> USE DEF SafetyInv
<1>1. TypeOK'
  BY TypeStep DEF Next
<1>2. /\ ~Scanning /\ run.pc = "launch" /\ run.on \in Task /\ run' = ctx[run.on]
      /\ UNCHANGED <<tasks, current, state, cnt, reload, ctx, ie>>
  BY DEF Launch, At, Scanning, ScanPoint, tcbs, TypeOK, Frame
<1>3. ~Scanning' /\ Runner' = run.on /\ Runner = run.on /\ WellPlaced(run')
  BY <1>2 DEF Scanning, Runner, CtxPlaced
<1>4. Distinct' /\ Credit' /\ RunPlaced' /\ CtxPlaced' /\ TicksOff'
  BY <1>2, <1>3 DEF Distinct, Credit, RunPlaced, CtxPlaced, WellPlaced, Masks, TicksOff
<1>5. RunnerInv' /\ Runnable'
  BY <1>2, <1>3 DEF RunnerInv, Runnable, Current, Leaving
<1> QED BY <1>1, <1>4, <1>5

\* A step of the API that stays in its caller: what it has to show.
LEMMA CallSafe ==
  ASSUME SafetyInv, TypeOK', ~Scanning, run.pc # "launch", run'.pc # "launch",
         UNCHANGED <<tasks, current, ctx>>,
         run'.thr = run.thr, ~Scanning', WellPlaced(run'), Credit',
         \A t \in Task : state'[t] = "RUNNING" => state[t] = "RUNNING",
         state'[run.thr] \in {"READY", "RUNNING"} \/ Leaving'
  PROVE  SafetyInv'
<1> USE DEF SafetyInv
<1>1. Distinct' /\ RunPlaced' /\ CtxPlaced' /\ TicksOff'
  BY DEF Distinct, RunPlaced, CtxPlaced, TicksOff, WellPlaced, Masks
<1>2. RunnerInv' /\ Runnable'
  BY DEF RunnerInv, Runnable, Runner, Current
<1> QED BY <1>1, <1>2

LEMMA SafetyStep == Undisturbed /\ SafetyInv /\ [Next]_vars => SafetyInv'
<1> SUFFICES ASSUME Undisturbed, SafetyInv, [Next]_vars PROVE SafetyInv'
  OBVIOUS
<1>1. TypeOK /\ TypeOK'
  BY TypeStep DEF SafetyInv
<1>2. /\ run \in Frame /\ run.thr \in Task /\ run.on \in Task
      /\ Current \in Task /\ state \in [Task -> State]
  <2>1. TypeOK
    BY <1>1
  <2> QED BY <2>1 DEF TypeOK, Frame, Current
<1>3. CASE Tick
  BY <1>3, TickSafe
<1>4. CASE Scan
  BY <1>4, ScanSafe
<1>18. CASE Launch
  BY <1>18, LaunchSafe
<1>19. run.pc # "launch" => Runner = run.thr
  BY DEF Runner
<1>5. CASE TaskYield \/ DelayYield
  <2>1. ~Scanning /\ run.pc # "launch" /\ EnterYield
    BY <1>5 DEF TaskYield, DelayYield, Calls, At, Scanning, ScanPoint
  <2>2. ~Masks
    BY <1>2, <1>5 DEF TaskYield, DelayYield, Calls, At, Undisturbed, SafetyInv,
                      RunPlaced, WellPlaced
  <2> QED BY <2>1, <2>2, EnterYieldSafe
<1>6. CASE TaskDelay
  <2>1. ~Masks
    BY <1>2, <1>6 DEF TaskDelay, Calls, Undisturbed
  <2>2. /\ ~Scanning /\ run.thr = Current
        /\ run' = [run EXCEPT !.pc = "delay_set", !.on = Current]
        /\ UNCHANGED <<tasks, current, state, cnt, reload, ctx>>
        /\ run.pc = "app"
    BY <1>6 DEF TaskDelay, Calls, Goto, Scanning, ScanPoint, SafetyInv, RunnerInv, Runner
  <2>3. run'.pc = "delay_set" /\ run'.thr = run.thr /\ run'.on = run.thr
    BY <1>2, <2>2 DEF Frame
  <2>4. ~Scanning' /\ WellPlaced(run') /\ Credit'
    BY <2>1, <2>2, <2>3 DEF Scanning, ScanPoint, WellPlaced, SafetyInv, Credit
  <2>5. state[run.thr] \in {"READY", "RUNNING"}
    BY <2>2 DEF SafetyInv, Runnable, Runner, Leaving
  <2> QED BY <1>1, <2>2, <2>3, <2>4, <2>5, CallSafe
<1>7. CASE DelaySet
  <2>1. /\ ~Scanning /\ run.on = run.thr /\ ~Masks /\ run.pc = "delay_set"
    BY <1>7 DEF DelaySet, At, Scanning, ScanPoint, SafetyInv, RunPlaced, WellPlaced
  <2>2. /\ state' = [state EXCEPT ![run.on] = "BLOCKED"]
        /\ run' = [run EXCEPT !.pc = "yield", !.on = run.thr]
        /\ UNCHANGED <<tasks, current, cnt, reload, ctx>>
    BY <1>7 DEF DelaySet, Goto
  <2>3. run'.pc = "yield" /\ run'.thr = run.thr /\ run'.on = run.thr
    BY <1>2, <2>2 DEF Frame
  <2>4. ~Scanning' /\ WellPlaced(run') /\ Credit' /\ Leaving'
    BY <2>1, <2>2, <2>3 DEF Scanning, ScanPoint, WellPlaced, SafetyInv, Credit, Leaving
  <2>5. \A t \in Task : state'[t] = "RUNNING" => state[t] = "RUNNING"
    BY <1>2, <2>2
  <2> QED BY <1>1, <2>1, <2>2, <2>3, <2>4, <2>5, CallSafe
<1>8. CASE TaskSuspend
  <2>1. /\ ~Scanning /\ run.pc = "app" /\ run.thr = Current
        /\ UNCHANGED <<tasks, current, state, cnt, reload, ctx>>
    BY <1>8 DEF TaskSuspend, Calls, Refuse, Scanning, ScanPoint, SafetyInv,
                RunnerInv, Runner, tcbs
  <2>2. state[run.thr] \in {"READY", "RUNNING"} /\ Credit'
    BY <2>1 DEF SafetyInv, Runnable, Runner, Leaving, Credit
  <2>3. \/ run' = run
        \/ \E t \in Task : /\ run' = [run EXCEPT !.pc = "susp_set", !.on = t]
                           /\ t = Current => "suspend_self" \in App[run.thr]
    BY <1>8 DEF TaskSuspend, Refuse, Goto, Calls
  <2>4. CASE run' = run
    BY <1>1, <2>1, <2>2, <2>4, CallSafe DEF Scanning, SafetyInv, RunPlaced
  <2>5. ASSUME NEW t \in Task, run' = [run EXCEPT !.pc = "susp_set", !.on = t],
               t = Current => "suspend_self" \in App[run.thr]
        PROVE  SafetyInv'
    <3>1. run'.pc = "susp_set" /\ run'.thr = run.thr /\ run'.on = t
      BY <1>2, <2>5 DEF Frame
    <3>2. ~Scanning' /\ WellPlaced(run')
      BY <1>2, <2>1, <2>5, <3>1 DEF Scanning, ScanPoint, WellPlaced, Undisturbed
    <3> QED BY <1>1, <2>1, <2>2, <3>1, <3>2, CallSafe
  <2> QED BY <2>3, <2>4, <2>5
<1>9. CASE SuspendSet
  <2>1. ~Scanning /\ run.pc = "susp_set"
    BY <1>9 DEF SuspendSet, At, Scanning, ScanPoint
  <2>2. /\ state' = [state EXCEPT ![run.on] = "SUSPENDED"]
        /\ run' = [run EXCEPT !.pc = "susp_yield", !.on = run.on]
        /\ UNCHANGED <<tasks, current, cnt, reload, ctx>>
    BY <1>9 DEF SuspendSet, Goto
  <2>3. run'.pc = "susp_yield" /\ run'.thr = run.thr /\ run'.on = run.on
    BY <1>2, <2>2 DEF Frame
  <2>4. ~Scanning' /\ WellPlaced(run') /\ Credit'
    BY <2>1, <2>2, <2>3 DEF Scanning, ScanPoint, WellPlaced, SafetyInv, RunPlaced, Credit
  <2>5. /\ \A t \in Task : state'[t] = "RUNNING" => state[t] = "RUNNING"
        /\ state'[run.thr] \in {"READY", "RUNNING"} \/ Leaving'
    BY <1>2, <2>1, <2>2, <2>3 DEF SafetyInv, Runnable, Runner, Leaving
  <2> QED BY <1>1, <2>1, <2>2, <2>3, <2>4, <2>5, CallSafe
<1>10. CASE SuspendYield
  <2>1. ~Scanning /\ run.pc = "susp_yield" /\ run.thr = Current
    BY <1>10 DEF SuspendYield, At, Scanning, ScanPoint, SafetyInv, RunnerInv, Runner
  <2>2. CASE run.on = Current
    <3>1. ~Masks /\ EnterYield
      BY <1>10, <2>1, <2>2 DEF SuspendYield, SafetyInv, RunPlaced, WellPlaced
    <3> QED BY <2>1, <3>1, EnterYieldSafe
  <2>3. CASE run.on # Current
    <3>1. /\ run' = [run EXCEPT !.pc = "app", !.on = run.thr]
          /\ UNCHANGED <<tasks, current, state, cnt, reload, ctx>>
      BY <1>10, <2>3 DEF SuspendYield, Return, Goto, tcbs
    <3>2. run'.pc = "app" /\ run'.thr = run.thr
      BY <1>2, <3>1 DEF Frame
    <3>3. ~Scanning' /\ WellPlaced(run') /\ Credit'
      BY <3>1, <3>2 DEF Scanning, ScanPoint, WellPlaced, SafetyInv, Credit
    <3>4. state[run.thr] \in {"READY", "RUNNING"}
      BY <2>1, <2>3 DEF SafetyInv, Runnable, Runner, Leaving
    <3> QED BY <1>1, <2>1, <3>1, <3>2, <3>3, <3>4, CallSafe
  <2> QED BY <2>2, <2>3
<1>11. CASE TaskResume
  <2>1. /\ ~Scanning /\ run.pc = "app"
        /\ UNCHANGED <<tasks, current, state, cnt, reload, ctx>>
    BY <1>11 DEF TaskResume, Calls, Refuse, Scanning, ScanPoint, tcbs
  <2>2. state[run.thr] \in {"READY", "RUNNING"} /\ Credit'
    BY <2>1 DEF SafetyInv, Runnable, Runner, Leaving, Credit
  <2>3. CASE run' = run
    BY <1>1, <2>1, <2>2, <2>3, CallSafe DEF Scanning, SafetyInv, RunPlaced
  <2>4. ASSUME NEW t \in Task, run' = [run EXCEPT !.pc = "res_set", !.on = t]
        PROVE  SafetyInv'
    <3>1. run'.pc = "res_set" /\ run'.thr = run.thr
      BY <1>2, <2>4 DEF Frame
    <3>2. ~Scanning' /\ WellPlaced(run')
      BY <3>1 DEF Scanning, ScanPoint, WellPlaced
    <3> QED BY <1>1, <2>1, <2>2, <3>1, <3>2, CallSafe
  <2> QED BY <1>11, <2>3, <2>4 DEF TaskResume, Refuse, Goto
<1>12. CASE ResumeSet
  <2>1. ~Scanning /\ run.pc = "res_set"
    BY <1>12 DEF ResumeSet, At, Scanning, ScanPoint
  <2>2. /\ state' = [state EXCEPT ![run.on] = "READY"]
        /\ run' = [run EXCEPT !.pc = "app", !.on = run.thr]
        /\ UNCHANGED <<tasks, current, cnt, reload, ctx>>
    BY <1>12 DEF ResumeSet, Return, Goto
  <2>3. run'.pc = "app" /\ run'.thr = run.thr
    BY <1>2, <2>2 DEF Frame
  <2>4. ~Scanning' /\ WellPlaced(run') /\ Credit'
    BY <2>2, <2>3 DEF Scanning, ScanPoint, WellPlaced, SafetyInv, Credit
  <2>5. /\ \A t \in Task : state'[t] = "RUNNING" => state[t] = "RUNNING"
        /\ state'[run.thr] \in {"READY", "RUNNING"}
    BY <1>2, <2>1, <2>2 DEF SafetyInv, Runnable, Runner, Leaving
  <2> QED BY <1>1, <2>1, <2>2, <2>3, <2>4, <2>5, CallSafe
<1>13. CASE TaskPriority
  <2>1. /\ ~Scanning /\ run.pc = "app"
        /\ UNCHANGED <<tasks, current, state, ctx, run>>
    BY <1>13 DEF TaskPriority, Calls, Scanning, ScanPoint
  <2>2. PICK t \in Task, p \in Levels : /\ cnt' = [cnt EXCEPT ![t] = p]
                                        /\ reload' = [reload EXCEPT ![t] = p]
    BY <1>13 DEF TaskPriority
  <2>3. p \in 1..p
    BY LevelAssumption
  <2>4. Credit'
    BY <1>1, <2>2, <2>3 DEF SafetyInv, Credit, TypeOK
  <2>5. ~Scanning' /\ WellPlaced(run') /\ state[run.thr] \in {"READY", "RUNNING"}
    BY <2>1 DEF Scanning, SafetyInv, RunPlaced, Runnable, Runner, Leaving
  <2> QED BY <1>1, <2>1, <2>4, <2>5, CallSafe
<1>14. CASE TaskWfi
  <2>1. /\ ~Scanning /\ run.pc = "app"
        /\ UNCHANGED <<tasks, current, state, cnt, reload, ctx>>
        /\ run' = [run EXCEPT !.pc = "wfi", !.on = run.thr]
    BY <1>14 DEF TaskWfi, Calls, Goto, Scanning, ScanPoint, tcbs
  <2>2. run'.pc = "wfi" /\ run'.thr = run.thr
    BY <1>2, <2>1 DEF Frame
  <2>3. ~Scanning' /\ WellPlaced(run') /\ Credit'
    BY <2>1, <2>2 DEF Scanning, ScanPoint, WellPlaced, SafetyInv, Credit
  <2>4. state[run.thr] \in {"READY", "RUNNING"}
    BY <2>1 DEF SafetyInv, Runnable, Runner, Leaving
  <2> QED BY <1>1, <2>1, <2>2, <2>3, <2>4, CallSafe
<1>15. CASE TaskSpawn
  <2>1. ~Scanning /\ run.pc = "app" /\ UNCHANGED <<current, run, ie>>
    BY <1>15 DEF TaskSpawn, Calls, Scanning, ScanPoint
  <2>2. CASE Len(tasks) < MaxTasks
    <3>1. PICK t \in Task :
            /\ ~Listed(t)
            /\ tasks' = Append(tasks, t)
            /\ state' = [state EXCEPT ![t] = "READY"]
            /\ cnt' = [cnt EXCEPT ![t] = NormalLevel]
            /\ reload' = [reload EXCEPT ![t] = NormalLevel]
            /\ ctx' = [ctx EXCEPT ![t] = FreshFrame(t)]
      BY <1>15, <2>2 DEF TaskSpawn
    <3>2. TypeOK /\ tasks \in Seq(Task) /\ current \in 1..Len(tasks)
      BY <1>1 DEF TypeOK
    <3>3. /\ Len(tasks') = Len(tasks) + 1
          /\ \A k \in 1..Len(tasks) : tasks'[k] = tasks[k]
          /\ tasks'[Len(tasks) + 1] = t
      BY <3>1, <3>2
    <3>4. Distinct'
      <4>1. SUFFICES ASSUME NEW j \in 1..Len(tasks'), NEW k \in 1..Len(tasks'),
                            tasks'[j] = tasks'[k]
                     PROVE  j = k
        BY DEF Distinct
      <4>2. Len(tasks) \in Nat
        BY <3>2
      <4>3. \A m \in 1..Len(tasks) : tasks[m] # t
        BY <3>1 DEF Listed
      <4>4. CASE j \in 1..Len(tasks) /\ k \in 1..Len(tasks)
        BY <3>3, <4>1, <4>4 DEF SafetyInv, Distinct
      <4> QED BY <3>3, <4>1, <4>2, <4>3, <4>4
    <3>5. Current' = Current /\ t # Current
      BY <2>1, <3>1, <3>2, <3>3 DEF Current, Listed
    <3>6. Credit'
      <4>1. NormalLevel \in 1..NormalLevel
        BY LevelAssumption
      <4> QED BY <3>1, <3>2, <4>1 DEF Credit, SafetyInv, TypeOK
    <3>7. CtxPlaced'
      <4>1. /\ FreshFrame(t).thr = t /\ FreshFrame(t).pc \notin ScanPoint \cup {"launch"}
            /\ WellPlaced(FreshFrame(t))
        BY DEF FreshFrame, ScanPoint, WellPlaced
      <4> QED BY <3>1, <3>2, <4>1 DEF CtxPlaced, SafetyInv, TypeOK, WellPlaced, Masks
    <3>8. RunPlaced' /\ TicksOff' /\ RunnerInv' /\ Runnable'
      BY <1>2, <2>1, <3>1, <3>5 DEF SafetyInv, RunPlaced, WellPlaced, Masks,
         TicksOff, RunnerInv, Runnable, Runner, Leaving, Scanning
    <3> QED BY <1>1, <3>4, <3>6, <3>7, <3>8 DEF SafetyInv
  <2>3. CASE ~(Len(tasks) < MaxTasks)
    <3>1. UNCHANGED <<tasks, state, cnt, reload, ctx>>
      BY <1>15, <2>3 DEF TaskSpawn, tcbs
    <3> QED BY <1>1, <2>1, <3>1 DEF SafetyInv, Distinct, Credit, RunPlaced,
         CtxPlaced, WellPlaced, Masks, TicksOff, RunnerInv, Runnable, Runner, Leaving,
         Scanning, Current
  <2> QED BY <2>2, <2>3
<1>16. CASE TaskCancel
  <2>1. /\ ~Scanning /\ run.pc = "app"
        /\ UNCHANGED <<state, cnt, reload, ctx, run, ie>>
    BY <1>16 DEF TaskCancel, Calls, Scanning, ScanPoint
  <2>2. PICK i \in 1..Len(tasks) :
          /\ i # current
          /\ tasks' = RemoveAt(tasks, i)
          /\ current' = IF i < current THEN current - 1 ELSE current
    BY <1>16 DEF TaskCancel
  <2>3. tasks \in Seq(Task) /\ Len(tasks) \in Nat /\ current \in 1..Len(tasks)
    <3>1. TypeOK
      BY <1>1
    <3> QED BY <3>1 DEF TypeOK
  <2>4. Len(tasks) > 1
    BY <2>2, <2>3
  <2>5. /\ Len(tasks') = Len(tasks) - 1
        /\ \A k \in 1..(Len(tasks) - 1) :
             tasks'[k] = IF k < i THEN tasks[k] ELSE tasks[k + 1]
    BY <2>2, <2>3, <2>4, RemoveAtType
  <2>6. Distinct'
    BY <2>2, <2>3, <2>5 DEF Distinct, SafetyInv
  <2>7. Current' = Current
    BY <2>2, <2>3, <2>5 DEF Current
  <2>8. RunPlaced' /\ CtxPlaced' /\ TicksOff' /\ Credit' /\ RunnerInv' /\ Runnable'
    BY <2>1, <2>7 DEF SafetyInv, Credit, RunPlaced, CtxPlaced, WellPlaced, Masks,
       TicksOff, RunnerInv, Runnable, Runner, Leaving, Scanning
  <2> QED BY <1>1, <2>6, <2>8 DEF SafetyInv
<1>17. CASE UNCHANGED vars
  BY <1>17 DEF vars, SafetyInv, TypeOK, Distinct, Credit, RunPlaced, CtxPlaced,
     WellPlaced, TicksOff, RunnerInv, Runnable, Runner, Leaving, Scanning, Current, Masks
<1> QED
  BY <1>3, <1>4, <1>5, <1>6, <1>7, <1>8, <1>9, <1>10, <1>11, <1>12, <1>13,
     <1>14, <1>15, <1>16, <1>17, <1>18
     DEF Next, Api, Halted

LEMMA Safety ==
  ASSUME Undisturbed
  PROVE  Spec => []SafetyInv
<1>1. SafetyInv /\ [Next]_vars => SafetyInv'
  BY SafetyStep
<1> QED BY <1>1, SafetyInit, PTL DEF Spec

\* The code on the CPU is that of kcb->task_current, and at most that task is
\* RUNNING.
THEOREM RunnerIsCurrent ==
  ASSUME Undisturbed
  PROVE  Spec => []OneRunner
<1>1. SafetyInv => OneRunner
  BY DEF SafetyInv, RunnerInv, OneRunner
<1> QED BY <1>1, Safety, PTL

\* A longjmp to a task continues that task's own code on its own stack.
THEOREM ContextsStayOwned ==
  ASSUME Undisturbed
  PROVE  Spec => []ContextsOwned
<1>1. SafetyInv => ContextsOwned
  BY DEF SafetyInv, CtxPlaced, ContextsOwned
<1> QED BY <1>1, Safety, PTL

\* A task that delayed or suspended itself does not run its own code before
\* it has been woken and chosen.
THEOREM BlockedTasksWait ==
  ASSUME Undisturbed
  PROVE  Spec => []BlockedNeverRuns
<1>1. SafetyInv => BlockedNeverRuns
  BY DEF SafetyInv, TypeOK, RunnerInv, Runnable, Runner, Leaving, BlockedNeverRuns,
         Scanning, ScanPoint, Listed, Current
<1> QED BY <1>1, Safety, PTL

(***************************************************************************)
(* The search of krnl_schedule ends. While it runs, every READY task is    *)
(* due within a number of visits that, with those already made (itcnt),    *)
(* stays within list length * reload: a visit to another task brings it    *)
(* one position closer, a visit to it costs it one credit and a lap.       *)
(***************************************************************************)
SearchBudget ==
  Scanning /\ halted = "no" =>
    \A i \in 1..Len(tasks) :
      state[tasks[i]] = "READY" =>
        run.n + Len(tasks) * (cnt[tasks[i]] - 1) + Distance(i)
          <= Len(tasks) * reload[tasks[i]]

\* The longest search the tasks can ask for fits KRNL_SCHED_IMAX.
BudgetFits == \A p \in Levels : MaxTasks * p <= IMAX + 1

LEMMA TimesStep == \A k, x \in Nat : k * (x + 1) = k * x + k
OBVIOUS

LEMMA TimesMonotone ==
  ASSUME NEW k \in Nat, NEW x \in Nat, NEW y \in Nat, x <= y
  PROVE  k * x <= k * y /\ x * k <= y * k
<1>1. y - x \in Nat /\ k * (y - x) >= 0
  OBVIOUS
<1>2. k * y = k * x + k * (y - x)
  OBVIOUS
<1> QED BY <1>1, <1>2

LEMMA DistanceRange ==
  ASSUME TypeOK, NEW i \in 1..Len(tasks)
  PROVE  Distance(i) \in 1..Len(tasks)
BY DEF TypeOK, Distance

LEMMA DistanceStep ==
  ASSUME TypeOK, NEW t \in Task, Visit(t), UNCHANGED tasks,
         NEW i \in 1..Len(tasks)
  PROVE  IF i = current' THEN Distance(i) = 1 /\ Distance(i)' = Len(tasks)
                         ELSE Distance(i)' = Distance(i) - 1
<1>1. /\ Len(tasks) \in Nat /\ current \in 1..Len(tasks)
      /\ current' = IF current = Len(tasks) THEN 1 ELSE current + 1
      /\ Len(tasks)' = Len(tasks)
  BY DEF TypeOK, Visit, Successor
<1>2. Distance(i)' = IF i > current' THEN i - current' ELSE (i + Len(tasks)) - current'
  BY <1>1 DEF Distance
<1> QED BY <1>1, <1>2 DEF Distance

LEMMA TcbNumbers ==
  ASSUME TypeOK, Credit, NEW i \in 1..Len(tasks)
  PROVE  /\ Len(tasks) \in Nat /\ run.n \in Nat /\ tasks[i] \in Task
         /\ reload[tasks[i]] \in Nat /\ cnt[tasks[i]] \in Nat
         /\ cnt[tasks[i]] >= 1 /\ cnt[tasks[i]] <= reload[tasks[i]]
<1>1. tasks[i] \in Task /\ Len(tasks) \in Nat /\ run.n \in Nat
  BY DEF TypeOK, Frame
<1>2. reload[tasks[i]] \in Nat /\ cnt[tasks[i]] \in Nat
  BY <1>1, LevelAssumption DEF TypeOK
<1> QED BY <1>1, <1>2 DEF Credit

\* At its start a search owes every task at most one full round.
LEMMA SearchStarts ==
  ASSUME TypeOK, Credit, TypeOK', UNCHANGED <<tasks, current, cnt, reload>>,
         run'.n = 0
  PROVE  SearchBudget'
<1> SUFFICES ASSUME NEW i \in 1..Len(tasks)
             PROVE  0 + Len(tasks) * (cnt[tasks[i]] - 1) + Distance(i)
                      <= Len(tasks) * reload[tasks[i]]
  BY DEF SearchBudget, Distance
<1> DEFINE c == cnt[tasks[i]]
           r == reload[tasks[i]]
           L == Len(tasks)
<1>1. L \in Nat /\ r \in Nat /\ c \in Nat /\ c >= 1 /\ c <= r
  BY TcbNumbers
<1>2. Distance(i) \in 1..L
  BY DistanceRange
<1>3. c - 1 \in Nat /\ c \in Nat /\ (c - 1) + 1 = c
  BY <1>1
<1> HIDE DEF c, r, L
<1>4. L * c = L * (c - 1) + L
  BY <1>1, <1>3, TimesStep
<1>5. L * c <= L * r
  BY <1>1, TimesMonotone
<1>6. L * c \in Nat /\ L * r \in Nat /\ L * (c - 1) \in Nat
  BY <1>1, <1>3
<1>7. 0 + L * (c - 1) + Distance(i) <= L * r
  BY <1>1, <1>2, <1>4, <1>5, <1>6
<1> QED BY <1>7 DEF c, r, L

LEMMA SearchInit == Init => SearchBudget
BY DEF Init, SearchBudget, Scanning, ScanPoint, FreshFrame

LEMMA SearchStep == SafetyInv /\ SearchBudget /\ [Next]_vars => SearchBudget'
<1> SUFFICES ASSUME SafetyInv, SearchBudget, [Next]_vars PROVE SearchBudget'
  OBVIOUS
<1>1. TypeOK /\ TypeOK'
  BY TypeStep DEF SafetyInv
<1>2. run \in Frame /\ Len(tasks) \in Nat
  BY <1>1 DEF TypeOK
<1>3. CASE Tick
  BY <1>1, <1>2, <1>3, SearchStarts DEF Tick, SafetyInv, Frame
<1>4. CASE EnterYield
  BY <1>1, <1>2, <1>4, SearchStarts DEF EnterYield, SafetyInv, Frame
<1>5. CASE ScanPanic
  BY <1>5 DEF ScanPanic, SearchBudget
<1>6. CASE ScanSkip
  <2>1. PICK t \in Task : Visit(t) /\ state[t] # "READY"
    BY <1>6 DEF ScanSkip
  <2>2. UNCHANGED <<tasks, state, cnt, reload>> /\ run'.n = run.n + 1
    BY <1>2, <1>6 DEF ScanSkip, NextVisit, tcbs, Frame
  <2>3. Scanning /\ halted = "no" /\ tasks[current'] = t
    BY <2>1, <2>2 DEF Visit
  <2>4. ASSUME NEW i \in 1..Len(tasks), state[tasks[i]] = "READY"
        PROVE  run'.n + Len(tasks) * (cnt[tasks[i]] - 1) + Distance(i)'
                 <= Len(tasks) * reload[tasks[i]]
    <3>1. i # current'
      BY <2>1, <2>3, <2>4
    <3>2. Distance(i)' = Distance(i) - 1 /\ Distance(i) \in Int
      BY <1>1, <2>1, <2>2, <3>1, DistanceStep, DistanceRange
    <3>3. run.n + Len(tasks) * (cnt[tasks[i]] - 1) + Distance(i)
            <= Len(tasks) * reload[tasks[i]]
      BY <2>3, <2>4 DEF SearchBudget
    <3>4. /\ Len(tasks) * (cnt[tasks[i]] - 1) \in Int
          /\ Len(tasks) * reload[tasks[i]] \in Int
          /\ run.n \in Nat
      BY <1>1, TcbNumbers DEF SafetyInv
    <3> QED BY <2>2, <3>2, <3>3, <3>4
  <2> QED BY <2>2, <2>4 DEF SearchBudget
<1>7. CASE ScanAge
  <2>1. PICK t \in Task :
          /\ Visit(t) /\ cnt[t] # 1
          /\ cnt' = [cnt EXCEPT ![t] = IF @ = 0 THEN 255 ELSE @ - 1]
    BY <1>7 DEF ScanAge
  <2>2. UNCHANGED <<tasks, state, reload>> /\ run'.n = run.n + 1
    BY <1>2, <1>7 DEF ScanAge, NextVisit, Frame
  <2>3. Scanning /\ halted = "no" /\ tasks[current'] = t /\ current' \in 1..Len(tasks)
    BY <1>1, <2>1, <2>2, VisitType DEF Visit
  <2>4. ASSUME NEW i \in 1..Len(tasks), state[tasks[i]] = "READY"
        PROVE  run'.n + Len(tasks) * (cnt'[tasks[i]] - 1) + Distance(i)'
                 <= Len(tasks) * reload[tasks[i]]
    <3> DEFINE c == cnt[tasks[i]]
               L == Len(tasks)
               bound == L * reload[tasks[i]]
    <3>1. c \in Nat /\ c >= 1 /\ L \in Nat /\ bound \in Int /\ run.n \in Nat
      BY <1>1, TcbNumbers DEF SafetyInv
    <3>2. run.n + L * (c - 1) + Distance(i) <= bound
      BY <2>3, <2>4 DEF SearchBudget
    <3>3. Distance(i) \in Int
      BY <1>1, DistanceRange
    <3>4. CASE i = current'
      <4>1. /\ cnt'[tasks[i]] = c - 1 /\ c - 2 \in Nat
            /\ Distance(i) = 1 /\ Distance(i)' = L
        <5>1. tasks[i] = t /\ c # 1
          BY <2>1, <2>3, <3>4
        <5>2. cnt'[t] = c - 1
          BY <1>1, <2>1, <3>1, <5>1 DEF TypeOK
        <5>3. Distance(i) = 1 /\ Distance(i)' = L
          BY <1>1, <2>1, <2>2, <3>4, DistanceStep
        <5> QED BY <3>1, <5>1, <5>2, <5>3
      <4> HIDE DEF c, L, bound
      <4>2. L * (c - 1) = L * (c - 2) + L
        BY <3>1, <4>1, TimesStep
      <4>3. L * (c - 2) \in Nat /\ (c - 1) - 1 = c - 2
        BY <3>1, <4>1
      <4>4. run'.n + L * ((c - 1) - 1) + L <= bound
        BY <2>2, <3>1, <3>2, <4>1, <4>2, <4>3
      <4> QED BY <4>1, <4>4 DEF c, L, bound
    <3>5. CASE i # current'
      <4>1. tasks[i] # t
        BY <2>3, <3>5 DEF SafetyInv, Distinct
      <4>2. cnt'[tasks[i]] = c /\ Distance(i)' = Distance(i) - 1
        BY <1>1, <2>1, <2>2, <3>5, <4>1, DistanceStep DEF TypeOK
      <4> DEFINE left == L * (c - 1)
      <4>3. left \in Int
        BY <3>1
      <4>4. run.n + left + Distance(i) <= bound
        BY <3>2
      <4> HIDE DEF left, bound
      <4>5. (run.n + 1) + left + (Distance(i) - 1) <= bound
        BY <3>1, <3>3, <4>3, <4>4
      <4>6. run'.n + left + Distance(i)' <= bound
        BY <2>2, <4>2, <4>5
      <4> QED BY <4>2, <4>6 DEF left, bound
    <3> QED BY <3>4, <3>5
  <2> QED BY <2>2, <2>4 DEF SearchBudget
<1>8. CASE ScanSelect \/ Launch
  <2>1. run'.pc \notin ScanPoint
    <3>1. CASE ScanSelect
      <4>1. PICK t \in Task : run' = IF FirstRun(t) THEN [run EXCEPT !.pc = "launch", !.on = t, !.n = 0]
                                     ELSE ctx[t]
        BY <3>1 DEF ScanSelect, Chosen
      <4>2. CASE FirstRun(t)
        <5>1. run'.pc = "launch"
          BY <1>2, <4>1, <4>2 DEF Frame
        <5> QED BY <5>1 DEF ScanPoint
      <4>3. CASE ~FirstRun(t)
        BY <4>1, <4>3 DEF SafetyInv, CtxPlaced
      <4> QED BY <4>2, <4>3
    <3>2. CASE Launch
      <4>1. run' = ctx[run.on] /\ run.on \in Task
        BY <1>2, <3>2 DEF Launch, Frame
      <4> QED BY <4>1 DEF SafetyInv, CtxPlaced
    <3> QED BY <1>8, <3>1, <3>2
  <2> QED BY <2>1 DEF SearchBudget, Scanning
<1>9. CASE UNCHANGED run /\ ~Scanning
  BY <1>9 DEF SearchBudget, Scanning
<1>10. CASE run'.pc \notin ScanPoint
  BY <1>10 DEF SearchBudget, Scanning
<1>11. CASE Api
  <2>1. ~Scanning
    BY <1>11 DEF Api, TaskYield, TaskDelay, DelaySet, DelayYield, TaskSuspend,
       SuspendSet, SuspendYield, TaskResume, ResumeSet, TaskPriority, TaskWfi,
       TaskSpawn, TaskCancel, Calls, At, Scanning, ScanPoint
  <2>2. EnterYield \/ UNCHANGED run
          \/ \E pc \in Point \ ScanPoint, t \in Task : Goto(pc, t)
    <3>1. Current \in Task /\ run.thr \in Task /\ run.on \in Task
      <4>1. TypeOK
        BY <1>1
      <4> QED BY <4>1 DEF TypeOK, Frame, Current
    <3>2. {"app", "wfi", "delay_set", "yield", "susp_set", "susp_yield", "res_set"}
            \subseteq Point \ ScanPoint
      BY DEF Point, ScanPoint
    <3>3. CASE TaskYield \/ DelayYield
      BY <3>3 DEF TaskYield, DelayYield
    <3>4. CASE TaskDelay \/ DelaySet \/ TaskWfi
      BY <3>1, <3>2, <3>4 DEF TaskDelay, DelaySet, TaskWfi
    <3>5. CASE TaskSuspend \/ TaskResume
      BY <3>2, <3>5 DEF TaskSuspend, TaskResume, Refuse
    <3>6. CASE SuspendSet \/ ResumeSet
      BY <3>1, <3>2, <3>6 DEF SuspendSet, ResumeSet, Return
    <3>7. CASE SuspendYield
      BY <3>1, <3>2, <3>7 DEF SuspendYield, Return
    <3>8. CASE TaskPriority \/ TaskSpawn \/ TaskCancel
      BY <3>8 DEF TaskPriority, TaskSpawn, TaskCancel
    <3> QED BY <1>11, <3>3, <3>4, <3>5, <3>6, <3>7, <3>8 DEF Api
  <2>3. ASSUME NEW pc \in Point \ ScanPoint, NEW t \in Task, Goto(pc, t)
        PROVE  run'.pc \notin ScanPoint
    BY <1>2, <2>3 DEF Goto, Frame
  <2> QED BY <1>4, <1>9, <1>10, <2>1, <2>2, <2>3
<1>12. CASE UNCHANGED vars
  BY <1>12 DEF vars, SearchBudget, Scanning, Distance
<1> QED
  BY <1>3, <1>5, <1>6, <1>7, <1>8, <1>11, <1>12 DEF Next, Scan, Halted

\* A READY task leaves the search room below KRNL_SCHED_IMAX.
LEMMA SearchFits ==
  ASSUME BudgetFits, TypeOK, Credit, SearchBudget, Scanning, halted = "no",
         NEW i \in 1..Len(tasks), state[tasks[i]] = "READY"
  PROVE  run.n <= IMAX
<1> DEFINE r == reload[tasks[i]]
           L == Len(tasks)
           left == L * (cnt[tasks[i]] - 1)
<1>1. L \in Nat /\ r \in Nat /\ r \in Levels /\ run.n \in Nat /\ left \in Nat
  <2>1. L \in Nat /\ r \in Nat /\ run.n \in Nat /\ cnt[tasks[i]] - 1 \in Nat
    BY TcbNumbers
  <2>2. r \in Levels
    BY TcbNumbers DEF TypeOK
  <2>3. left \in Nat
    <3>1. \A x, y \in Nat : x * y \in Nat
      OBVIOUS
    <3> QED BY <2>1, <3>1
  <2> QED BY <2>1, <2>2, <2>3
<1>2. run.n + left + Distance(i) <= L * r
  BY DEF SearchBudget
<1>3. Distance(i) \in Nat /\ Distance(i) >= 1
  BY DistanceRange
<1>4. L <= MaxTasks /\ MaxTasks \in Nat /\ IMAX \in Nat
  BY BootAssumption, LevelAssumption DEF TypeOK
<1> HIDE DEF r, L, left
<1>5. L * r <= MaxTasks * r
  BY <1>1, <1>4, TimesMonotone
<1>6. MaxTasks * r <= IMAX + 1
  BY <1>1 DEF BudgetFits
<1>7. L * r \in Nat /\ MaxTasks * r \in Nat
  BY <1>1, <1>4
<1>8. L * r <= IMAX + 1
  BY <1>4, <1>5, <1>6, <1>7
<1>9. run.n + 1 <= run.n + left + Distance(i)
  BY <1>1, <1>3
<1> DEFINE b == L * r
           d == run.n + left + Distance(i)
<1>10. b \in Nat /\ d \in Nat /\ d <= b /\ b <= IMAX + 1 /\ run.n + 1 <= d
  BY <1>1, <1>2, <1>3, <1>7, <1>8, <1>9
<1> HIDE DEF b, d
<1> QED BY <1>1, <1>4, <1>10

\* krnl_schedule panics with ERR_NO_TASKS only when no task is READY, provided
\* list length * reload never exceeds KRNL_SCHED_IMAX + 1. (Forty tasks at
\* TASK_IDLE_PRIO do exceed it.)
THEOREM PanicMeansNoTask ==
  ASSUME Undisturbed, BudgetFits
  PROVE  Spec => []PanicOnlyWhenNoneReady
<1> DEFINE Inv == SafetyInv /\ SearchBudget /\ PanicOnlyWhenNoneReady
<1>1. Init => Inv
  BY SafetyInit, SearchInit DEF Init, PanicOnlyWhenNoneReady
<1>2. Inv /\ [Next]_vars => Inv'
  <2> SUFFICES ASSUME Inv, [Next]_vars PROVE Inv'
    OBVIOUS
  <2>1. SafetyInv' /\ SearchBudget'
    BY SafetyStep, SearchStep
  <2>2. TypeOK /\ Credit
    BY DEF SafetyInv
  <2>3. CASE ScanPanic
    <3>1. Scanning /\ halted = "no" /\ run.n > IMAX /\ UNCHANGED <<tasks, state>>
      BY <2>3 DEF ScanPanic, Visit, tcbs
    <3>2. run.n \in Nat /\ IMAX \in Nat
      BY <2>2, LevelAssumption DEF TypeOK, Frame
    <3>3. \A i \in 1..Len(tasks) : state[tasks[i]] # "READY"
      BY <2>2, <3>1, <3>2, SearchFits
    <3> QED BY <2>1, <3>1, <3>3 DEF PanicOnlyWhenNoneReady, Listed
  <2>4. CASE UNCHANGED vars
    BY <2>1, <2>4 DEF vars, PanicOnlyWhenNoneReady, Listed
  <2>5. CASE halted = "no" /\ ~ScanPanic
    <3>1. halted' \in {"no", "ERR_TCB_ALLOC"} \/ UNCHANGED vars
      BY <2>5 DEF Next, Tick, Scan, ScanSkip, ScanAge, ScanSelect, Launch, Api, TaskYield,
         TaskDelay, DelaySet, DelayYield, TaskSuspend, SuspendSet, SuspendYield,
         TaskResume, ResumeSet, TaskPriority, TaskWfi, TaskSpawn, TaskCancel,
         EnterYield, Refuse, Halted, vars
    <3> QED BY <2>1, <2>4, <3>1 DEF PanicOnlyWhenNoneReady
  <2>6. CASE halted # "no"
    <3>1. UNCHANGED vars
      BY <2>6 DEF Next, Tick, Scan, ScanPanic, ScanSkip, ScanAge, ScanSelect, Launch,
         Chosen, Visit, Api, TaskYield, TaskDelay, DelaySet, DelayYield,
         TaskSuspend, SuspendSet, SuspendYield, TaskResume, ResumeSet,
         TaskPriority, TaskWfi, TaskSpawn, TaskCancel, Calls, At, Halted, vars
    <3> QED BY <2>4, <3>1
  <2> QED BY <2>3, <2>5, <2>6
<1>3. Inv => PanicOnlyWhenNoneReady
  OBVIOUS
<1> QED BY <1>1, <1>2, <1>3, PTL DEF Spec

(***************************************************************************)
(* Ticks stay enabled: they are masked in krnl_schedule and, on the        *)
(* generic HAL, inside a critical section, and every longjmp to a thread   *)
(* that is in neither enables them. A frame saved by yield() would not.    *)
(***************************************************************************)
Critical == {"delay_set", "susp_set", "res_set"}
Unmasked ==
  /\ Preemptive /\ ~Scanning /\ (Masks => run.pc \notin Critical) => ie
  /\ Masks => \A t \in Task : saved[t] # "yield"

LEMMA UnmaskedStep == Undisturbed /\ SafetyInv /\ Unmasked /\ [Next]_vars => Unmasked'
<1> SUFFICES ASSUME Undisturbed, SafetyInv, Unmasked, [Next]_vars PROVE Unmasked'
  OBVIOUS
<1>1. TypeOK /\ run \in Frame /\ run.thr \in Task /\ run.on \in Task
  BY DEF SafetyInv, TypeOK, Frame
<1>2. Masks' = Masks
  BY DEF Masks
<1>3. CASE Tick
  BY <1>1, <1>2, <1>3 DEF Tick, Unmasked, Scanning, ScanPoint, Frame, TypeOK
<1>4. ASSUME EnterYield, ~Masks PROVE Unmasked'
  BY <1>1, <1>2, <1>4 DEF EnterYield, Unmasked, Scanning, ScanPoint, Frame
<1>5. CASE ScanPanic
  BY <1>2, <1>5 DEF ScanPanic, Visit, Unmasked, Scanning
<1>6. CASE ScanSkip \/ ScanAge
  <2>1. Scanning /\ run'.pc = run.pc /\ UNCHANGED saved
    BY <1>1, <1>6 DEF ScanSkip, ScanAge, NextVisit, Visit, Frame
  <2> QED BY <1>2, <2>1 DEF Unmasked, Scanning
<1>7. CASE ScanSelect
  <2>1. PICK t \in Task : Scanning /\ (ie' = ResumedIe(t))
    BY <1>7 DEF ScanSelect, Chosen, Visit
  <2>2. UNCHANGED saved
    BY <1>7 DEF ScanSelect
  <2>3. CASE Masks
    <3>1. run.pc = "irq_scan" /\ saved[t] \in {"start", "irq"}
      BY <1>1, <2>1, <2>3 DEF SafetyInv, RunPlaced, WellPlaced, Scanning, ScanPoint,
                              Unmasked, TypeOK
    <3> QED BY <1>2, <2>1, <2>2, <2>3, <3>1 DEF ResumedIe, FirstRun, Masks, Unmasked
  <2>4. CASE ~Masks
    <3>1. Preemptive => ie'
      BY <2>1, <2>4, HalAssumption DEF ResumedIe, FirstRun, Masks
    <3> QED BY <1>2, <2>4, <3>1 DEF Unmasked
  <2> QED BY <2>3, <2>4
<1>8. CASE TaskYield \/ DelayYield
  <2>1. ~Masks
    BY <1>1, <1>8 DEF TaskYield, DelayYield, Calls, At, Undisturbed, SafetyInv,
                      RunPlaced, WellPlaced
  <2> QED BY <1>4, <1>8, <2>1 DEF TaskYield, DelayYield
<1>9. CASE TaskDelay
  <2>1. ~Masks
    BY <1>1, <1>9 DEF TaskDelay, Calls, Undisturbed
  <2> QED BY <1>1, <1>2, <1>9, <2>1
          DEF TaskDelay, Calls, CriticalEnter, Unmasked, Scanning, ScanPoint
<1>10. CASE TaskSuspend \/ TaskResume
  <2>1. run.pc = "app" /\ ~Scanning /\ UNCHANGED saved
    BY <1>10 DEF TaskSuspend, TaskResume, Calls, Refuse, Scanning, ScanPoint
  <2>2. \/ run' = run /\ CriticalLeave
        \/ \E pc \in Critical, t \in Task : Goto(pc, t) /\ CriticalEnter
    BY <1>10 DEF TaskSuspend, TaskResume, Refuse, Critical
  <2>3. CASE run' = run /\ CriticalLeave
    BY <1>2, <2>1, <2>3 DEF Unmasked, CriticalLeave, Critical
  <2>4. ASSUME NEW pc \in Critical, NEW t \in Task, Goto(pc, t), CriticalEnter
        PROVE  Unmasked'
    <3>1. run'.pc \in Critical
      BY <1>1, <2>4 DEF Goto, Frame
    <3> QED BY <1>2, <2>1, <2>4, <3>1 DEF Unmasked, CriticalEnter, Critical
  <2> QED BY <2>2, <2>3, <2>4
<1>11. CASE DelaySet \/ SuspendSet \/ ResumeSet
  <2>1. ~Scanning /\ CriticalLeave /\ UNCHANGED saved
    BY <1>11 DEF DelaySet, SuspendSet, ResumeSet, At, Scanning, ScanPoint
  <2> QED BY <1>2, <2>1 DEF CriticalLeave, Unmasked
<1>12. CASE SuspendYield
  <2>1. run.pc = "susp_yield" /\ ~Scanning
    BY <1>12 DEF SuspendYield, At, Scanning, ScanPoint
  <2>2. CASE run.on = Current
    <3>1. ~Masks
      BY <2>1, <2>2 DEF SafetyInv, RunPlaced, WellPlaced, RunnerInv, Runner
    <3> QED BY <1>4, <1>12, <2>2, <3>1 DEF SuspendYield
  <2>3. CASE run.on # Current
    BY <1>2, <1>12, <2>1, <2>3 DEF SuspendYield, Unmasked, Critical
  <2> QED BY <2>2, <2>3
<1>13. CASE TaskPriority \/ TaskWfi \/ TaskSpawn \/ TaskCancel
  <2>1. run.pc = "app" /\ ~Scanning
    BY <1>13 DEF TaskPriority, TaskWfi, TaskSpawn, TaskCancel, Calls, Scanning, ScanPoint
  <2>3. CriticalLeave \/ UNCHANGED ie
    BY <1>13 DEF TaskPriority, TaskWfi, TaskSpawn, TaskCancel
  <2>4. ie => ie'
    BY <2>3 DEF CriticalLeave
  <2>2. Masks => UNCHANGED saved
    <3>1. CASE TaskPriority \/ TaskWfi \/ TaskCancel
      BY <3>1 DEF TaskPriority, TaskWfi, TaskCancel
    <3>2. CASE TaskSpawn
      <4>1. run.thr \in Task /\ "spawn" \in App[run.thr]
        BY <1>1, <3>2 DEF TaskSpawn, Calls, Frame
      <4>2. ~Masks
        BY <4>1, StaticAssumption DEF Masks
      <4> QED BY <4>2
    <3> QED BY <1>13, <3>1, <3>2
  <2> QED BY <1>2, <2>1, <2>2, <2>4 DEF Unmasked, Critical
<1>14. CASE UNCHANGED vars
  BY <1>2, <1>14 DEF vars, Unmasked, Scanning
<1>15. CASE Launch
  <2>1. run.pc = "launch" /\ ~Scanning /\ run.pc \notin Critical /\ UNCHANGED <<ie, saved>>
    BY <1>15 DEF Launch, At, Scanning, ScanPoint, Critical
  <2> QED BY <1>2, <2>1 DEF Unmasked
<1> QED
  BY <1>3, <1>5, <1>6, <1>7, <1>8, <1>9, <1>10, <1>11, <1>12, <1>13, <1>14, <1>15
     DEF Next, Scan, Api, Halted

\* Application code of a preemptive system never runs with the tick masked.
THEOREM AppStaysPreemptible ==
  ASSUME Undisturbed
  PROVE  Spec => []AppIsPreemptible
<1>1. Init => Unmasked
  BY DEF Init, Unmasked
<1>2. SafetyInv /\ Unmasked /\ [Next]_vars => Unmasked'
  BY UnmaskedStep
<1>3. Unmasked => AppIsPreemptible
  BY DEF Unmasked, AppIsPreemptible, Scanning, ScanPoint, Critical
<1> QED BY <1>1, <1>2, <1>3, Safety, PTL DEF Spec

-----------------------------------------------------------------------------
(***************************************************************************)
(* The kernel does what Scheduling promises, for every list, set of levels *)
(* and application: what krnl_schedule does with credits and positions is  *)
(* invisible, and every other step is one of the promised ones.            *)
(***************************************************************************)
\* Nothing comes between the test of a state in ucx_task_suspend or
\* ucx_task_resume and the write it decides on. (On the stm32f4 a tick does,
\* and a suspend can then hit a task that has gone to sleep.)
AtomicCalls == Masks \/ ~Preemptive

\* The TCBs are those the heap has room for, so that a spawn that finds no
\* memory finds no task that is not in the list either.
TasksFit == IsFiniteSet(Task) /\ Cardinality(Task) <= MaxTasks

(***************************************************************************)
(* What a call has tested still holds when it writes.                      *)
(***************************************************************************)
Tested ==
  /\ run.pc = "susp_set" => Listed(run.on) /\ Suspendable(run.on)
  /\ run.pc = "res_set" => Listed(run.on) /\ state[run.on] = "SUSPENDED"
Sheltered ==
  /\ Masks /\ run.pc \in Critical => ~ie
  /\ \A t \in Task : ctx[t].pc \notin Critical

LEMMA TestedInit == Init => Tested /\ Sheltered
BY DEF Init, Tested, Sheltered, FreshFrame, Critical

\* A step that ends outside of the three points.
LEMMA LeavesCritical ==
  ASSUME run'.pc \notin Critical, \A t \in Task : ctx'[t].pc \notin Critical
  PROVE  Tested' /\ Sheltered'
BY DEF Tested, Sheltered, Critical

LEMMA TestedStep ==
  SafetyInv /\ AtomicCalls /\ Tested /\ Sheltered /\ [Next]_vars => Tested' /\ Sheltered'
<1> SUFFICES ASSUME SafetyInv, AtomicCalls, Tested, Sheltered, [Next]_vars
             PROVE  Tested' /\ Sheltered'
  OBVIOUS
<1>1. /\ run \in Frame /\ ctx \in [Task -> Frame] /\ Current \in Task
      /\ run.thr \in Task /\ run.on \in Task
  BY DEF SafetyInv, TypeOK, Current, Frame
<1>2. \A t \in Task : ctx[t].pc \notin Critical
  BY DEF Sheltered
<1>3. CASE Tick
  <2>1. run.pc \notin Critical
    BY <1>3 DEF Tick, AtomicCalls, Sheltered
  <2>2. PICK f \in Frame : /\ ctx' = [ctx EXCEPT ![Current] = f]
                           /\ f = IF run.pc = "wfi" THEN [run EXCEPT !.pc = "app"] ELSE run
    BY <1>1, <1>3 DEF Tick, Frame, Point
  <2>3. f.pc \notin Critical /\ run'.pc \notin Critical
    BY <1>1, <1>3, <2>1, <2>2 DEF Tick, Frame, Critical
  <2> QED BY <1>1, <1>2, <2>2, <2>3, LeavesCritical
<1>4. CASE EnterYield
  <2>1. run'.pc \notin Critical /\ \A t \in Task : ctx'[t].pc \notin Critical
    BY <1>1, <1>2, <1>4 DEF EnterYield, Frame, Critical
  <2> QED BY <2>1, LeavesCritical
<1>5. CASE ScanPanic \/ ScanSkip \/ ScanAge
  <2>1. run'.pc = run.pc /\ run.pc \in ScanPoint /\ ctx' = ctx
    BY <1>1, <1>5 DEF ScanPanic, ScanSkip, ScanAge, NextVisit, Visit, Scanning, Frame
  <2> QED BY <1>2, <2>1, LeavesCritical DEF ScanPoint, Critical
<1>6. CASE ScanSelect \/ Launch
  <2>1. \/ \E t \in Task : run' = ctx[t]
        \/ \E t \in Task : run' = [run EXCEPT !.pc = "launch", !.on = t, !.n = 0]
    BY <1>1, <1>6 DEF ScanSelect, Chosen, Launch
  <2>2. run'.pc \notin Critical /\ ctx' = ctx
    BY <1>1, <1>2, <1>6, <2>1 DEF ScanSelect, Launch, Critical, Frame
  <2> QED BY <1>2, <2>2, LeavesCritical
<1>7. CASE TaskDelay
  <2>1. run'.pc = "delay_set" /\ ctx' = ctx /\ ie' = (ie /\ ~Masks)
    BY <1>1, <1>7 DEF TaskDelay, CriticalEnter, Goto, Frame
  <2> QED BY <1>2, <2>1 DEF Tested, Sheltered, Masks
<1>8. CASE TaskSuspend \/ TaskResume
  <2>1. run.pc = "app" /\ ctx' = ctx /\ UNCHANGED <<tasks, state>>
    BY <1>8 DEF TaskSuspend, TaskResume, Calls, Refuse, tcbs
  <2>2. CASE run' = run
    BY <1>2, <2>1, <2>2, LeavesCritical DEF Critical
  <2>3. CASE run' # run
    <3>1. CriticalEnter
      BY <1>8, <2>3 DEF TaskSuspend, TaskResume, Refuse
    <3>2. \E t \in Task : /\ Listed(t)
                          /\ \/ Suspendable(t) /\ Goto("susp_set", t)
                             \/ state[t] = "SUSPENDED" /\ Goto("res_set", t)
      BY <1>8, <2>3 DEF TaskSuspend, TaskResume, Refuse
    <3>3. PICK t \in Task : /\ Listed(t)
                            /\ \/ Suspendable(t) /\ Goto("susp_set", t)
                               \/ state[t] = "SUSPENDED" /\ Goto("res_set", t)
      BY <3>2
    <3>4. /\ run'.on = t
          /\ \/ Suspendable(t) /\ run'.pc = "susp_set"
             \/ state[t] = "SUSPENDED" /\ run'.pc = "res_set"
      BY <1>1, <3>3 DEF Goto, Frame
    <3>5. Tested'
      BY <2>1, <3>3, <3>4 DEF Tested, Listed, Suspendable
    <3> QED BY <1>2, <2>1, <3>1, <3>5 DEF Sheltered, CriticalEnter, Masks
  <2> QED BY <2>2, <2>3
<1>9. CASE DelaySet \/ SuspendSet \/ ResumeSet \/ TaskWfi
  <2>1. run'.pc \in {"yield", "susp_yield", "app", "wfi"} /\ ctx' = ctx
    BY <1>1, <1>9 DEF DelaySet, SuspendSet, ResumeSet, TaskWfi, Goto, Return, Frame
  <2> QED BY <1>2, <2>1, LeavesCritical DEF Critical
<1>10. CASE SuspendYield
  <2>1. CASE run.on = Current
    BY <1>4, <1>10, <2>1 DEF SuspendYield
  <2>2. CASE run.on # Current
    <3>1. run'.pc = "app" /\ ctx' = ctx
      BY <1>1, <1>10, <2>2 DEF SuspendYield, Return, Goto, Frame
    <3> QED BY <1>2, <3>1, LeavesCritical DEF Critical
  <2> QED BY <2>1, <2>2
<1>11. CASE TaskPriority \/ TaskCancel
  <2>1. run.pc = "app" /\ run' = run /\ ctx' = ctx
    BY <1>11 DEF TaskPriority, TaskCancel, Calls
  <2> QED BY <1>2, <2>1, LeavesCritical DEF Critical
<1>12. CASE TaskSpawn
  <2>1. /\ run.pc = "app" /\ run' = run
        /\ ctx' = ctx \/ \E t \in Task : ctx' = [ctx EXCEPT ![t] = FreshFrame(t)]
    BY <1>12 DEF TaskSpawn, Calls
  <2>2. \A t \in Task : ctx'[t].pc \notin Critical
    BY <1>1, <1>2, <2>1 DEF FreshFrame, Critical
  <2> QED BY <2>1, <2>2, LeavesCritical DEF Critical
<1>13. CASE UNCHANGED vars
  BY <1>13 DEF vars, Tested, Sheltered, Listed, Suspendable, Masks
<1>14. TaskYield \/ DelayYield => EnterYield
  BY DEF TaskYield, DelayYield
<1> QED
  BY <1>3, <1>4, <1>5, <1>6, <1>7, <1>8, <1>9, <1>10, <1>11, <1>12, <1>13, <1>14
     DEF Next, Scan, Api, Halted

(***************************************************************************)
(* The state of a task as Scheduling sees it, and how a step changes it.   *)
(***************************************************************************)
Seen(t) == IF Listed(t) THEN state[t] ELSE "ABSENT"
Same == \A u \in Task : Seen(u)' = Seen(u)
Sets(t, s) == \A u \in Task : Seen(u)' = IF u = t THEN s ELSE Seen(u)

LEMMA SameSeen ==
  Same => [u \in Task |-> Seen(u)]' = [u \in Task |-> Seen(u)]
BY DEF Same

LEMMA BecomesSeen ==
  ASSUME NEW t \in Task, NEW s, Sets(t, s)
  PROVE  Promise!Becomes(t, s)
<1>1. [u \in Task |-> Seen(u)]' = [[u \in Task |-> Seen(u)] EXCEPT ![t] = s]
  BY DEF Sets
<1> QED BY <1>1 DEF Promise!Becomes, Seen

LEMMA ListedStays == tasks' = tasks => \A u \in Task : Listed(u)' = Listed(u)
BY DEF Listed

LEMMA StateSeen ==
  ASSUME TypeOK, tasks' = tasks
  PROVE  /\ state' = state => Same
         /\ \A t \in Task, s \in State :
              Listed(t) /\ state' = [state EXCEPT ![t] = s] => Sets(t, s)
<1>1. \A u \in Task : Listed(u)' = Listed(u)
  BY ListedStays
<1>2. state' = state => Same
  BY <1>1 DEF Same, Seen
<1>3. ASSUME NEW t \in Task, NEW s \in State,
             Listed(t), state' = [state EXCEPT ![t] = s]
      PROVE  Sets(t, s)
  BY <1>1, <1>3 DEF Sets, Seen, TypeOK
<1> QED BY <1>2, <1>3

\* A step within krnl_schedule, or within a call, that no task's state shows.
LEMMA Invisible ==
  ASSUME Same, UNCHANGED halted, Scanning' = Scanning, Scanning \/ Runner' = Runner
  PROVE  UNCHANGED Promise!svars
<1>1. [u \in Task |-> Seen(u)]' = [u \in Task |-> Seen(u)]
  BY SameSeen
<1> QED BY <1>1 DEF Promise!svars, Seen

\* The running thread's task is in the list.
LEMMA CurrentListed == TypeOK => Current \in Task /\ Listed(Current)
BY DEF TypeOK, Current, Listed

\* A full list holds every TCB.
LEMMA FullHoldsAll ==
  ASSUME TasksFit, TypeOK, Distinct, ~(Len(tasks) < MaxTasks)
  PROVE  \A t \in Task : Listed(t)
<1> DEFINE I == 1..Len(tasks)
<1>1. /\ Len(tasks) \in Nat /\ tasks \in [I -> Task]
      /\ MaxTasks \in Nat /\ Len(tasks) = MaxTasks
  <2>1. tasks \in Seq(Task) /\ Len(tasks) \in 1..MaxTasks /\ MaxTasks \in Nat
    BY BootAssumption DEF TypeOK
  <2>2. tasks \in [I -> Task] /\ Len(tasks) \in Nat
    BY <2>1
  <2>3. \A n, m \in Nat : n \in 1..m /\ ~(n < m) => n = m
    OBVIOUS
  <2> HIDE DEF I
  <2> QED BY <2>1, <2>2, <2>3
<1>2. tasks \in Injection(I, Task)
  BY <1>1 DEF Injection, IsInjective, Distinct
<1>3. IsFiniteSet(Task) /\ Cardinality(Task) \in Nat
  BY FS_CardinalityType DEF TasksFit
<1>4. Cardinality(I) = Len(tasks)
  BY <1>1, FS_Interval
<1>5. Cardinality(I) <= Cardinality(Task)
  BY <1>2, <1>3, FS_Injection
<1>6. Cardinality(I) = Cardinality(Task)
  BY <1>1, <1>3, <1>4, <1>5 DEF TasksFit
<1>7. tasks \in Surjection(I, Task)
  BY <1>2, <1>3, <1>6, FS_Injection
<1> QED BY <1>1, <1>7 DEF Surjection, Listed

(***************************************************************************)
(* Every step is one of Scheduling, or none.                               *)
(***************************************************************************)
\* A tick or a yield takes the processor.
LEMMA EntryDeschedules ==
  ASSUME SafetyInv, ~Scanning, Scanning', NEW upd \in BOOLEAN, EnterSchedule(upd),
         UNCHANGED <<tasks, halted>>, halted = "no"
  PROVE  Promise!SNext
<1> DEFINE woken == {t \in Task : upd /\ Expires(t)}
<1>1. /\ Runner = Current /\ Listed(Current) /\ Current \in Task
      /\ state \in [Task -> State]
  BY CurrentListed DEF SafetyInv, RunnerInv, TypeOK
<1>2. woken \in SUBSET {t \in Task : Seen(t) = "BLOCKED"}
  BY DEF Expires, Seen
<1>3. \A t \in Task : Listed(t)' = Listed(t)
  BY ListedStays
<1>4. \A t \in Task : Seen(t)' = IF t \in woken \/ (t \in {Runner} /\ Seen(t) = "RUNNING")
                                 THEN "READY" ELSE Seen(t)
  <2> SUFFICES ASSUME NEW t \in Task
               PROVE  Seen(t)' = IF t \in woken \/ (t \in {Runner} /\ Seen(t) = "RUNNING")
                                 THEN "READY" ELSE Seen(t)
    OBVIOUS
  <2>1. state'[t] = IF (upd /\ Expires(t)) \/ (t = Current /\ state[t] = "RUNNING")
                    THEN "READY" ELSE state[t]
    BY DEF EnterSchedule
  <2>2. t \in woken => Listed(t) /\ upd /\ Expires(t)
    BY DEF Expires
  <2>3. upd /\ Expires(t) => t \in woken
    OBVIOUS
  <2> HIDE DEF woken
  <2> QED BY <1>1, <1>3, <2>1, <2>2, <2>3 DEF Seen
<1>5. [t \in Task |-> Seen(t)]' =
        [t \in Task |-> IF t \in woken \/ (t \in {Runner} /\ Seen(t) = "RUNNING")
                        THEN "READY" ELSE Seen(t)]
  <2> HIDE DEF woken
  <2> QED BY <1>4
<1> HIDE DEF woken
<1>6. Promise!Deschedule
  <2>1. woken \in SUBSET {t \in Task : [u \in Task |-> Seen(u)][t] = "BLOCKED"}
    BY <1>2
  <2>2. [t \in Task |-> Seen(t)]' =
          [t \in Task |->
             IF t \in woken \/ (t \in {Runner} /\ [u \in Task |-> Seen(u)][t] = "RUNNING")
             THEN "READY" ELSE [u \in Task |-> Seen(u)][t]]
    BY <1>5
  <2> QED BY <2>1, <2>2 DEF Promise!Deschedule, Seen
<1> QED BY <1>6 DEF Promise!SNext

LEMMA StepRefines ==
  ASSUME BudgetFits, TasksFit, SafetyInv, SafetyInv', SearchBudget, Tested, [Next]_vars
  PROVE  [Promise!SNext]_(Promise!svars)
<1> SUFFICES Promise!SNext \/ UNCHANGED Promise!svars
  OBVIOUS
<1>1. /\ TypeOK /\ Credit /\ Distinct /\ run \in Frame
      /\ run.thr \in Task /\ run.on \in Task /\ Current \in Task /\ Listed(Current)
      /\ ~Scanning => Runner = Current
      /\ state \in [Task -> State]
  BY CurrentListed DEF SafetyInv, RunnerInv, TypeOK, Frame
<1>1a. tasks \in Seq(Task) /\ Len(tasks) \in Nat /\ current \in 1..Len(tasks)
  BY <1>1 DEF TypeOK
<1>2. ASSUME EnterYield, ~Scanning, halted = "no" PROVE Promise!SNext
  <2>1. Scanning'
    BY <1>1, <1>2 DEF EnterYield, Scanning, ScanPoint, Frame
  <2>2. PICK upd \in BOOLEAN : EnterSchedule(upd)
    BY <1>2 DEF EnterYield
  <2>3. UNCHANGED <<tasks, halted>>
    BY <1>2 DEF EnterYield
  <2> QED BY <1>2, <2>1, <2>2, <2>3, EntryDeschedules
<1>3. CASE Tick
  <2>1. Scanning' /\ ~Scanning
    BY <1>1, <1>3 DEF Tick, Scanning, ScanPoint, Frame, SafetyInv, TicksOff
  <2>2. EnterSchedule(TRUE) /\ UNCHANGED <<tasks, halted>> /\ halted = "no"
    BY <1>3 DEF Tick
  <2> QED BY <2>1, <2>2, EntryDeschedules
<1>4. CASE ScanPanic
  <2>1. /\ Scanning /\ halted = "no" /\ run.n > IMAX
        /\ UNCHANGED <<tasks, state, run>> /\ halted' = "ERR_NO_TASKS"
    BY <1>4 DEF ScanPanic, Visit, tcbs
  <2>2. run.n \in Nat /\ IMAX \in Nat
    BY <1>1, LevelAssumption DEF Frame
  <2>3. \A j \in 1..Len(tasks) : state[tasks[j]] # "READY"
    BY <1>1, <2>1, <2>2, SearchFits
  <2>4. \A t \in Task : Seen(t) # "READY"
    BY <2>3 DEF Seen, Listed
  <2>5. Same /\ Scanning'
    BY <1>1, <2>1, StateSeen DEF Scanning
  <2>6. [t \in Task |-> Seen(t)]' = [t \in Task |-> Seen(t)]
    BY <2>5, SameSeen
  <2>7. Promise!Stop
    BY <2>1, <2>4, <2>5, <2>6 DEF Promise!Stop, Seen
  <2> QED BY <2>1, <2>7 DEF Promise!SNext
<1>5. CASE ScanSkip \/ ScanAge
  <2>1. Scanning /\ NextVisit /\ UNCHANGED <<tasks, state, halted>>
    BY <1>5 DEF ScanSkip, ScanAge, Visit, tcbs
  <2>2. run'.pc = run.pc
    BY <1>1, <2>1 DEF NextVisit, Frame
  <2> QED BY <1>1, <2>1, <2>2, StateSeen, Invisible DEF Scanning
<1>6. CASE ScanSelect
  <2>1. PICK t \in Task : Chosen(t, [cnt EXCEPT ![t] = reload[t]])
    BY <1>6 DEF ScanSelect
  <2>2. /\ Scanning /\ halted = "no" /\ state[t] = "READY"
        /\ run' = IF FirstRun(t) THEN [run EXCEPT !.pc = "launch", !.on = t, !.n = 0] ELSE ctx[t]
        /\ state' = [state EXCEPT ![t] = "RUNNING"] /\ t = tasks[current']
        /\ UNCHANGED <<tasks, halted>>
    BY <1>6, <2>1 DEF ScanSelect, Chosen, Visit
  <2>3. Listed(t)
    <3>1. current' \in 1..Len(tasks)
      BY <1>1, <2>1, VisitType DEF Chosen
    <3> QED BY <2>2, <3>1 DEF Listed
  <2>4. ~Scanning' /\ Runner' = t
    <3>1. CASE FirstRun(t)
      <4>1. run'.pc = "launch" /\ run'.on = t
        BY <1>1, <2>2, <3>1 DEF Frame
      <4> QED BY <4>1 DEF Scanning, ScanPoint, Runner
    <3>2. CASE ~FirstRun(t)
      BY <2>2, <3>2 DEF SafetyInv, CtxPlaced, Scanning, Runner
    <3> QED BY <3>1, <3>2
  <2>5. Promise!Becomes(t, "RUNNING")
    BY <1>1, <2>2, <2>3, StateSeen, BecomesSeen DEF State
  <2>6. Promise!Dispatch
    BY <2>2, <2>3, <2>4, <2>5 DEF Promise!Dispatch, Seen
  <2> QED BY <2>2, <2>6 DEF Promise!SNext
<1>16. CASE Launch
  <2>1. /\ run.pc = "launch" /\ run' = ctx[run.on] /\ ~Scanning
        /\ UNCHANGED <<tasks, state, halted>>
    BY <1>16 DEF Launch, At, tcbs, Scanning, ScanPoint
  <2>2. ~Scanning' /\ Runner' = Runner
    BY <1>1, <2>1 DEF SafetyInv, CtxPlaced, Scanning, Runner
  <2>3. ~Scanning
    BY <2>1
  <2> QED BY <1>1, <2>1, <2>2, <2>3, StateSeen, Invisible DEF Scanning
<1>7. CASE TaskYield \/ DelayYield
  <2>1. EnterYield /\ ~Scanning /\ halted = "no"
    BY <1>7 DEF TaskYield, DelayYield, Calls, At, Scanning, ScanPoint
  <2> QED BY <1>2, <2>1
<1>8. CASE TaskDelay \/ TaskPriority \/ TaskWfi \/ TaskSuspend \/ TaskResume
  <2>1. /\ ~Scanning /\ UNCHANGED <<tasks, state, halted>>
        /\ Runner = run.thr /\ Runner' = Runner /\ run'.pc \notin ScanPoint
    BY <1>1, <1>8 DEF TaskDelay, TaskPriority, TaskWfi, TaskSuspend, TaskResume, Refuse,
       Goto, Calls, tcbs, Scanning, ScanPoint, Runner, Frame
  <2> QED BY <1>1, <2>1, StateSeen, Invisible DEF Scanning
<1>9. CASE DelaySet
  <2>1. /\ ~Scanning /\ halted = "no" /\ UNCHANGED <<tasks, halted>> /\ run.on = run.thr
        /\ state' = [state EXCEPT ![run.thr] = "BLOCKED"]
        /\ Runner = run.thr /\ Runner' = Runner /\ run'.pc \notin ScanPoint
    BY <1>1, <1>9 DEF DelaySet, At, Goto, Scanning, ScanPoint, Runner, Frame, SafetyInv, RunPlaced,
                      WellPlaced
  <2>2. PICK t \in Task : t = run.thr
    BY <1>1
  <2>3. Promise!Becomes(t, "BLOCKED")
    BY <1>1, <2>1, <2>2, StateSeen, BecomesSeen DEF State
  <2>4. Promise!Block
    BY <2>1, <2>2, <2>3 DEF Promise!Block, Scanning
  <2> QED BY <2>1, <2>4 DEF Promise!SNext
<1>10. CASE SuspendSet
  <2>1. /\ ~Scanning /\ halted = "no" /\ UNCHANGED <<tasks, halted>> /\ run.pc = "susp_set"
        /\ state' = [state EXCEPT ![run.on] = "SUSPENDED"]
        /\ Runner = run.thr /\ Runner' = Runner /\ run'.pc \notin ScanPoint
    BY <1>1, <1>10 DEF SuspendSet, At, Goto, Scanning, ScanPoint, Runner, Frame
  <2>2. PICK t \in Task : t = run.on
    BY <1>1
  <2>3. Listed(t) /\ state[t] \in {"READY", "RUNNING"}
    BY <2>1, <2>2 DEF Tested, Suspendable
  <2>4. Promise!Becomes(t, "SUSPENDED")
    BY <1>1, <2>1, <2>2, <2>3, StateSeen, BecomesSeen DEF State
  <2>5. Promise!Suspend
    BY <2>1, <2>3, <2>4 DEF Promise!Suspend, Scanning, Seen
  <2> QED BY <2>1, <2>5 DEF Promise!SNext
<1>11. CASE SuspendYield
  <2>1. ~Scanning /\ halted = "no"
    BY <1>11 DEF SuspendYield, At, Scanning, ScanPoint
  <2>2. CASE run.on = Current
    BY <1>2, <1>11, <2>1, <2>2 DEF SuspendYield
  <2>3. CASE run.on # Current
    <3>1. /\ UNCHANGED <<tasks, state, halted>>
          /\ Runner = run.thr /\ Runner' = Runner /\ run'.pc \notin ScanPoint
      BY <1>1, <1>11, <2>3 DEF SuspendYield, At, Return, Goto, tcbs, ScanPoint, Runner, Frame
    <3> QED BY <1>1, <2>1, <3>1, StateSeen, Invisible DEF Scanning
  <2> QED BY <2>2, <2>3
<1>12. CASE ResumeSet
  <2>1. /\ ~Scanning /\ halted = "no" /\ UNCHANGED <<tasks, halted>> /\ run.pc = "res_set"
        /\ state' = [state EXCEPT ![run.on] = "READY"]
        /\ Runner = run.thr /\ Runner' = Runner /\ run'.pc \notin ScanPoint
    BY <1>1, <1>12 DEF ResumeSet, At, Return, Goto, Scanning, ScanPoint, Runner, Frame
  <2>2. PICK t \in Task : t = run.on
    BY <1>1
  <2>3. Listed(t) /\ state[t] = "SUSPENDED"
    BY <2>1, <2>2 DEF Tested
  <2>4. Promise!Becomes(t, "READY")
    BY <1>1, <2>1, <2>2, <2>3, StateSeen, BecomesSeen DEF State
  <2>5. Promise!Resume
    BY <2>1, <2>3, <2>4 DEF Promise!Resume, Scanning, Seen
  <2> QED BY <2>1, <2>5 DEF Promise!SNext
<1>13. CASE TaskSpawn
  <2>1. ~Scanning /\ halted = "no" /\ Runner' = Runner /\ ~Scanning'
    BY <1>13 DEF TaskSpawn, Calls, Scanning, ScanPoint, Runner
  <2>2. CASE Len(tasks) < MaxTasks
    <3>1. PICK t \in Task : /\ ~Listed(t) /\ tasks' = Append(tasks, t)
                            /\ state' = [state EXCEPT ![t] = "READY"]
      BY <1>13, <2>2 DEF TaskSpawn
    <3>2. \A u \in Task : Listed(u)' <=> Listed(u) \/ u = t
      <4>1. /\ Len(tasks) \in Nat /\ Len(tasks') = Len(tasks) + 1
            /\ tasks'[Len(tasks) + 1] = t
            /\ \A k \in 1..Len(tasks) : tasks'[k] = tasks[k]
        BY <1>1a, <3>1
      <4>2. 1..Len(tasks') = 1..Len(tasks) \cup {Len(tasks) + 1}
        BY <4>1
      <4> QED BY <4>1, <4>2 DEF Listed
    <3>3. Sets(t, "READY") /\ Seen(t) = "ABSENT"
      BY <1>1, <3>1, <3>2 DEF Sets, Seen
    <3>4. Promise!Becomes(t, "READY")
      BY <3>3, BecomesSeen
    <3>5. Promise!Spawn
      BY <2>1, <3>3, <3>4 DEF Promise!Spawn, Seen
    <3>6. UNCHANGED halted
      BY <1>13, <2>2 DEF TaskSpawn
    <3> QED BY <2>1, <3>5, <3>6 DEF Promise!SNext
  <2>3. CASE ~(Len(tasks) < MaxTasks)
    <3>1. UNCHANGED <<tasks, state>> /\ halted' = "ERR_TCB_ALLOC"
      BY <1>13, <2>3 DEF TaskSpawn, tcbs
    <3>2. \A t \in Task : Seen(t) # "ABSENT"
      <4>1. \A t \in Task : Listed(t)
        BY <1>1, <2>3, FullHoldsAll
      <4> QED BY <1>1, <4>1 DEF Seen, State
    <3>3. [t \in Task |-> Seen(t)]' = [t \in Task |-> Seen(t)]
      BY <1>1, <3>1, StateSeen, SameSeen
    <3>4. Promise!Stop
      BY <2>1, <3>1, <3>2, <3>3 DEF Promise!Stop, Seen
    <3> QED BY <2>1, <3>4 DEF Promise!SNext
  <2> QED BY <2>2, <2>3
<1>14. CASE TaskCancel
  <2>1. /\ ~Scanning /\ halted = "no" /\ Runner' = Runner /\ ~Scanning'
        /\ UNCHANGED <<state, halted>>
    BY <1>14 DEF TaskCancel, Calls, Scanning, ScanPoint, Runner
  <2>2. PICK k \in 1..Len(tasks) : k # current /\ tasks' = RemoveAt(tasks, k)
    BY <1>14 DEF TaskCancel
  <2>3. PICK t \in Task : t = tasks[k]
    <3>1. tasks[k] \in Task
      BY <1>1a
    <3> QED BY <3>1
  <2>4. t # Current /\ Listed(t)
    BY <1>1, <1>1a, <2>2, <2>3 DEF Distinct, Current, Listed
  <2>5. /\ Len(tasks) \in Nat /\ Len(tasks') = Len(tasks) - 1
        /\ \A j \in 1..(Len(tasks) - 1) :
             tasks'[j] = IF j < k THEN tasks[j] ELSE tasks[j + 1]
    <3>1. tasks \in Seq(Task) /\ Len(tasks) > 1 /\ Len(tasks) \in Nat
      BY <1>1a, <2>2
    <3> QED BY <2>2, <3>1, RemoveAtType
  <2>6. \A u \in Task : Listed(u)' => Listed(u) /\ u # t
    <3> SUFFICES ASSUME NEW j \in 1..Len(tasks')
                 PROVE  \E m \in 1..Len(tasks) : m # k /\ tasks'[j] = tasks[m]
      BY <1>1, <2>3 DEF Listed, Distinct
    <3>1. CASE j < k
      BY <2>5, <3>1
    <3>2. CASE ~(j < k)
      <4>1. j + 1 \in 1..Len(tasks) /\ j + 1 # k /\ tasks'[j] = tasks[j + 1]
        BY <2>5, <3>2
      <4> QED BY <4>1
    <3> QED BY <3>1, <3>2
  <2>7. \A u \in Task : Listed(u) /\ u # t => Listed(u)'
    <3> SUFFICES ASSUME NEW m \in 1..Len(tasks), m # k
                 PROVE  \E j \in 1..Len(tasks') : tasks'[j] = tasks[m]
      BY <2>3 DEF Listed
    <3>1. CASE m < k
      <4>1. m \in 1..Len(tasks') /\ tasks'[m] = tasks[m]
        BY <2>5, <3>1
      <4> QED BY <4>1
    <3>2. CASE ~(m < k)
      <4>1. m - 1 \in 1..Len(tasks') /\ ~(m - 1 < k) /\ (m - 1) + 1 = m
        BY <2>5, <3>2
      <4>2. tasks'[m - 1] = tasks[m]
        BY <2>5, <4>1
      <4> QED BY <4>1, <4>2
    <3> QED BY <3>1, <3>2
  <2>8. Sets(t, "ABSENT") /\ Seen(t) # "ABSENT"
    BY <1>1, <2>1, <2>4, <2>6, <2>7 DEF Sets, Seen, State
  <2>9. Promise!Becomes(t, "ABSENT")
    BY <2>8, BecomesSeen
  <2>10. Promise!Cancel
    BY <1>1, <2>1, <2>4, <2>8, <2>9 DEF Promise!Cancel, Seen
  <2> QED BY <2>1, <2>10 DEF Promise!SNext
<1>15. CASE UNCHANGED vars
  <2>1. UNCHANGED <<tasks, state, halted, run>>
    BY <1>15 DEF vars
  <2> QED BY <1>1, <2>1, StateSeen, Invisible DEF Scanning, Runner
<1> QED
  BY <1>3, <1>4, <1>5, <1>6, <1>7, <1>8, <1>9, <1>10, <1>11, <1>12, <1>13, <1>14, <1>15, <1>16
     DEF Next, Scan, Api, Halted

LEMMA InitRefines == Init => Promise!SInit
<1> SUFFICES ASSUME Init PROVE Promise!SInit
  OBVIOUS
<1>1. PICK t \in Task : t = Boot[1]
  BY BootAssumption
<1>2. Listed(t)
  BY <1>1, BootAssumption DEF Init, Listed
<1>3. \A u \in Task : Seen(u) \in {"ABSENT", "READY"}
  BY DEF Init, Seen
<1>4. Seen(t) = "READY" /\ ~Scanning /\ Runner = t /\ halted = "no"
  BY <1>1, <1>2 DEF Init, Seen, Scanning, ScanPoint, Runner, FreshFrame
<1> QED BY <1>3, <1>4 DEF Promise!SInit, Seen

\* The kernel implements Scheduling: between a call or a tick and the next
\* dispatch krnl_schedule does nothing a task could notice, tasks change state
\* only in the ways the task API promises, and the system stops only when there
\* is nothing to run or no memory for a spawn.
THEOREM KernelSchedules ==
  ASSUME Undisturbed, AtomicCalls, BudgetFits, TasksFit
  PROVE  Spec => ImplementsScheduling
<1> DEFINE Inv == SafetyInv /\ SearchBudget /\ Tested /\ Sheltered
<1>1. Init => Inv
  BY SafetyInit, SearchInit, TestedInit
<1>2. Inv /\ [Next]_vars => Inv'
  BY SafetyStep, SearchStep, TestedStep
<1>3. Inv /\ Inv' /\ [Next]_vars => [Promise!SNext]_(Promise!svars)
  BY StepRefines
<1> QED BY <1>1, <1>2, <1>3, InitRefines, PTL DEF Spec, ImplementsScheduling, Promise!SSpec

(***************************************************************************)
(* What ends a delay: krnl_schedule's delay_update alone. Suspend and      *)
(* resume test the state in the critical section they write it in.         *)
(***************************************************************************)
HonoursDelays ==
  \A t \in Task :
    state[t] = "BLOCKED" /\ state'[t] # "BLOCKED" /\ Listed(t) =>
      state'[t] = "READY" /\ delay[t] = 1 /\ delay'[t] = 0

LEMMA EntryHonoursDelays ==
  ASSUME TypeOK, NEW upd \in BOOLEAN, EnterSchedule(upd)
  PROVE  HonoursDelays
BY DEF EnterSchedule, Expires, HonoursDelays, TypeOK

LEMMA DelayStep ==
  SafetyInv /\ Tested /\ [Next]_vars => HonoursDelays
<1> SUFFICES ASSUME SafetyInv, Tested, [Next]_vars
             PROVE  HonoursDelays
  OBVIOUS
<1>1. TypeOK /\ state \in [Task -> State] /\ run.on \in Task
  BY DEF SafetyInv, TypeOK, Frame
<1>2. CASE \E upd \in BOOLEAN : EnterSchedule(upd)
  BY <1>1, <1>2, EntryHonoursDelays
<1>3. CASE state' = state
  BY <1>3 DEF HonoursDelays
<1>4. EnterYield \/ Tick => \E upd \in BOOLEAN : EnterSchedule(upd)
  <2>1. (~Preemptive /\ Hal = "generic") \in BOOLEAN
    OBVIOUS
  <2> QED BY <2>1 DEF EnterYield, Tick
<1>5. ScanPanic \/ ScanSkip \/ ScanAge => state' = state
  BY DEF ScanPanic, ScanSkip, ScanAge, tcbs
<1>6. CASE ScanSelect
  BY <1>1, <1>6 DEF ScanSelect, Chosen, HonoursDelays
<1>7. TaskDelay \/ TaskSuspend \/ TaskResume \/ TaskPriority \/ TaskWfi \/ TaskCancel
        => state' = state
  BY DEF TaskDelay, TaskSuspend, TaskResume, TaskPriority, TaskWfi, TaskCancel, Refuse, tcbs
<1>8. CASE DelaySet
  BY <1>1, <1>8 DEF DelaySet, HonoursDelays
<1>9. CASE SuspendSet
  <2>1. state[run.on] # "BLOCKED"
    BY <1>9 DEF SuspendSet, At, Tested, Suspendable
  <2> QED BY <1>1, <1>9, <2>1 DEF SuspendSet, HonoursDelays
<1>10. CASE ResumeSet
  <2>1. state[run.on] # "BLOCKED"
    BY <1>10 DEF ResumeSet, At, Tested
  <2> QED BY <1>1, <1>10, <2>1 DEF ResumeSet, HonoursDelays
<1>11. CASE TaskSpawn
  <2>1. state' = state \/ \E t \in Task : ~Listed(t) /\ state' = [state EXCEPT ![t] = "READY"]
    BY <1>11 DEF TaskSpawn, tcbs
  <2> QED BY <1>1, <1>3, <2>1 DEF HonoursDelays
<1>12. /\ SuspendYield => EnterYield \/ state' = state
       /\ Launch => state' = state
  BY DEF SuspendYield, Launch, tcbs
<1>13. CASE UNCHANGED vars
  BY <1>3, <1>13 DEF vars
<1> QED
  BY <1>2, <1>3, <1>4, <1>5, <1>6, <1>7, <1>8, <1>9, <1>10, <1>11, <1>12, <1>13
     DEF Next, Scan, Api, Halted, TaskYield, DelayYield

\* A task leaves a delay only when its last tick has been counted: whatever the
\* other tasks suspend, resume, spawn or cancel meanwhile, no call cuts short
\* what ucx_task_delay asked for.
THEOREM DelaysAreHonoured ==
  ASSUME Undisturbed, AtomicCalls
  PROVE  Spec => DelayHonoured
<1>1. Init => SafetyInv /\ Tested /\ Sheltered
  BY SafetyInit, TestedInit
<1>2. (SafetyInv /\ Tested /\ Sheltered) /\ [Next]_vars
        => (SafetyInv /\ Tested /\ Sheltered)'
  BY SafetyStep, TestedStep
<1>3. SafetyInv /\ Tested /\ [Next]_vars
        => [\A t \in Task :
              state[t] = "BLOCKED" /\ state'[t] # "BLOCKED" /\ Listed(t) =>
                state'[t] = "READY" /\ delay[t] = 1 /\ delay'[t] = 0]_vars
  BY DelayStep DEF HonoursDelays
<1> QED BY <1>1, <1>2, <1>3, PTL DEF Spec, DelayHonoured

(***************************************************************************)
(* The bound of KernelFairness.                                            *)
(***************************************************************************)
\* With fixed levels and a fixed list, only krnl_schedule moves credits and
\* the position in the list, and only it makes a task RUNNING.
LEMMA CallsLeaveCredits ==
  ASSUME FixedLevels, TypeOK, [Next]_vars, ~Scan
  PROVE  /\ UNCHANGED <<tasks, current, cnt, reload>>
         /\ halted' = "no" => halted = "no"
         /\ \A t \in Task : state'[t] = "RUNNING" => state[t] = "RUNNING"
<1>1. run.thr \in Task /\ run.on \in Task /\ Current \in Task
  BY DEF TypeOK, Frame, Current
<1>2. ~Calls("priority") /\ ~Calls("spawn") /\ ~Calls("cancel")
  BY <1>1 DEF FixedLevels, Calls
<1>3. ASSUME NEW upd \in BOOLEAN, EnterSchedule(upd)
      PROVE  \A t \in Task : state'[t] = "RUNNING" => state[t] = "RUNNING"
  BY <1>3 DEF EnterSchedule
<1>4. CASE Tick
  BY <1>3, <1>4 DEF Tick
<1>5. CASE EnterYield /\ halted = "no"
  BY <1>3, <1>5, HalAssumption DEF EnterYield
<1>6. CASE TaskYield \/ DelayYield
  BY <1>5, <1>6 DEF TaskYield, DelayYield, Calls, At
<1>7. CASE TaskDelay \/ TaskWfi
  BY <1>7 DEF TaskDelay, TaskWfi, tcbs, Calls
<1>8. CASE DelaySet \/ SuspendSet \/ ResumeSet
  BY <1>1, <1>8 DEF DelaySet, SuspendSet, ResumeSet, At, TypeOK
<1>9. CASE TaskSuspend \/ TaskResume
  BY <1>9 DEF TaskSuspend, TaskResume, Refuse, tcbs, Calls
<1>10. CASE SuspendYield
  BY <1>5, <1>10 DEF SuspendYield, tcbs, At
<1>11. CASE TaskPriority \/ TaskSpawn \/ TaskCancel
  BY <1>2, <1>11 DEF TaskPriority, TaskSpawn, TaskCancel
<1>12. CASE UNCHANGED vars \/ Launch
  BY <1>12 DEF vars, Launch, At, tcbs
<1> QED BY <1>4, <1>6, <1>7, <1>8, <1>9, <1>10, <1>11, <1>12 DEF Next, Api, Halted

\* One iteration of krnl_schedule: who pays, and who is chosen.
LEMMA ScanCases ==
  ASSUME TypeOK, Scan
  PROVE  /\ UNCHANGED <<tasks, reload>>
         /\ halted = "no" /\ current' \in 1..Len(tasks)
         /\ \E t \in Task :
              /\ Visit(t)
              /\ \/ halted' # "no" /\ UNCHANGED <<state, cnt>>
                 \/ state[t] # "READY" /\ UNCHANGED <<state, cnt>>
                 \/ /\ cnt[t] # 1 /\ UNCHANGED state
                    /\ cnt' = [cnt EXCEPT ![t] = IF @ = 0 THEN 255 ELSE @ - 1]
                 \/ /\ state' = [state EXCEPT ![t] = "RUNNING"]
                    /\ cnt' = [cnt EXCEPT ![t] = reload[t]]
<1>1. ASSUME NEW t \in Task, Visit(t)
      PROVE  halted = "no" /\ current' \in 1..Len(tasks)
  BY <1>1, VisitType DEF Visit
<1>2. CASE ScanPanic
  BY <1>1, <1>2 DEF ScanPanic, tcbs
<1>3. CASE ScanSkip
  BY <1>1, <1>3 DEF ScanSkip, tcbs
<1>4. CASE ScanAge
  BY <1>1, <1>4 DEF ScanAge
<1>5. CASE ScanSelect
  BY <1>1, <1>5 DEF ScanSelect, Chosen
<1> QED BY <1>2, <1>3, <1>4, <1>5 DEF Scan

\* The panic changes nobody's state.
LEMMA HaltingScan ==
  ASSUME TypeOK, Scan, halted' # "no"
  PROVE  UNCHANGED <<tasks, reload, state>>
<1>1. ~ScanSkip /\ ~ScanAge /\ ~ScanSelect
  BY DEF ScanSkip, ScanAge, ScanSelect, Chosen, Visit
<1> QED BY <1>1 DEF Scan, ScanPanic, tcbs

\* The list keeps its tasks apart and every credit is positive, even where a
\* tick inside yield() has confused the contexts.
LEMMA CreditsStep ==
  ASSUME FixedLevels, TypeOK, Distinct, Credit, [Next]_vars
  PROVE  Distinct' /\ Credit'
<1>1. CASE ~Scan
  BY <1>1, CallsLeaveCredits DEF Distinct, Credit
<1>2. CASE Scan
  <2>1. UNCHANGED <<tasks, reload>>
    BY <1>2, ScanCases
  <2>2. \A t \in Task : cnt[t] \in Nat /\ reload[t] \in Nat \ {0}
    BY LevelAssumption DEF TypeOK
  <2>3. Credit'
    <3>1. PICK t \in Task :
            \/ UNCHANGED cnt
            \/ cnt[t] # 1 /\ cnt' = [cnt EXCEPT ![t] = IF @ = 0 THEN 255 ELSE @ - 1]
            \/ cnt' = [cnt EXCEPT ![t] = reload[t]]
      BY <1>2, ScanCases
    <3>2. \A v \in Task : v # t => cnt'[v] = cnt[v]
      BY <3>1 DEF TypeOK
    <3>3. cnt[t] \in 1..reload[t]
      BY DEF Credit
    <3>4. cnt'[t] \in 1..reload[t]
      BY <2>2, <3>1, <3>3 DEF TypeOK
    <3>5. \A v \in Task : cnt'[v] \in 1..reload[v]
      BY <3>2, <3>4 DEF Credit
    <3> QED BY <2>1, <3>5 DEF Credit
  <2> QED BY <2>1, <2>3 DEF Distinct
<1> QED BY <1>1, <1>2

(***************************************************************************)
(* The invariant. After a panic krnl_schedule has stepped once more, which *)
(* the budget does not pay for; nobody runs any more, and the bound itself *)
(* still holds.                                                            *)
(***************************************************************************)
FairInv ==
  /\ TypeOK /\ Distinct /\ Credit
  /\ passed \in [Task -> Nat]
  /\ halted = "no" => BypassBudget
  /\ BoundedBypass

LEMMA FairNumbers ==
  ASSUME TypeOK, Credit, passed \in [Task -> Nat], NEW i \in 1..Len(tasks)
  PROVE  /\ Len(tasks) - 1 \in Nat /\ passed[tasks[i]] \in Nat
         /\ cnt[tasks[i]] - 1 \in Nat
         /\ Distance(i) - 1 \in 0..(Len(tasks) - 1)
         /\ (cnt[tasks[i]] - 1) * (Len(tasks) - 1) \in Nat
         /\ reload[tasks[i]] * (Len(tasks) - 1) \in Nat
<1>1. /\ Len(tasks) - 1 \in Nat /\ passed[tasks[i]] \in Nat
      /\ cnt[tasks[i]] - 1 \in Nat /\ reload[tasks[i]] \in Nat
  BY TcbNumbers
<1>2. Distance(i) - 1 \in 0..(Len(tasks) - 1)
  <2>1. Distance(i) \in 1..Len(tasks) /\ Len(tasks) \in Nat
    BY DistanceRange, TcbNumbers
  <2> QED BY <2>1
<1>3. \A x, y \in Nat : x * y \in Nat
  OBVIOUS
<1> QED BY <1>1, <1>2, <1>3

\* A task that has just become READY is owed no more than the bound.
LEMMA FreshBudget ==
  ASSUME TypeOK, Credit, NEW i \in 1..Len(tasks)
  PROVE  (cnt[tasks[i]] - 1) * (Len(tasks) - 1) + (Distance(i) - 1)
           <= reload[tasks[i]] * (Len(tasks) - 1)
<1> DEFINE c == cnt[tasks[i]]
           r == reload[tasks[i]]
           L == Len(tasks) - 1
           d == Distance(i) - 1
<1>1. L \in Nat /\ c \in Nat /\ c - 1 \in Nat /\ r \in Nat /\ c <= r /\ d \in 0..L
  <2>1. Len(tasks) \in Nat /\ c \in Nat /\ c >= 1 /\ r \in Nat /\ c <= r
    BY TcbNumbers
  <2>2. Distance(i) \in 1..Len(tasks)
    BY DistanceRange
  <2> QED BY <2>1, <2>2
<1> HIDE DEF c, r, L, d
<1>2. L * c = L * (c - 1) + L
  BY <1>1, TimesStep
<1>3. c * L <= r * L
  BY <1>1, TimesMonotone
<1>4. L * c = c * L /\ L * (c - 1) = (c - 1) * L
  BY <1>1
<1>5. c * L \in Nat /\ r * L \in Nat /\ (c - 1) * L \in Nat
  BY <1>1
<1>6. (c - 1) * L + d <= r * L
  BY <1>1, <1>2, <1>3, <1>4, <1>5
<1> QED BY <1>6 DEF c, r, L, d

LEMMA BudgetImpliesBound ==
  TypeOK /\ Credit /\ passed \in [Task -> Nat] /\ BypassBudget => BoundedBypass
<1> SUFFICES ASSUME TypeOK, Credit, passed \in [Task -> Nat], BypassBudget,
                    NEW i \in 1..Len(tasks), state[tasks[i]] = "READY"
             PROVE  passed[tasks[i]] <= reload[tasks[i]] * (Len(tasks) - 1)
  BY DEF BoundedBypass, Listed
<1> DEFINE x == (cnt[tasks[i]] - 1) * (Len(tasks) - 1)
           b == reload[tasks[i]] * (Len(tasks) - 1)
           d == Distance(i) - 1
           p == passed[tasks[i]]
<1>1. x \in Nat /\ b \in Nat /\ d \in Nat /\ p \in Nat
  BY FairNumbers
<1>2. p + x + d <= b
  BY DEF BypassBudget
<1> HIDE DEF x, b, d, p
<1>3. p <= b
  BY <1>1, <1>2
<1> QED BY <1>3 DEF b, p

\* A step outside krnl_schedule owes nobody more: a task that stays READY is
\* not passed over, one that becomes READY starts anew.
LEMMA CallsKeepBudget ==
  ASSUME FixedLevels, TypeOK, Credit, passed \in [Task -> Nat], BypassBudget, FNext, ~Scan
  PROVE  BypassBudget'
<1>1. /\ UNCHANGED <<tasks, current, cnt, reload>>
      /\ \A t \in Task : state'[t] = "RUNNING" => state[t] = "RUNNING"
  BY CallsLeaveCredits DEF FNext
<1>2. ~Dispatched
  BY <1>1 DEF Dispatched
<1> SUFFICES ASSUME NEW i \in 1..Len(tasks), state'[tasks[i]] = "READY"
             PROVE  passed'[tasks[i]] + (cnt[tasks[i]] - 1) * (Len(tasks) - 1)
                      + (Distance(i) - 1) <= reload[tasks[i]] * (Len(tasks) - 1)
  BY <1>1 DEF BypassBudget, Distance
<1>3. tasks[i] \in Task
  BY DEF TypeOK
<1>4. CASE state[tasks[i]] = "READY"
  <2>1. passed'[tasks[i]] = passed[tasks[i]]
    BY <1>2, <1>3, <1>4 DEF FNext
  <2> QED BY <1>4, <2>1 DEF BypassBudget
<1>5. CASE state[tasks[i]] # "READY"
  <2>1. passed'[tasks[i]] = 0
    BY <1>3, <1>5 DEF FNext
  <2> DEFINE x == (cnt[tasks[i]] - 1) * (Len(tasks) - 1)
             b == reload[tasks[i]] * (Len(tasks) - 1)
  <2>2. x + (Distance(i) - 1) <= b
    BY FreshBudget
  <2>3. x \in Nat
    BY FairNumbers
  <2> HIDE DEF x, b
  <2>4. passed'[tasks[i]] + x + (Distance(i) - 1) <= b
    BY <2>1, <2>2, <2>3
  <2> QED BY <2>4 DEF x, b
<1> QED BY <1>4, <1>5

\* An iteration of krnl_schedule brings every task one position closer; being
\* passed over costs that position, ageing pays for a lap with one credit.
LEMMA ScanKeepsBudget ==
  ASSUME TypeOK, Distinct, Credit, passed \in [Task -> Nat], BypassBudget,
         FNext, Scan, halted' = "no"
  PROVE  BypassBudget'
<1>1. PICK u \in Task :
        /\ Visit(u)
        /\ \/ state[u] # "READY" /\ UNCHANGED <<state, cnt>>
           \/ /\ cnt[u] # 1 /\ UNCHANGED state
              /\ cnt' = [cnt EXCEPT ![u] = IF @ = 0 THEN 255 ELSE @ - 1]
           \/ /\ state' = [state EXCEPT ![u] = "RUNNING"]
              /\ cnt' = [cnt EXCEPT ![u] = reload[u]]
  BY ScanCases
<1>2. UNCHANGED <<tasks, reload>> /\ current' \in 1..Len(tasks)
  BY ScanCases
<1>3. tasks[current'] = u
  BY <1>1, <1>2 DEF Visit
<1> SUFFICES ASSUME NEW i \in 1..Len(tasks), state'[tasks[i]] = "READY"
             PROVE  passed'[tasks[i]] + (cnt'[tasks[i]] - 1) * (Len(tasks) - 1)
                      + (Distance(i)' - 1) <= reload[tasks[i]] * (Len(tasks) - 1)
  BY <1>2 DEF BypassBudget
<1> DEFINE t == tasks[i]
           c == cnt[t]
           L == Len(tasks) - 1
           b == reload[t] * L
           p == passed[t]
           d == Distance(i)
<1>4. /\ L \in Nat /\ p \in Nat /\ c - 1 \in Nat /\ d \in Int
      /\ (c - 1) * L \in Nat /\ b \in Nat /\ c \in Nat
  <2>1. L \in Nat /\ p \in Nat /\ c - 1 \in Nat /\ (c - 1) * L \in Nat /\ b \in Nat
    BY FairNumbers
  <2>2. c \in Nat
    BY TcbNumbers
  <2>3. d \in Int
    BY DistanceRange
  <2> QED BY <2>1, <2>2, <2>3
<1>5. t \in Task /\ state[t] \in State
  <2>1. tasks \in Seq(Task) /\ state \in [Task -> State]
    BY DEF TypeOK
  <2>2. t \in Task
    BY TcbNumbers
  <2> QED BY <2>1, <2>2
<1>6. state[t] = "READY"
  BY <1>1, <1>5 DEF TypeOK
<1>7. p + (c - 1) * L + (d - 1) <= b
  BY <1>6 DEF BypassBudget
<1>8. CASE i = current'
  <2>1. t = u /\ d = 1 /\ Distance(i)' - 1 = L
    BY <1>1, <1>2, <1>3, <1>4, <1>8, DistanceStep
  <2>2. /\ c # 1 /\ UNCHANGED state
        /\ cnt' = [cnt EXCEPT ![u] = IF @ = 0 THEN 255 ELSE @ - 1]
    BY <1>1, <1>5, <1>6, <2>1 DEF TypeOK
  <2>3. cnt'[t] = c - 1 /\ c - 2 \in Nat
    <3>1. c \in Nat /\ c >= 1 /\ c # 1
      BY <1>4, <2>1, <2>2
    <3>2. cnt'[t] = IF cnt[t] = 0 THEN 255 ELSE cnt[t] - 1
      BY <1>5, <2>1, <2>2 DEF TypeOK
    <3> QED BY <3>1, <3>2
  <2>4. ~Dispatched
    BY <2>2 DEF Dispatched
  <2>5. passed'[t] = p
    BY <1>5, <1>6, <2>4 DEF FNext
  <2> HIDE DEF t, c, L, b, p, d
  <2>6. L * (c - 1) = L * (c - 2) + L
    BY <1>4, <2>3, TimesStep
  <2>7. /\ (c - 1) * L = L * (c - 1) /\ (c - 2) * L = L * (c - 2)
        /\ (c - 2) * L \in Nat /\ (c - 1) - 1 = c - 2
    BY <1>4, <2>3
  <2>8. p + (c - 2) * L + L <= b
    BY <1>4, <1>7, <2>1, <2>6, <2>7
  <2>9. passed'[t] + (cnt'[t] - 1) * L + (Distance(i)' - 1) <= b
    BY <2>1, <2>3, <2>5, <2>7, <2>8
  <2> QED BY <2>9 DEF t, c, L, b, p, d
<1>9. CASE i # current'
  <2>1. t # u
    BY <1>2, <1>3, <1>9 DEF Distinct
  <2>2. cnt'[t] = c /\ Distance(i)' = d - 1
    <3>1. cnt'[t] = c
      BY <1>1, <1>5, <2>1 DEF TypeOK
    <3>2. Distance(i)' = d - 1
      BY <1>1, <1>2, <1>9, DistanceStep
    <3> QED BY <3>1, <3>2
  <2>3. passed'[t] \in {p, p + 1}
    BY <1>5, <1>6 DEF FNext
  <2> DEFINE x == (c - 1) * L
  <2>4. x \in Nat /\ p + x + (d - 1) <= b
    BY <1>4, <1>7
  <2> HIDE DEF x, L, b, p, d, c, t
  <2>5. /\ d \in Int /\ b \in Nat /\ p \in Nat
        /\ Distance(i)' - 1 = d - 2 /\ passed'[t] <= p + 1 /\ passed'[t] \in Nat
    BY <1>4, <2>2, <2>3
  <2>6. passed'[t] + x + (Distance(i)' - 1) <= b
    BY <2>4, <2>5
  <2> QED BY <2>2, <2>6 DEF x, L, b, c, t
<1> QED BY <1>8, <1>9

LEMMA FairInit == FInit => FairInv
<1> SUFFICES ASSUME FInit PROVE FairInv
  OBVIOUS
<1>1. TypeOK /\ Distinct /\ Credit
  BY SafetyInit DEF FInit, SafetyInv
<1>2. passed \in [Task -> Nat] /\ \A t \in Task : passed[t] = 0
  BY DEF FInit
<1>3. BypassBudget
  <2> SUFFICES ASSUME NEW i \in 1..Len(tasks)
               PROVE  passed[tasks[i]] + (cnt[tasks[i]] - 1) * (Len(tasks) - 1)
                        + (Distance(i) - 1) <= reload[tasks[i]] * (Len(tasks) - 1)
    BY DEF BypassBudget
  <2> DEFINE x == (cnt[tasks[i]] - 1) * (Len(tasks) - 1)
             b == reload[tasks[i]] * (Len(tasks) - 1)
  <2>1. x + (Distance(i) - 1) <= b
    BY <1>1, FreshBudget
  <2>2. x \in Nat /\ passed[tasks[i]] = 0
    <3>1. tasks[i] \in Task
      BY <1>1 DEF TypeOK
    <3>2. x \in Nat
      BY <1>1, <1>2, FairNumbers
    <3> QED BY <1>2, <3>1, <3>2
  <2> HIDE DEF x, b
  <2>3. passed[tasks[i]] + x + (Distance(i) - 1) <= b
    BY <2>1, <2>2
  <2> QED BY <2>3 DEF x, b
<1> QED BY <1>1, <1>2, <1>3, BudgetImpliesBound DEF FairInv

LEMMA FairStep ==
  ASSUME FixedLevels
  PROVE  FairInv /\ [FNext]_fvars => FairInv'
<1> SUFFICES ASSUME FairInv, [FNext]_fvars PROVE FairInv'
  OBVIOUS
<1> USE DEF FairInv
<1>1. CASE UNCHANGED fvars
  BY <1>1 DEF fvars, vars, TypeOK, Distinct, Credit, BypassBudget, BoundedBypass,
     Distance, Listed
<1>2. CASE FNext
  <2>1. [Next]_vars
    BY <1>2 DEF FNext
  <2>2. TypeOK' /\ Distinct' /\ Credit'
    BY <2>1, TypeStep, CreditsStep
  <2>3. passed' \in [Task -> Nat]
    BY <1>2 DEF FNext
  <2>4. Len(tasks) - 1 \in Nat /\ \A t \in Task : reload[t] \in Nat
    <3>1. TypeOK
      OBVIOUS
    <3>2. Len(tasks) \in 1..MaxTasks /\ MaxTasks \in Nat
      BY <3>1, BootAssumption DEF TypeOK
    <3>3. reload \in [Task -> Levels] /\ Levels \subseteq Nat
      BY <3>1, LevelAssumption DEF TypeOK
    <3>4. Len(tasks) - 1 \in Nat
      BY <3>2
    <3>5. \A t \in Task : reload[t] \in Nat
      BY <3>3
    <3> QED BY <3>4, <3>5
  <2>5. CASE halted' = "no"
    <3>1. halted = "no"
      BY <2>1, <2>5, CallsLeaveCredits, ScanCases
    <3>2. BypassBudget'
      BY <1>2, <2>5, <3>1, CallsKeepBudget, ScanKeepsBudget
    <3>3. TypeOK' /\ Credit' /\ (passed \in [Task -> Nat])' /\ BypassBudget'
      BY <2>2, <2>3, <3>2
    <3>4. BoundedBypass'
      BY <3>3, BudgetImpliesBound, PTL
    <3> QED BY <2>2, <2>3, <3>2, <3>4
  <2>6. CASE halted' # "no"
    <3>1. /\ UNCHANGED <<tasks, reload>>
          /\ \A t \in Task : state'[t] = "RUNNING" => state[t] = "RUNNING"
      BY <2>1, <2>6, CallsLeaveCredits, HaltingScan
    <3>2. \A t \in Task : passed'[t] <= passed[t] /\ passed'[t] \in Nat
      BY <1>2, <3>1 DEF FNext, Dispatched
    <3>3. ASSUME NEW t \in Task, Listed(t), state'[t] = "READY"
          PROVE  passed'[t] <= reload[t] * (Len(tasks) - 1)
      <4>1. CASE state[t] = "READY"
        <5>1. passed[t] <= reload[t] * (Len(tasks) - 1)
          BY <3>3, <4>1 DEF BoundedBypass
        <5> DEFINE b == reload[t] * (Len(tasks) - 1)
        <5>2. b \in Int
          <6>1. reload[t] \in Int /\ Len(tasks) - 1 \in Int
            BY <2>4, <3>3
          <6> QED BY <6>1
        <5> HIDE DEF b
        <5>3. passed'[t] <= b
          BY <3>2, <3>3, <5>1, <5>2 DEF b
        <5> QED BY <5>3 DEF b
      <4>2. CASE state[t] # "READY"
        <5>1. passed'[t] = 0
          BY <1>2, <4>2 DEF FNext
        <5>2. reload[t] \in Nat /\ Len(tasks) - 1 \in Nat
          BY <2>4, <3>3
        <5>3. reload[t] * (Len(tasks) - 1) \in Nat
          BY <5>2
        <5> QED BY <5>1, <5>3
      <4> QED BY <4>1, <4>2
    <3> QED BY <2>2, <2>3, <2>6, <3>1, <3>3 DEF BoundedBypass, Listed
  <2> QED BY <2>5, <2>6
<1> QED BY <1>1, <1>2

\* However the calls and the ticks interleave, a READY task is passed over at
\* most reload times by each of the other tasks before krnl_schedule chooses it.
THEOREM BypassIsBounded ==
  ASSUME FixedLevels
  PROVE  FSpec => []BoundedBypass
<1>1. FairInv => BoundedBypass
  BY DEF FairInv
<1> QED BY <1>1, FairInit, FairStep, PTL DEF FSpec

\* The one panic of an application that creates no task.
LEMMA OnlySearchPanics ==
  ASSUME FixedLevels, TypeOK, halted \in {"no", "ERR_NO_TASKS"}, [Next]_vars
  PROVE  halted' \in {"no", "ERR_NO_TASKS"}
<1>1. ~TaskSpawn
  BY DEF FixedLevels, TypeOK, Frame, TaskSpawn, Calls
<1>2. Tick \/ ScanSkip \/ ScanAge \/ ScanSelect \/ Launch => halted' = halted
  BY DEF Tick, ScanSkip, ScanAge, ScanSelect, Launch
<1>3. ScanPanic => halted' = "ERR_NO_TASKS"
  BY DEF ScanPanic
<1>4. EnterYield \/ Refuse => halted' = halted
  BY DEF EnterYield, Refuse
<1>5. TaskYield \/ TaskDelay \/ DelaySet \/ DelayYield \/ SuspendSet \/ SuspendYield
        => halted' = halted
  BY <1>4 DEF TaskYield, TaskDelay, DelaySet, DelayYield, SuspendSet, SuspendYield
<1>6. TaskSuspend \/ TaskResume \/ ResumeSet \/ TaskPriority \/ TaskWfi \/ TaskCancel
        => halted' = halted
  BY <1>4 DEF TaskSuspend, TaskResume, ResumeSet, TaskPriority, TaskWfi, TaskCancel
<1>7. Halted \/ UNCHANGED vars => halted' = halted
  BY DEF Halted, vars
<1> QED BY <1>1, <1>2, <1>3, <1>5, <1>6, <1>7 DEF Next, Scan, Api

\* The budget behind the bound holds in every state, a panic included: by
\* PanicMeansNoTask no task is left READY then to have a budget.
THEOREM BypassBudgetHolds ==
  ASSUME FixedLevels, Undisturbed, BudgetFits
  PROVE  FSpec => []BypassBudget
<1> DEFINE Codes == halted \in {"no", "ERR_NO_TASKS"}
<1>1. FSpec => Spec
  <2>1. FInit => Init
    BY DEF FInit
  <2>2. [FNext]_fvars => [Next]_vars
    BY DEF FNext, fvars
  <2> QED BY <2>1, <2>2, PTL DEF FSpec, Spec
<1>2. FSpec => []FairInv
  BY FairInit, FairStep, PTL DEF FSpec
<1>3. FSpec => []Codes
  <2>1. FInit => Codes
    BY DEF FInit, Init
  <2>2. FairInv /\ Codes /\ [FNext]_fvars => Codes'
    <3>1. [FNext]_fvars => [Next]_vars
      BY DEF FNext, fvars
    <3> QED BY <3>1, OnlySearchPanics DEF FairInv
  <2> QED BY <1>2, <2>1, <2>2, PTL DEF FSpec
<1>4. FairInv /\ Codes /\ PanicOnlyWhenNoneReady => BypassBudget
  <2> SUFFICES ASSUME FairInv, Codes, PanicOnlyWhenNoneReady
               PROVE  BypassBudget
    OBVIOUS
  <2>1. CASE halted = "no"
    BY <2>1 DEF FairInv
  <2>2. CASE halted = "ERR_NO_TASKS"
    <3>1. tasks \in Seq(Task)
      BY DEF FairInv, TypeOK
    <3>2. \A i \in 1..Len(tasks) : state[tasks[i]] # "READY"
      BY <2>2, <3>1 DEF PanicOnlyWhenNoneReady, Listed
    <3> QED BY <3>2 DEF BypassBudget
  <2> QED BY <2>1, <2>2
<1> QED BY <1>1, <1>2, <1>3, <1>4, PanicMeansNoTask, PTL
=============================================================================
