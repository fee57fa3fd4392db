------------------------------- MODULE Kernel -------------------------------
(***************************************************************************)
(* The task scheduler and the task API of UCX/OS: kernel/ucx.c, started by *)
(* init/main.c on one of two HALs.                                         *)
(*                                                                         *)
(*   "generic"   the weak dispatch() and yield() of ucx.c over setjmp and  *)
(*               longjmp, interrupts as arch/riscv/riscv32-qemu keeps them *)
(*   "stm32f4"   the overrides of arch/arm/stm32f401_blackpill/hal.c: both *)
(*               entries run in an exception handler, tasks unprivileged   *)
(*                                                                         *)
(* One thread executes at a time. The timer interrupt may come between any *)
(* two of its steps while `ie` holds; the steps are cut where a tick makes *)
(* a difference: at the edges of every critical section, between the two   *)
(* writes of ucx_task_delay, between the test and the write of suspend and *)
(* resume, at every iteration of krnl_schedule, and between the            *)
(* _interrupt_tick() and the longjmp of dispatch().                        *)
(***************************************************************************)
EXTENDS Naturals, Sequences, FiniteSets

CONSTANTS
  Task,         \* TCBs: tasks are told apart by their control block
  MaxTasks,     \* how many TCBs and stacks the heap can hold
  Boot,         \* the tasks app_main spawns, in list order
  BootLevel,    \* the level app_main leaves each task at (ucx_task_priority)
  Levels,       \* reload bytes of enum task_priorities: 1, 3, 7, .. 255
  NormalLevel,  \* the reload byte of TASK_NORMAL_PRIO
  Delays,       \* arguments the application passes to ucx_task_delay
  IMAX,         \* KRNL_SCHED_IMAX
  Hal,          \* "generic" or "stm32f4"
  Preemptive,   \* what app_main returned
  LateTick,     \* a tick period can pass inside the timer handler
  App           \* the kernel calls each task's code makes

ApiCall == {"yield", "delay", "suspend_self", "suspend_other", "resume",
            "priority", "wfi", "spawn", "cancel"}

ASSUME BootAssumption ==
  /\ MaxTasks \in Nat
  /\ Boot \in Seq(Task)
  /\ Len(Boot) \in 1..MaxTasks
  /\ \A i, j \in 1..Len(Boot) : Boot[i] = Boot[j] => i = j
  /\ BootLevel \in [Task -> Levels]
ASSUME LevelAssumption ==
  /\ Levels \subseteq Nat \ {0}
  /\ NormalLevel \in Levels
  /\ Delays \subseteq Nat
  /\ IMAX \in Nat
ASSUME HalAssumption ==
  /\ Hal \in {"generic", "stm32f4"}
  /\ Preemptive \in BOOLEAN
  /\ LateTick \in BOOLEAN
  /\ LateTick => Preemptive /\ Hal = "generic"
  /\ App \in [Task -> SUBSET ApiCall]
\* A preemptive application creates its tasks in app_main and keeps them:
\* spawn and cancel inside a preempted system are not part of this module.
ASSUME StaticAssumption ==
  Preemptive => \A t \in Task : App[t] \cap {"spawn", "cancel"} = {}

VARIABLES
  tasks,    \* kcb->tasks: the list without its two sentinels
  current,  \* kcb->task_current: a position in tasks
  state, delay,
  cnt,      \* low byte of priority: visits left before the task is chosen
  reload,   \* high byte of priority
  ctx,      \* tcb->context: the frame a longjmp to it continues
  saved,    \* what filled ctx: "start", "yield" or "irq"
  run,      \* the frame the CPU executes
  ie,       \* a tick can interrupt now
  halted    \* "no", or the code krnl_panic was called with

vars == <<tasks, current, state, delay, cnt, reload, ctx, saved, run, ie, halted>>
tcbs == <<tasks, state, delay, cnt, reload>>

State == {"READY", "RUNNING", "BLOCKED", "SUSPENDED"}

\* Where a thread can be. "app" is application code; the others are the
\* points of the task API and of krnl_schedule between two of its steps.
\* "launch" is dispatch() between _interrupt_tick() and longjmp, with ticks
\* enabled, when the chosen task has never run: it still is the handler, on the
\* stack of the interrupted thread.
Point == {"app", "wfi", "delay_set", "yield", "susp_set", "susp_yield",
          "res_set", "yield_scan", "irq_scan", "launch"}
ScanPoint == {"yield_scan", "irq_scan"}

\* A frame: whose code and stack, where, the task a call is about, and how
\* many iterations of krnl_schedule it has done (itcnt).
Frame == [thr : Task, pc : Point, on : Task, n : Nat]
FreshFrame(t) == [thr |-> t, pc |-> "app", on |-> t, n |-> 0]

TypeOK ==
  /\ tasks \in Seq(Task)
  /\ Len(tasks) \in 1..MaxTasks
  /\ current \in 1..Len(tasks)
  /\ state \in [Task -> State]
  /\ delay \in [Task -> Nat]
  /\ cnt \in [Task -> Nat]
  /\ reload \in [Task -> Levels]
  /\ ctx \in [Task -> Frame]
  /\ saved \in [Task -> {"start", "yield", "irq"}]
  /\ run \in Frame
  /\ ie \in BOOLEAN
  /\ halted \in {"no", "ERR_NO_TASKS", "ERR_TCB_ALLOC"}

Listed(t) == \E i \in 1..Len(tasks) : tasks[i] = t
Current == tasks[current]
Successor(i) == IF i = Len(tasks) THEN 1 ELSE i + 1
Scanning == run.pc \in ScanPoint

\* The task the CPU executes for: at "launch" the one about to start.
Runner == IF run.pc = "launch" THEN run.on ELSE run.thr

\* How many visits until a scan standing at current reaches position i.
Distance(i) == IF i > current THEN i - current ELSE (i + Len(tasks)) - current

(***************************************************************************)
(* Boot: app_main has spawned the tasks (all READY) and set their levels;  *)
(* the first of the list runs, its state still READY.                      *)
(***************************************************************************)
Init ==
  /\ tasks = Boot
  /\ current = 1
  /\ state = [t \in Task |-> "READY"]
  /\ delay = [t \in Task |-> 0]
  /\ cnt = BootLevel
  /\ reload = BootLevel
  /\ ctx = [t \in Task |-> FreshFrame(t)]
  /\ saved = [t \in Task |-> "start"]
  /\ run = FreshFrame(Boot[1])
  /\ ie = TRUE
  /\ halted = "no"

(***************************************************************************)
(* Critical sections. On the generic HAL _di() and _ei() clear and set the *)
(* interrupt enable bit, and LEAVE sets it whatever it was before. On the  *)
(* stm32f4 tasks run unprivileged, where cpsid and cpsie do nothing.       *)
(***************************************************************************)
Masks == Preemptive /\ Hal = "generic"
CriticalEnter == ie' = (ie /\ ~Masks)
CriticalLeave_StaysMasked == UNCHANGED ie                           \* mutant
CriticalLeave == ie' = (ie \/ Masks)

(***************************************************************************)
(* Entering the scheduler.                                                 *)
(***************************************************************************)
\* krnl_schedule's head, after list_foreach(delay_update) when upd holds.
Expires_OnlyCurrent(t) == t = Current /\ state[t] = "BLOCKED" /\ delay[t] = 1  \* mutant
Expires(t) == Listed(t) /\ state[t] = "BLOCKED" /\ delay[t] = 1
EnterSchedule_KeepsRunning(upd) ==                                  \* mutant
  /\ UNCHANGED delay
  /\ state' = [t \in Task |-> IF upd /\ Expires(t) THEN "READY" ELSE state[t]]
EnterSchedule(upd) ==
  /\ delay' = [t \in Task |->
                 IF upd /\ Listed(t) /\ state[t] = "BLOCKED" /\ delay[t] > 0
                 THEN delay[t] - 1 ELSE delay[t]]
  /\ state' = [t \in Task |->
                 IF \/ upd /\ Expires(t)
                    \/ t = Current /\ state[t] = "RUNNING"
                 THEN "READY" ELSE state[t]]

EnterYield_SavesInNext ==                                           \* mutant
  /\ LET next == tasks[Successor(current)]
     IN  /\ ctx' = [ctx EXCEPT ![next] = [run EXCEPT !.pc = "app", !.on = run.thr]]
         /\ saved' = [saved EXCEPT ![next] = "yield"]
  /\ EnterSchedule(~Preemptive)
  /\ run' = [run EXCEPT !.pc = "yield_scan", !.n = 0]
  /\ UNCHANGED <<tasks, current, cnt, reload, ie, halted>>

\* yield(): on the stm32f4 an SVC, which SysTick does not interrupt and
\* which leaves the delays alone even in cooperative mode.
EnterYield ==
  /\ ctx' = [ctx EXCEPT ![Current] = [run EXCEPT !.pc = "app", !.on = run.thr]]
  /\ saved' = [saved EXCEPT ![Current] = "yield"]
  /\ EnterSchedule(~Preemptive /\ Hal = "generic")
  /\ run' = [run EXCEPT !.pc = "yield_scan", !.n = 0]
  /\ ie' = (ie /\ Hal = "generic")
  /\ UNCHANGED <<tasks, current, cnt, reload, halted>>

Tick_Nests ==                                                       \* mutant
  /\ halted = "no" /\ Preemptive
  /\ ctx' = [ctx EXCEPT ![Current] = run]
  /\ saved' = [saved EXCEPT ![Current] = "irq"]
  /\ EnterSchedule(TRUE)
  /\ run' = [run EXCEPT !.pc = "irq_scan", !.n = 0]
  /\ ie' = FALSE
  /\ UNCHANGED <<tasks, current, cnt, reload, halted>>

\* The timer interrupt: krnl_dispatcher and dispatch up to the scan. A tick
\* ends the busy wait of ucx_task_wfi: ticks has changed when it resumes. The
\* handler moves mtimecmp a whole period ahead before it calls krnl_dispatcher,
\* so a tick meets "launch" only if the handler has lasted that long.
Tick_AtLaunch ==                                                    \* mutant
  /\ halted = "no" /\ Preemptive /\ ie
  /\ ctx' = [ctx EXCEPT ![Current] =
               IF run.pc = "wfi" THEN [run EXCEPT !.pc = "app"] ELSE run]
  /\ saved' = [saved EXCEPT ![Current] = "irq"]
  /\ EnterSchedule(TRUE)
  /\ run' = [run EXCEPT !.pc = "irq_scan", !.n = 0]
  /\ ie' = FALSE
  /\ UNCHANGED <<tasks, current, cnt, reload, halted>>
Tick ==
  /\ halted = "no" /\ Preemptive /\ ie
  /\ run.pc = "launch" => LateTick
  /\ ctx' = [ctx EXCEPT ![Current] =
               IF run.pc = "wfi" THEN [run EXCEPT !.pc = "app"] ELSE run]
  /\ saved' = [saved EXCEPT ![Current] = "irq"]
  /\ EnterSchedule(TRUE)
  /\ run' = [run EXCEPT !.pc = "irq_scan", !.n = 0]
  /\ ie' = FALSE
  /\ UNCHANGED <<tasks, current, cnt, reload, halted>>

(***************************************************************************)
(* krnl_schedule, one iteration of its inner loop per step, and the        *)
(* longjmp to the chosen task.                                             *)
(***************************************************************************)
Visit(t) ==
  /\ halted = "no" /\ Scanning
  /\ current' = Successor(current)
  /\ t = tasks[current']
NextVisit == run' = [run EXCEPT !.n = @ + 1]

\* itcnt++ > KRNL_SCHED_IMAX
ScanPanic ==
  /\ \E t \in Task : Visit(t)
  /\ run.n > IMAX
  /\ halted' = "ERR_NO_TASKS"
  /\ UNCHANGED <<tcbs, ctx, saved, run, ie>>

\* while (task->state != TASK_READY)
ScanSkip ==
  /\ \E t \in Task : Visit(t) /\ state[t] # "READY"
  /\ run.n <= IMAX
  /\ NextVisit
  /\ UNCHANGED <<tcbs, ctx, saved, ie, halted>>

\* while (--task->priority & 0xff): the visit costs the task one credit
ScanAge ==
  /\ run.n <= IMAX
  /\ NextVisit
  /\ \E t \in Task : /\ Visit(t) /\ state[t] = "READY" /\ cnt[t] # 1
                     /\ cnt' = [cnt EXCEPT ![t] = IF @ = 0 THEN 255 ELSE @ - 1]
  /\ UNCHANGED <<tasks, state, delay, reload, ctx, saved, ie, halted>>

\* Which longjmps leave ticks enabled. Generic: a frame saved by dispatch()
\* returns through mret; _interrupt_tick() enables them for a task that never
\* ran, one step ahead of its longjmp; a frame saved by yield() inherits
\* whatever holds now. stm32f4: the exception return restores thread mode.
FirstRun(t) == Hal = "generic" /\ saved[t] = "start" /\ run.pc = "irq_scan"
ResumedIe_Inherits(t) == saved[t] = "irq" \/ FirstRun(t) \/ ie      \* mutant
ResumedIe(t) ==
  \/ Hal = "stm32f4"
  \/ saved[t] = "irq"
  \/ FirstRun(t)
  \/ ie

Chosen(t, credit) ==
  /\ Visit(t) /\ state[t] = "READY" /\ cnt[t] = 1
  /\ cnt' = credit
  /\ state' = [state EXCEPT ![t] = "RUNNING"]
  /\ run' = IF FirstRun(t) THEN [run EXCEPT !.pc = "launch", !.on = t, !.n = 0] ELSE ctx[t]
  /\ ie' = ResumedIe(t)
ScanSelect_NoReload ==                                              \* mutant
  /\ run.n <= IMAX
  /\ \E t \in Task : Chosen(t, [cnt EXCEPT ![t] = 0])
  /\ UNCHANGED <<tasks, delay, reload, ctx, saved, halted>>
ScanSelect_ReloadsAll ==                                            \* mutant
  /\ run.n <= IMAX
  /\ \E t \in Task : Chosen(t, reload)
  /\ UNCHANGED <<tasks, delay, reload, ctx, saved, halted>>
ScanSelect ==
  /\ run.n <= IMAX
  /\ \E t \in Task : Chosen(t, [cnt EXCEPT ![t] = reload[t]])
  /\ UNCHANGED <<tasks, delay, reload, ctx, saved, halted>>

Scan == ScanPanic \/ ScanSkip \/ ScanAge \/ ScanSelect

At(pc) == halted = "no" /\ run.pc = pc

\* The longjmp of dispatch() to a task that never ran.
Launch ==
  /\ At("launch")
  /\ run' = ctx[run.on]
  /\ UNCHANGED <<tcbs, current, ctx, saved, ie, halted>>

(***************************************************************************)
(* The task API, called by the running thread's code.                      *)
(***************************************************************************)
Calls(call) == halted = "no" /\ run.pc = "app" /\ call \in App[run.thr]
Goto(pc, t) == run' = [run EXCEPT !.pc = pc, !.on = t]
Return == Goto("app", run.thr)

TaskYield == Calls("yield") /\ EnterYield

\* ucx_task_delay: task->delay, then task->state, then yield
TaskDelay ==
  /\ Calls("delay")
  /\ \E d \in Delays : delay' = [delay EXCEPT ![Current] = d]
  /\ CriticalEnter
  /\ Goto("delay_set", Current)
  /\ UNCHANGED <<tasks, current, state, cnt, reload, ctx, saved, halted>>

DelaySet ==
  /\ At("delay_set")
  /\ state' = [state EXCEPT ![run.on] = "BLOCKED"]
  /\ CriticalLeave
  /\ Goto("yield", run.thr)
  /\ UNCHANGED <<tasks, current, delay, cnt, reload, ctx, saved, halted>>

DelayYield == At("yield") /\ EnterYield

\* The calls that look a task up by id and refuse it in the wrong state.
Refuse ==
  /\ CriticalLeave
  /\ UNCHANGED <<tcbs, current, ctx, saved, run, halted>>

Suspendable(t) == state[t] \in {"READY", "RUNNING"}
TaskSuspend ==
  \E t \in Task :
    /\ Listed(t)
    /\ Calls(IF t = Current THEN "suspend_self" ELSE "suspend_other")
    /\ IF Suspendable(t)
       THEN /\ CriticalEnter
            /\ Goto("susp_set", t)
            /\ UNCHANGED <<tcbs, current, ctx, saved, halted>>
       ELSE Refuse

SuspendSet_Caller ==                                                \* mutant
  /\ At("susp_set")
  /\ state' = [state EXCEPT ![Current] = "SUSPENDED"]
  /\ CriticalLeave
  /\ Goto("susp_yield", run.on)
  /\ UNCHANGED <<tasks, current, delay, cnt, reload, ctx, saved, halted>>
SuspendSet ==
  /\ At("susp_set")
  /\ state' = [state EXCEPT ![run.on] = "SUSPENDED"]
  /\ CriticalLeave
  /\ Goto("susp_yield", run.on)
  /\ UNCHANGED <<tasks, current, delay, cnt, reload, ctx, saved, halted>>

SuspendYield_Skipped ==                                             \* mutant
  At("susp_yield") /\ Return /\ UNCHANGED <<tcbs, current, ctx, saved, ie, halted>>

\* if (kcb->task_current == node) ucx_task_yield();
SuspendYield ==
  /\ At("susp_yield")
  /\ IF run.on = Current
     THEN EnterYield
     ELSE Return /\ UNCHANGED <<tcbs, current, ctx, saved, ie, halted>>

TaskResume_AnyState ==                                              \* mutant
  /\ Calls("resume")
  /\ \E t \in Task : Listed(t) /\ state[t] # "RUNNING" /\ Goto("res_set", t)
  /\ CriticalEnter
  /\ UNCHANGED <<tcbs, current, ctx, saved, halted>>
TaskResume ==
  /\ Calls("resume")
  /\ \E t \in Task :
       /\ Listed(t)
       /\ IF state[t] = "SUSPENDED"
          THEN /\ CriticalEnter
               /\ Goto("res_set", t)
               /\ UNCHANGED <<tcbs, current, ctx, saved, halted>>
          ELSE Refuse

ResumeSet ==
  /\ At("res_set")
  /\ state' = [state EXCEPT ![run.on] = "READY"]
  /\ CriticalLeave
  /\ Return
  /\ UNCHANGED <<tasks, current, delay, cnt, reload, ctx, saved, halted>>

\* ucx_task_priority: both bytes in one store
TaskPriority ==
  /\ Calls("priority")
  /\ \E t \in Task, p \in Levels :
       /\ Listed(t)
       /\ cnt' = [cnt EXCEPT ![t] = p]
       /\ reload' = [reload EXCEPT ![t] = p]
  /\ CriticalLeave
  /\ UNCHANGED <<tasks, current, state, delay, ctx, saved, run, halted>>

TaskWfi ==
  /\ Calls("wfi")
  /\ Goto("wfi", run.thr)
  /\ UNCHANGED <<tcbs, current, ctx, saved, ie, halted>>

\* Cooperative mode: nothing comes between the steps of spawn and cancel.
TaskSpawn ==
  /\ Calls("spawn")
  /\ IF Len(tasks) < MaxTasks
     THEN /\ \E t \in Task :
               /\ ~Listed(t)
               /\ tasks' = Append(tasks, t)
               /\ state' = [state EXCEPT ![t] = "READY"]
               /\ delay' = [delay EXCEPT ![t] = 0]
               /\ cnt' = [cnt EXCEPT ![t] = NormalLevel]
               /\ reload' = [reload EXCEPT ![t] = NormalLevel]
               /\ ctx' = [ctx EXCEPT ![t] = FreshFrame(t)]
               /\ saved' = [saved EXCEPT ![t] = "start"]
          /\ UNCHANGED halted
     ELSE /\ halted' = "ERR_TCB_ALLOC"
          /\ UNCHANGED <<tcbs, ctx, saved>>
  /\ UNCHANGED <<current, run, ie>>

\* list_remove of any task but the current one, which keeps its node
RemoveAt(s, i) == [k \in 1..(Len(s) - 1) |-> IF k < i THEN s[k] ELSE s[k + 1]]
TaskCancel_StaleCurrent ==                                          \* mutant
  /\ Calls("cancel")
  /\ \E i \in (1..Len(tasks)) \ {current} : tasks' = RemoveAt(tasks, i)
  /\ UNCHANGED <<current, state, delay, cnt, reload, ctx, saved, run, ie, halted>>
TaskCancel ==
  /\ Calls("cancel")
  /\ \E i \in 1..Len(tasks) :
       /\ i # current
       /\ tasks' = RemoveAt(tasks, i)
       /\ current' = IF i < current THEN current - 1 ELSE current
  /\ UNCHANGED <<state, delay, cnt, reload, ctx, saved, run, ie, halted>>

Api ==
  \/ TaskYield \/ TaskDelay \/ DelaySet \/ DelayYield
  \/ TaskSuspend \/ SuspendSet \/ SuspendYield \/ TaskResume \/ ResumeSet
  \/ TaskPriority \/ TaskWfi \/ TaskSpawn \/ TaskCancel

\* krnl_panic: for (;;);
Halted == halted # "no" /\ UNCHANGED vars

Next == Tick \/ Scan \/ Launch \/ Api \/ Halted

Spec == Init /\ [][Next]_vars

(***************************************************************************)
(* What the scheduler promises.                                            *)
(***************************************************************************)
\* Outside krnl_schedule the code on the CPU is that of kcb->task_current,
\* and no task but that one is RUNNING (ucx.c: "Current interrupted task is
\* checked for its state"; every API call takes task_current for its caller).
OneRunner ==
  /\ ~Scanning => Runner = Current
  /\ \A t \in Task :
       Listed(t) /\ state[t] = "RUNNING" => t = Current /\ ~Scanning

\* A context saved by setjmp(task->context) belongs to that task: resuming a
\* task never continues the code, and the stack, of another one, nor the
\* handler on it.
ContextsOwned == \A t \in Task : Listed(t) => ctx[t].thr = t

\* A task that delayed or suspended itself executes no application code until
\* it has been woken and chosen; nor does one that has been cancelled.
BlockedNeverRuns ==
  run.pc \in {"app", "wfi"} =>
    Listed(run.thr) /\ state[run.thr] \in {"READY", "RUNNING"}

\* krnl_schedule gives up with ERR_NO_TASKS ("no tasks to run") only when no
\* task is READY, however the credits and the interrupted position stand.
PanicOnlyWhenNoneReady ==
  halted = "ERR_NO_TASKS" => \A t \in Task : Listed(t) => state[t] # "READY"

\* In preemptive mode application code never runs with the tick masked: a
\* task that makes no kernel call can always be preempted.
AppIsPreemptible == Preemptive /\ run.pc = "app" => ie

\* A task leaves a delay only when its last tick has been counted: neither a
\* resume nor a suspend from another task cuts it short.
DelayHonoured ==
  [][\A t \in Task :
       state[t] = "BLOCKED" /\ state'[t] # "BLOCKED" /\ Listed(t) =>
         state'[t] = "READY" /\ delay[t] = 1 /\ delay'[t] = 0]_vars

\* README, ucx_task_delay: after the delay the task is READY again.
DelayExpires ==
  \A t \in Task :
    (Listed(t) /\ state[t] = "BLOCKED") ~> (state[t] # "BLOCKED" \/ halted # "no")

\* README, ucx_task_yield: the task is rescheduled to run again. No READY task
\* starves, whatever its priority level.
ReadyRuns ==
  \A t \in Task :
    (Listed(t) /\ state[t] = "READY") ~>
      (state[t] # "READY" \/ Runner = t \/ halted # "no")

(***************************************************************************)
(* The scheduler implements Scheduling: stepping through the list, ageing  *)
(* credits and saving contexts are invisible, and every other step is one  *)
(* of its actions.                                                         *)
(***************************************************************************)
Promise ==
  INSTANCE Scheduling WITH
    st <- [t \in Task |-> IF Listed(t) THEN state[t] ELSE "ABSENT"],
    on <- IF Scanning THEN {} ELSE {Runner},
    stopped <- halted # "no"

\* Every behaviour of the kernel is one the promised scheduler can have.
ImplementsScheduling == Promise!SSpec

(***************************************************************************)
(* Fairness. The CPU executes the kernel's own code to its end, and a tick *)
(* that stays pending while ticks are masked is taken when they are        *)
(* enabled: KernelFairness states it as SF. Application code that has calls*)
(* to make makes one.                                                      *)
(***************************************************************************)
KernelStep == Scan \/ Launch \/ DelaySet \/ DelayYield \/ SuspendSet \/ SuspendYield \/ ResumeSet
CallStep == TaskYield \/ TaskDelay \/ TaskSuspend \/ TaskResume \/ TaskPriority
=============================================================================
