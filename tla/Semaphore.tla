----------------------------- MODULE Semaphore ------------------------------
(***************************************************************************)
(* One semaphore of kernel/semaphore.c and the tasks that use it. The      *)
(* scheduler is reduced to what Kernel is shown to do: one task executes;  *)
(* a tick, or a call of ucx_task_yield, gives the processor to any         *)
(* READY task. Inside the critical sections every read and write of the    *)
(* semaphore is a step of its own, so that a HAL on which CRITICAL_ENTER   *)
(* does not mask the tick shows what it exposes.                           *)
(***************************************************************************)
EXTENDS Ring, Integers, FiniteSets

CONSTANTS
  Task, Role,   \* how each task uses the semaphore, see Roles
  Idle,         \* the task that is always READY
  Value,        \* ucx_sem_create(Slots, Value)
  Slots,
  CountBound,   \* bound of the model: producers stop at this count
  Hal, Preemptive

\* "mutex" waits, then signals (app/mutex.c); "consumer" and "producer" do one
\* of the two (app/prodcons.c); "idle" does neither.
Roles == {"mutex", "consumer", "producer", "idle"}

ASSUME SemaphoreAssumption ==
  /\ IsFiniteSet(Task) /\ Role \in [Task -> Roles] /\ Idle \in Task /\ Role[Idle] = "idle"
  /\ Value \in Nat /\ Slots \in Nat /\ Slots <= 65535 /\ CountBound \in Nat
  /\ Hal \in {"generic", "stm32f4"} /\ Preemptive \in BOOLEAN

VARIABLES
  count, queue,   \* struct sem_s
  state,          \* tcb->state of each task
  pc,             \* where each task is in its call
  reg,            \* the count each task has loaded into a register
  peer,           \* the waiter a signal has dequeued
  on,             \* kcb->task_current, the task that executes
  inside,         \* the mutex tasks between their wait and their signal
  halted          \* krnl_panic(ERR_SEM_OPERATION)

vars == <<count, queue, state, pc, reg, peer, on, inside, halted>>
sem == <<count, queue>>

WaitSection == {"w_dec", "w_test", "w_enq", "w_block"}
SignalSection == {"s_inc", "s_test", "s_deq", "s_wake"}
Critical == WaitSection \cup SignalSection
Sleeping == {"wfi_read", "wfi", "wfi_over"}

Init ==
  /\ count = Value /\ queue = RingCreate(Slots)
  /\ state = [t \in Task |-> "READY"]
  /\ pc = [t \in Task |-> "app"]
  /\ reg = [t \in Task |-> 0]
  /\ peer = [t \in Task |-> NULL]
  /\ on = Idle
  /\ inside = {}
  /\ halted = FALSE

(***************************************************************************)
(* The scheduler.                                                          *)
(***************************************************************************)
Masks == Preemptive /\ Hal = "generic"

SwitchTo(t) ==
  LET stopped == [state EXCEPT ![on] = IF @ = "RUNNING" THEN "READY" ELSE @]
  IN  /\ stopped[t] = "READY"
      /\ state' = [stopped EXCEPT ![t] = "RUNNING"]
      /\ on' = t

\* A tick also ends the busy wait of ucx_task_wfi it interrupts.
Tick(t) ==
  /\ Preemptive /\ ~halted
  /\ Masks => pc[on] \notin Critical
  /\ SwitchTo(t)
  /\ pc' = IF pc[on] = "wfi" THEN [pc EXCEPT ![on] = "wfi_over"] ELSE pc
  /\ UNCHANGED <<sem, reg, peer, inside, halted>>

Yield(t) ==
  /\ ~halted /\ pc[on] = "app"
  /\ SwitchTo(t)
  /\ UNCHANGED <<sem, pc, reg, peer, inside, halted>>

(***************************************************************************)
(* ucx_sem_wait, by the running task.                                      *)
(***************************************************************************)
Stands(point) == ~halted /\ pc[on] = point
Goto(point) == pc' = [pc EXCEPT ![on] = point]
Returns == /\ Goto("app")
           /\ inside' = IF Role[on] = "mutex" THEN inside \cup {on} ELSE inside

WaitEnter ==
  /\ Stands("app") /\ Role[on] \in {"mutex", "consumer"} /\ on \notin inside
  /\ reg' = [reg EXCEPT ![on] = count]
  /\ Goto("w_dec")
  /\ UNCHANGED <<sem, state, peer, on, inside, halted>>

WaitStore ==
  /\ Stands("w_dec")
  /\ count' = reg[on] - 1
  /\ reg' = [reg EXCEPT ![on] = 0]
  /\ Goto("w_test")
  /\ UNCHANGED <<queue, state, peer, on, inside, halted>>

WaitTest_LetsOneMore ==                                             \* mutant
  /\ Stands("w_test")
  /\ IF count < -1 THEN Goto("w_enq") /\ UNCHANGED inside ELSE Returns
  /\ UNCHANGED <<sem, state, reg, peer, on, halted>>
WaitTest ==
  /\ Stands("w_test")
  /\ IF count < 0 THEN Goto("w_enq") /\ UNCHANGED inside ELSE Returns
  /\ UNCHANGED <<sem, state, reg, peer, on, halted>>

WaitEnqueue ==
  /\ Stands("w_enq")
  /\ IF RingFull(queue)
     THEN halted' = TRUE /\ UNCHANGED <<queue, pc>>
     ELSE queue' = RingPut(queue, on) /\ Goto("w_block") /\ UNCHANGED halted
  /\ UNCHANGED <<count, state, reg, peer, on, inside>>

WaitBlock_StaysRunning ==                                           \* mutant
  Stands("w_block") /\ Goto("wfi_read")
  /\ UNCHANGED <<sem, state, reg, peer, on, inside, halted>>
WaitBlock ==
  /\ Stands("w_block")
  /\ state' = [state EXCEPT ![on] = "BLOCKED"]
  /\ Goto("wfi_read")
  /\ UNCHANGED <<sem, reg, peer, on, inside, halted>>

\* ucx_task_wfi: s = kcb->ticks; while (s == kcb->ticks);
WfiRead ==
  /\ Stands("wfi_read") /\ Goto("wfi")
  /\ UNCHANGED <<sem, state, reg, peer, on, inside, halted>>
WfiSpin == Stands("wfi") /\ UNCHANGED vars
WfiReturn ==
  /\ Stands("wfi_over") /\ Returns
  /\ UNCHANGED <<sem, state, reg, peer, on, halted>>

(***************************************************************************)
(* ucx_sem_signal.                                                         *)
(***************************************************************************)
SignalEnter ==
  /\ Stands("app")
  /\ on \in inside \/ (Role[on] = "producer" /\ count < CountBound)
  /\ inside' = inside \ {on}
  /\ reg' = [reg EXCEPT ![on] = count]
  /\ Goto("s_inc")
  /\ UNCHANGED <<sem, state, peer, on, halted>>

SignalStore ==
  /\ Stands("s_inc")
  /\ count' = reg[on] + 1
  /\ reg' = [reg EXCEPT ![on] = 0]
  /\ Goto("s_test")
  /\ UNCHANGED <<queue, state, peer, on, inside, halted>>

SignalTest_SkipsLast ==                                             \* mutant
  /\ Stands("s_test")
  /\ Goto(IF count < 0 THEN "s_deq" ELSE "app")
  /\ UNCHANGED <<sem, state, reg, peer, on, inside, halted>>
SignalTest ==
  /\ Stands("s_test")
  /\ Goto(IF count <= 0 THEN "s_deq" ELSE "app")
  /\ UNCHANGED <<sem, state, reg, peer, on, inside, halted>>

SignalDequeue_Peeks ==                                              \* mutant
  /\ Stands("s_deq")
  /\ IF RingEmpty(queue)
     THEN halted' = TRUE /\ UNCHANGED <<peer, pc>>
     ELSE /\ peer' = [peer EXCEPT ![on] = RingFront(queue)]
          /\ Goto("s_wake") /\ UNCHANGED halted
  /\ UNCHANGED <<sem, state, reg, on, inside>>
SignalDequeue ==
  /\ Stands("s_deq")
  /\ IF RingEmpty(queue)
     THEN halted' = TRUE /\ UNCHANGED <<queue, peer, pc>>
     ELSE /\ peer' = [peer EXCEPT ![on] = RingFront(queue)]
          /\ queue' = RingTake(queue)
          /\ Goto("s_wake") /\ UNCHANGED halted
  /\ UNCHANGED <<count, state, reg, on, inside>>

SignalWake ==
  /\ Stands("s_wake")
  /\ state' = [state EXCEPT ![peer[on]] = "READY"]
  /\ peer' = [peer EXCEPT ![on] = NULL]
  /\ Goto("app")
  /\ UNCHANGED <<sem, reg, on, inside, halted>>

WaitStep == WaitStore \/ WaitTest \/ WaitEnqueue \/ WaitBlock \/ WfiRead \/ WfiReturn
SignalStep == SignalEnter \/ SignalStore \/ SignalTest \/ SignalDequeue \/ SignalWake
Halted == halted /\ UNCHANGED vars

Next == \/ WaitEnter \/ WaitStep \/ WfiSpin \/ SignalStep \/ Halted
        \/ \E t \in Task : Yield(t) \/ Tick(t)
Spec == Init /\ [][Next]_vars

(***************************************************************************)
(* What the semaphore promises.                                            *)
(***************************************************************************)
Queued == {RingItems(queue)[k] : k \in 1..queue.elem}

\* Never more tasks between wait and signal than the semaphore had units.
AtMostUnits == Cardinality(inside) <= Value

\* Between two calls the counter and the queue tell the same story, and the
\* tasks in the queue are exactly those that are blocked: no waiter can be
\* forgotten, none can be woken twice.
NoLostWaiter ==
  (\A t \in Task : pc[t] \notin Critical) =>
    /\ queue.elem = IF count < 0 THEN -count ELSE 0
    /\ Cardinality(Queued) = queue.elem
    /\ Queued = {t \in Task : state[t] = "BLOCKED"}

\* README: a wait passes or blocks; neither call stops the system.
NeverPanics == ~halted

\* Dijkstra's semaphore: a unit is taken when the counter is stored, a task
\* waits from the moment it is queued and is served from the moment it is
\* dequeued, and it returns from its wait only then.
Status(t) ==
  CASE t \in Queued -> "waiting"
    [] pc[t] = "w_test" /\ count >= 0 -> "granted"
    [] pc[t] \in WaitSection /\ ~(pc[t] = "w_test" /\ count >= 0) /\ t \notin Queued -> "asking"
    [] pc[t] \in Sleeping /\ t \notin Queued -> "granted"
    [] OTHER -> "out"
Dijkstra ==
  INSTANCE DijkstraSemaphore WITH
    Initially <- Value,
    units <- IF count > 0 THEN count ELSE 0,
    waiting <- RingItems(queue),
    status <- [t \in Task |-> Status(t)]
ImplementsDijkstra == Dijkstra!ASpec

(***************************************************************************)
(* Progress. A task that is dispatched again and again goes on with the    *)
(* call it is in (a tick is many instructions long), and a mutex task that *)
(* is inside comes to its signal; every READY task is dispatched, which    *)
(* Kernel gives (ReadyRuns, BoundedBypass).                                *)
(***************************************************************************)
TaskStep(t) == on = t /\ (WaitStep \/ SignalStep)
LiveSpec ==
  Spec /\ \A t \in Task : SF_vars(TaskStep(t)) /\ SF_vars(Tick(t) \/ Yield(t))

\* Every wait returns, as long as those who are inside come out, unless the
\* semaphore was created for fewer waiters than there are.
EveryWaitReturns ==
  \A t \in Task : pc[t] \in WaitSection \cup Sleeping ~> (pc[t] = "app" \/ halted)
=============================================================================
