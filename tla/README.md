# UCX/OS: specifications and proofs

UCX/OS is a nano-kernel for small microcontrollers: one processor, tasks that share one address space,
a priority round-robin scheduler in a cooperative or a preemptive mode, and a few primitives built on it.
This directory specifies the kernel in TLA+, checks the specifications with TLC on small instances and
proves what matters most about them with TLAPS, for every value of the constants.

Paths below are relative to `src/`; `ucx.c` is `kernel/ucx.c`.

## 1. The system

| Component | State | Operations | Talks to |
|---|---|---|---|
| Scheduler and dispatcher (`kernel/ucx.c`, `init/main.c`, `arch/*/hal.c`) | `kcb`: task list, `task_current`, `ticks`; per TCB: `state`, `delay`, `priority` (credit byte and reload byte), `context` | `krnl_schedule`, `dispatch`, `yield`, `delay_update`, `krnl_panic` | timer interrupt, every other component |
| Task API (`kernel/ucx.c`) | the same TCBs | `ucx_task_yield/delay/suspend/resume/priority/wfi` and getters | scheduler; called by every task |
| Task creation (`kernel/ucx.c`) | list, heap, `id_next` | `ucx_task_spawn`, `ucx_task_cancel` | heap, list, scheduler |
| Semaphores (`kernel/semaphore.c`) | `count`, a queue of waiting TCBs | create, destroy, wait, signal | queue, TCB states, scheduler |
| Queues (`lib/queue.c`) | `head`, `tail`, `elem`, `size`, `pdata` | create, destroy, enqueue, dequeue, peek, count | heap; used by semaphores, message queues, event queues |
| Pipes (`kernel/pipe.c`) | byte ring | read, write, non-blocking forms | scheduler (busy waits with `ucx_task_wfi`) |
| Message queues (`kernel/message.c`) | a queue | create, destroy, enqueue, dequeue, peek, items | queue |
| Software timers (`kernel/timer.c`) | list of timers, `countdown`, mode | create, destroy, start, cancel, two handlers | list, heap, callbacks, the tick or a timer task |
| Coroutines (`kernel/corotine.c`) | groups and fibres with credits | create, add, cancel, schedule | queue/list |
| Lists (`lib/list.c`) | nodes between two sentinels | push, pop, insert, remove, foreach | heap; used by the kernel and the timers |
| Heap (`lib/malloc.c`) | block chain with a used bit | malloc, free, realloc, init | everyone |
| Drivers (`drivers/*`) | device ownership, bus state, fifos | open, close, read, write, interrupt | semaphores, GPIO, receive interrupts |

The components interact in three ways: direct calls; *critical sections*, which are nothing but the
interrupt enable flag and do not nest (`CRITICAL_LEAVE` enables interrupts whatever held before); and the
state field of a TCB, which the semaphore writes directly, behind the scheduler's back.

### What is hard about it

* **The tick arrives between any two instructions** of a task, of the task API, and on the generic HAL of
  the scheduler loop itself. `kcb->task_current` doubles as the loop variable of `krnl_schedule`.
* **Two dispatch mechanisms.** `dispatch()`/`yield()` in `ucx.c` are weak: RISC-V, MIPS and AVR use them,
  over `setjmp`/`longjmp`; the Cortex-M HALs replace them with exception handlers and run the tasks
  unprivileged. They differ in what masks the tick and in when delays are counted.
* **Credits.** A priority is a byte pair; each visit to a READY task costs it one credit, and a loop limit
  (`KRNL_SCHED_IMAX`) turns a long search into a panic.
* **Hand-over protocols**: a waiter enqueues itself, blocks itself and spins until a tick; the signaller
  writes its state.
* **Cooperative mode** keeps all the code that was written for ticks.

PROJECT.json lists the hazards, each at its line, with the properties that cover it, or a note that says why
none does.

### What makes each component correct

* *Scheduler*: one task executes and it is `task_current`; a saved context belongs to the task it is saved in; a
  blocked task does not execute; the panic "no tasks" means no task; application code is preemptible in
  preemptive mode; a delay lasts its ticks; READY tasks run, within a bound their level gives.
* *Task creation*: the list, the heap and the positions in them stay consistent across spawn and cancel.
* *Semaphore*: mutual exclusion, no waiter lost or woken twice, first come first served, no panic, waits return.
* *Queue*: a bounded FIFO at every position of its wrap.
* *Message queues*: a FIFO to their users; a destroy, whose test is outside its critical section, loses no
  message that was there when it began.
* *Pipes, UART fifo*: bytes in order, none lost or invented, sizes read unprotected safe to act on.
* *Timers*: an armed timer fires once per period, never early; callbacks and other tasks start, cancel, destroy.
* *Heap*: blocks tile the heap, no two live blocks overlap, the search misses no hole from where it starts.
* *I2C*: one owner per device, START and STOP paired, a reader gets the registers it asked for.

## 2. The modules

| Module | Models | Notes |
|---|---|---|
| `Kernel` | `ucx.c`, `init/main.c`, the interrupt handling of two HALs | the core; one action per step between which a tick makes a difference |
| `Scheduling` | what the task API promises | abstract: no list, credits, contexts, interrupt flag |
| `KernelFairness` | `Kernel` with a history variable | how often a READY task is passed over |
| `Ring` | the operations of `lib/queue.c` on a queue value | pure operators |
| `Queue`, `BoundedFifo` | one queue and the calls on it; the FIFO it implements | |
| `MessageQueue`, `MessageFifo` | `kernel/message.c` over `Queue`; a FIFO whose destroy is not atomic | |
| `Semaphore`, `DijkstraSemaphore` | `kernel/semaphore.c` over `Ring`; what it implements | |
| `Heap` | `ucx_heap_init`, `ucx_malloc`, `ucx_free` of `lib/malloc.c`; what they are for | pure operators, loops as recursive functions |
| `TaskStore`, `TaskList` | spawn and cancel as users of `Heap` and `lib/list.c`; the sequence they implement | |
| `Timer` | `kernel/timer.c` with the list walk of `lib/list.c` | |
| `Pipe` | `kernel/pipe.c` over `Ring` | pure operators |
| `Echo` | the receive side of `drivers/uart/uart.c`, a `Pipe`, the printing task of `app/echo.c` | the composition |
| `I2cBus` | `drivers/i2c/i2c_bitbang.c` edge by edge, and a chip | pure operators, loops as recursive functions |
| `I2cDevice` | open, transfers, close of the driver; the register reads of `bno055.c` | over `I2cBus` |
| `KernelProofs`, `RingProofs`, `QueueProofs`, `SemaphoreProofs`, `EchoProofs`, `HeapProofs`, `TimerProofs`, `I2cProofs` | theorems | TLAPS; `KernelProofs` holds those on `KernelFairness` too, `QueueProofs` those on message queues, `HeapProofs` those on `TaskStore` |
| `MCKernel`, `MCKernelFairness`, `MCQueue`, `MCSemaphore`, `MCI2cDevice` | instances for TLC | |

### Kernel

| Variable | In the code |
|---|---|
| `tasks` | `kcb->tasks` between its sentinels: a sequence of TCBs |
| `current` | `kcb->task_current`, as a position of `tasks` |
| `state`, `delay` | the TCB fields |
| `cnt`, `reload` | low and high byte of `tcb->priority` |
| `ctx`, `saved` | `tcb->context` as the *frame* a longjmp continues (whose code, at which point, about which task), and what filled it |
| `run` | the frame the processor executes |
| `ie` | whether a tick can interrupt (generic: the enable bit; stm32f4: thread mode) |
| `halted` | `krnl_panic`, with its code |

`ctx` and `run` carry the thread (`thr`) separately from the TCB they are stored in, so a context saved in
the wrong TCB is a state of the model and not a type error.

Actions: `Tick` is the interrupt up to the scheduler loop; `ScanSkip`, `ScanAge`, `ScanSelect`, `ScanPanic`
are the iterations of `krnl_schedule`; `Launch` is the `longjmp` of `dispatch()` to a task that never ran;
`EnterYield` is the common part of `yield()`; each API call is one
action per stretch of code that a tick can separate (`TaskDelay`, `DelaySet`, `DelayYield`; `TaskSuspend`,
`SuspendSet`, `SuspendYield`; `TaskResume`, `ResumeSet`; `TaskPriority`, `TaskWfi`, `TaskSpawn`,
`TaskCancel`). A call that refuses a task in the wrong state still executes `CRITICAL_LEAVE` (`Refuse`).
`ucx_task_wfi` is a point the thread stays at until a tick moves it on: its busy wait ends because
`kcb->ticks` has changed.

The HAL is a constant. *generic*: `_di`/`_ei` clear and set the enable bit, a tick can come during the loop
of a voluntary yield, delays are counted by the tick or, in cooperative mode, by `yield`. When the chosen task
never ran, `_interrupt_tick()` enables ticks one step before the `longjmp` (`ucx.c:172-173`): the point
`launch`, where `kcb->task_current` already is the fresh task and the processor still executes the handler, on
the stack of the interrupted thread (`Runner` tells the two apart). A tick there would save the handler's frame
as the fresh task's context. On riscv32-qemu `_irq_handler` moves `mtimecmp` a whole period ahead of the time it
reads before it calls `krnl_dispatcher` (`arch/riscv/riscv32-qemu/hal.c:117-118`), so that tick comes only when
the handler has lasted a tick period. The constant `LateTick` says whether that can happen; it is FALSE in the
runs, and the theorems name it (section 4). *stm32f4*: the
scheduler runs in an exception handler, which the tick does not nest in; tasks are unprivileged, where
ARMv7-M ignores `cpsid`/`cpsie`, so `CRITICAL_ENTER` masks nothing; the yield path never counts delays.

`App` says which calls the code of each task makes, and `Boot` what `app_main` leaves behind. In preemptive
systems `spawn` and `cancel` are excluded (`StaticAssumption`): `ucx_task_spawn` holds a critical section
across `malloc` and `list_pushback`, whose own `CRITICAL_LEAVE` ends it, and a tick then dispatches a TCB
whose context is whatever the heap held; after that a model has nothing to say (section 6).

### Queue, Ring and Semaphore

`Ring` states every operation of `lib/queue.c` as an operator on the record `[size, head, tail, elem,
pdata]`. `Queue` makes the six calls actions and keeps the value each returns; the refinement to
`BoundedFifo` therefore compares results as well as contents, null pointers included.

`Semaphore` runs the same operators inside `ucx_sem_wait` and `ucx_sem_signal`. The scheduler is reduced to
a processor that a tick or a yield gives to any READY task, which is what `Kernel` is shown to do. Every
read and write of the semaphore is a step (`s->count--` is a load and a store), and the tick respects
critical sections exactly where the HAL makes it (`Masks`). `inside` records which mutex users are between
their wait and their signal.

### Message queues

`MessageQueue` adds one bit to `Queue`: `closing`, a task between the two steps of `ucx_mq_destroy`, the test
of `queue_count` and the critical section that frees. Every other call may come in between. Dequeues there are
harmless; an enqueued message is lost, because the answer of `queue_destroy` is ignored. `MessageFifo` is the
promise that is left: a bounded FIFO whose destroy begins only when it is empty, and which takes with it what is
stored after that. `NoEarlyMessageLost` says it of the code: no message that was stored at the test is freed
(`early` is the history that counts those). The precondition is that nobody uses the queue after the free.

### Heap and task memory

`Heap` is the allocator as operators on a record: the reachable block headers by address, `first_free`,
`last_free`. `Round` is one round of the outer loop of `ucx_malloc`, with its two inner loops (`SkipUsed`,
`SkipFree`) and the coalescing it does on the way; `Search` is the loop, which passes a used block in every
round but the first and therefore needs at most one round more than there are used blocks. `HeapMalloc` splits,
and leaves the remainder with the wrong size the code gives it. `Exact` and `NextFit` say what the heap is for
without its headers, from the areas its users hold. The comment on the allocator says "using first-fit", with
free areas "searched from the beginning of the heap" (`lib/malloc.c:118-122`); the code starts at `last_free`
(`lib/malloc.c:153`), the block of the last allocation until a `free()` sends it back to the start. That is a
next fit: a lower hole that is large enough is passed over, and `ucx_malloc` returns a null pointer although it
is there. `NextFit` states what the code does; the mutant `Search_FromFirst`, the search of the comment, differs
from it in reachable heaps.

`TaskStore` is its user: `kcb->tasks` as nodes in the heap (`list`, `node`), TCBs and stacks. `Spawn` makes
three allocations, each with its panic (when it is the stack that is missing, the task is in the list by then);
`Cancel` frees three. An id that has wrapped may be that of a task that still lives. Spawn and cancel are whole,
as in a cooperative system or in `app_main`. `list_foreach` is `Walk` (of the tasks, `Visited`), `list_pushback`
`PushbackNode` with its moving sentinel, `list_remove` `UnlinkNode`. `TaskList` is the sequence `Kernel` takes
the list for.

### Timers

`handler` is the one of the two handlers the system runs. `timer.c` takes no critical section, so the handler is
cut at every test and store of a field that another task may touch: `HandlerSystick` and `HandlerLast` are its
reads of `kcb->ticks` (a tick between the last two is counted for no timer), then, node by node, `Skip`, or
`Count` and `CountStore` (the countdown in a register, and its store), or `Due`; `Fire`, `Return` and `Settle`
are the call of the callback, the test of the mode after it and the store that follows. `cursor` is the node the
walk stands on. A callback may make any call of the API. Another task starts and cancels timers at any point;
its start is in two halves (`StartTimes`, `StartMode`), with an uptime that may have been read long before, and
the handler may run between them. The clock moves at any moment. `since`, `fires`, `due` and `mixed` are
history: a timer is *mixed* from the moment its own start overlaps the handler's visit to it, until its next
start. Such a timer may fire at once, have its fresh countdown overwritten or be disabled, and the properties
except it; every other timer they cover. What the code does not check, and the module takes for granted: no task
creates or destroys a timer under a walk (`ucx_timer_create` hangs the timer in the list before it fills it in,
and a destroy frees the node), and nobody destroys a timer whose callback runs or whose start is under way.

### UART, pipe and printing task

`Echo` is a pipeline over a fifo of at least two bytes (`uart_driver_init` does not clamp the size it is given,
`uart.c:100`: a fifo of size 1 never holds a byte, and one of size 0 has a mask of all ones): the receive interrupt (`Receive`) fills the fifo of
the UART driver; readers open the device, ask for the fifo's size, read as many bytes and write them to a pipe;
the printing task polls the size of the pipe, reads that many, or flushes it. Critical sections are one step
each, every read outside of one (`ReadSize`, `Spin`, `Poll`, `Ask`) a step of its own. Bytes are numbers, modulo
`Numbers`, so that a lost, doubled or reordered byte shows. `PipeGet` returns through a `char`: with
`CharSigned`, the byte `AllOnes` is taken and reported as nothing, and the stream must not contain it.

### I2C

`I2cBus` is the bit-banged driver down to the edges of SDA and SCL: `Start`, `Restart`, `Stop`, `WriteBit`,
`ReadBit`, `WriteByte`, `ReadByte`, `ResetBus` are functions from the bus to the bus and a result, and the chip
(external) reacts to every edge. `I2cDevice` puts `i2c_driver_open`, `write`, `read`, `close` and the
transactions of `read_reg_buf` and `read_reg` on top, interleaved call by call as cooperative tasks do it. A
driver client drops a refused open and tries again. Two calls do more harm, and any client may make them at any
time: an open with mode 1 resets the bus before it returns its refusal, on the owner's bus; and `read_reg`
ignores the refusal, transfers and closes a device it does not own. `crossed` records which of them have
disturbed a client that held the device since the bus was last at rest (nobody holds the device, lines released,
chip idle: `Rested`), and `spoilt` whose last bytes were read in such a time. TLC shows what they can do: the
owner reads other bytes, and a reset between two transfers of the owner can leave the chip holding SDA low
beyond the owner's close, after which an open claims the device, fails to send START and leaves `busy` set with
nobody to close it. No chip has the address of ones, which I2C reserves: `i2c_reset_bus` clocks nine ones after
a START, and a chip of that address would take them for its own, acknowledge and be left in the middle of a
byte.

## 3. What is checked

| Run | Instance | Shows |
|---|---|---|
| `kernel_coop` | generic, cooperative; two tasks at boot, room for three; every call of the API, spawn and cancel included, except `ucx_task_wfi`, which would wait for a tick that never comes | `TypeOK`, `OneRunner`, `ContextsOwned`, `BlockedNeverRuns`, `PanicOnlyWhenNoneReady`, `DelayHonoured`, and that `Kernel` implements `Scheduling` |
| `kernel_preempt` | generic, preemptive; three tasks that leave the processor to the tick, suspending and resuming each other and changing levels; no tick at `launch` | `ContextsOwned` and `BlockedNeverRuns` with a tick wherever ticks are enabled otherwise, `AppIsPreemptible`, and the refinement |
| `kernel_stm32f4` | stm32f4, preemptive, over `KernelFairness`; every call of the API except spawn, cancel and priority changes | the safety properties when nothing masks the tick; `BoundedBypass` with the invariant it is proved from (`BypassBudget`); `DelayExpires`, `ReadyRuns` |
| `queue_fifo` | a message queue of four cells; two pointers and NULL; any call inside a destroy | `Consistent`, `NoEarlyMessageLost`, `ImplementsMessageFifo` |
| `sem_mutex` | generic, preemptive; three mutex users and an idle task | `AtMostUnits`, `NoLostWaiter`, `NeverPanics`, `ImplementsDijkstra` |
| `sem_live` | generic, preemptive; a producer, a consumer, a mutex user; room for one waiter | `EveryWaitReturns`, up to the panic of a second waiter |
| `heap` | 54 words, stacks of 1 and 4 words, every sequence of spawns and cancels | `HeapIsExact`, `MallocIsNextFit`, `ImplementsTaskList` |
| `timer` | two timers of periods 1 and 2, both handlers, callbacks and one other task | `NeverEarly`, `KeepsPhase`, `PassServesAll` |
| `echo` | two readers, a fifo and a pipe of four cells, signed chars | `StreamIntact`, `CountedBytesArePresent`, `EveryByteArrives` |
| `i2c` | two clients, bytes of three bits, all opens, resets, transfers and register reads | `Owned`, `FreeMeansIdle`, `ReadsOwnRegisters` |
| `kernel_preempt_yield` | generic, preemptive, with voluntary yields | *violated*: `ContextsOwned` |
| `sem_stm32f4` | stm32f4 | *violated*: `AtMostUnits` |

What the less obvious ones say:

* `HeapIsExact` compares the header chain with what the kernel holds after every spawn and cancel, with the
  wrong sizes and the stale headers the allocator leaves in between. `MallocIsNextFit` says that searching and
  coalescing on the way finds the lowest hole from `last_free` on, and fails only when there is none from there
  on.
* `NeverEarly` counts a timer's firings against the clock. For the systick handler it counts from the last tick
  that had been counted for the timer when it was started, because a start may fall into the middle of a pass.
  `KeepsPhase` is about the uptime handler only: the systick handler reloads the whole countdown and drifts.
  `PassServesAll` is the walk under changes of the list. None of the three speaks of a mixed timer.
* `CountedBytesArePresent` is why the unprotected reads of `rx_size` and `ucx_pipe_size` are safe: only the
  holder of the device and only the printing task can make the counts smaller.
* `FreeMeansIdle` is about a refused open, which pulls SDA and SCL low in the middle of somebody else's
  transaction. The owner's close undoes it; between two transfers SCL is low, so it is not a START.
* `Owned` holds through resets and failed STARTs: only a `read_reg` takes the device from its owner. The second
  half of `Owned`, `FreeMeansIdle` and `ReadsOwnRegisters` are not claimed from a refused reset or `read_reg`
  until the bus is at rest again, and are checked to hold from then on.
* `NoEarlyMessageLost` is all that the unprotected test of `ucx_mq_destroy` promises; the message that is
  enqueued after it is lost, in the model as in the code.

### Findings

1. **A tick inside the generic `yield()`** (`kernel_preempt_yield`). `yield()` calls `krnl_schedule` with
   interrupts enabled, and the loop moves `kcb->task_current` over tasks that are not running. `dispatch()`
   then does `setjmp(task->context)` on one of those: the yielding thread's registers and stack replace the
   other task's context. The Cortex-M HALs are not exposed to it.
2. **Critical sections of the stm32f4 HAL mask nothing** (`sem_stm32f4`), because tasks run unprivileged, where
   ARMv7-M ignores `cpsid`. Two tasks can load the same `s->count` and pass a semaphore of one unit.

Modelling showed more places to know about. They limit what the runs above claim, and each says where.

* Ticks stay masked after a voluntary yield on the generic HAL: a context saved by `yield()` and resumed by
  `dispatch()` from the interrupt handler runs with the enable bit clear until its next critical section. That
  is why `AppIsPreemptible` is claimed of applications that do not yield there (`Undisturbed`).
* A tick between `_interrupt_tick()` and `longjmp` (`ucx.c:172-173`), in a handler that has lasted a whole tick
  period, fills the context of a task that never ran with the handler's frame. With `LateTick = TRUE` the
  instance of `kernel_preempt` violates `ContextsOwned`.
* `ucx_malloc` is a next fit, and its comment says first fit (section 2).
* An open of the I2C device with mode 1 resets the bus of whoever holds it (`drivers/i2c/i2c_bitbang.c:267`),
  and `read_reg` closes a device it did not get (`bno055.c:115`): the properties of `i2c` except the time until
  the bus is at rest.
* A start of a timer that overlaps the handler's visit to that timer may fire it at once or be undone
  (`kernel/timer.c:29-34`, `48-53`), and a tick between `timer.c:77` and `:78` is counted for no timer.
* On the stm32f4 a suspend can hit a task that has gone to sleep since its state was tested, and a resume then
  ends the delay early: `DelayHonoured` is a property of the cooperative system.
* Semaphores do not block in cooperative mode: `ucx_sem_wait` ends in `ucx_task_wfi`, which spins on
  `kcb->ticks`, and no tick comes.
* `ucx_task_delay(0)` blocks a task for ever (`ucx.c:41` skips a zero delay). In cooperative mode the stm32f4
  counts no delays at all (`arch/arm/stm32f401_blackpill/hal.c:441`).
* A queue of 2^k cells holds 2^k - 1 elements (`lib/queue.c:78`), so `ucx_sem_create(n, ..)` with n a power of
  two panics when the n-th task waits; `Slots` is 3 for three users where `NeverPanics` is checked.
* `ucx_task_priority` restores the full credit (`ucx.c:373`): a task whose priority is set again and again is
  never chosen. Forty READY tasks of `TASK_IDLE_PRIO` exceed `KRNL_SCHED_IMAX` (`ucx.c:124`) and panic; the
  theorem on the panic states exactly the condition under which this cannot happen.

### Bounds

* *Tasks*: three. Every hazard here is between two tasks and the scheduler's position; the third gives the loop
  something to pass over and lets a task be suspended by one that is not the next to run.
* *Levels*: reload bytes 1 and 3 stand for 1, 3, 7, ... 255. What the code does with them is count down to zero
  and reload; `1` (chosen at every visit) and `3` (passed over twice) are the two cases. The theorems hold for
  any set of positive levels.
* *IMAX*: 8 in place of 10000, the largest search three tasks of level 3 can need (`Len * level - 1`); a smaller
  one would make the panic reachable with READY tasks, which is the case the hypothesis of the theorem excludes.
* *Delays*: 1 and 2 (one expires at the next tick, one is counted first); only 2 in `kernel_stm32f4`, where
  every call is interleaved with every tick.
* *Queue and message queue*: requested size 3, rounded to four cells, which takes all positions of head and tail
  and both boundaries.
* *Semaphores*: four cells for at most three waiters in `sem_mutex`, two cells in `sem_live`, where a second
  waiter stops the system; `CountBound` stops producers at a surplus of one or two units and bounds nothing
  else.
* *Heap*: the zone of 54 words holds the list and three or four tasks, so holes of every kind open and close,
  and the panic is reached at each of the three allocations; `Ids` 4 in place of 65536 makes the identifiers
  wrap while a task still holds the first one, so that two tasks of the list have the same one.
* *Timers*: `MaxTimers` 2 is a list with a node at the walk and one before or after it; `MaxTime` 3 lets a timer
  of period 1 fall two periods behind; one other task has one start under way, which meets every step of the
  handler. Deadlock is not checked: the clock stops there.
* *Echo*: fifo and pipe of four cells (three bytes); a longest train of bytes is 9, and `Numbers` 12 keeps the
  numbers of a train apart as `EchoAssumption` asks; one flush (`MaxFlushes`) at every position.
* *I2C*: bytes of three bits and addresses of two in place of 8 and 7, so that every bit position of a byte
  (first, inner, last) exists; two clients are an owner and one that is refused, resets or reads; which is which
  does not matter (`Interchangeable`). Transfers of two bytes from the first and the last register, whose
  successor is the first again.
* `TaskSuspend` and its kin act on any listed task, including a blocked or suspended one (the refusals).

### Fairness

`FLiveSpec` of `KernelFairness`: weak fairness of `KernelStep` (the processor executes the code it is in), strong
fairness of `Tick` (a timer interrupt that is pending while masked is taken once unmasked, and sections
mask and unmask again and again), and weak fairness of `CallStep` (application code that only ever makes
calls makes the next one). No fairness is assumed between tasks: that READY tasks run is a result.

`LiveSpec` of `Semaphore` assumes, per task, that it is dispatched if it is READY again and again, which is
`ReadyRuns` of `Kernel`, and that a task dispatched again and again gets on with its call, because a tick period
is many instructions long.

`LiveSpec` of `Echo`: weak fairness of the printing task and of each reader, which is `ReadyRuns` again. The
receive interrupt and the flush have none: no byte has to arrive, nobody has to flush. The readers need no
strong fairness for `EveryByteArrives`: whoever holds the device finishes, and a reader that is refused for
ever loses only its own turn.

## 4. What is proved

All theorems hold for every value of the constants that the named hypotheses admit: every list and set of
levels, both HALs, both modes, every application, every size of a queue or pipe, every fifo of at least two
bytes, any number of tasks, timers and clients, bytes of any width, a heap of any size and areas of any size in
it.

| Theorem | Module | States | Needs |
|---|---|---|---|
| `Typing` | `KernelProofs` | `TypeOK` | |
| `RunnerIsCurrent` | `KernelProofs` | `OneRunner` | `Undisturbed` |
| `ContextsStayOwned` | `KernelProofs` | `ContextsOwned` | `Undisturbed` |
| `BlockedTasksWait` | `KernelProofs` | `BlockedNeverRuns` | `Undisturbed` |
| `AppStaysPreemptible` | `KernelProofs` | `AppIsPreemptible` | `Undisturbed` |
| `PanicMeansNoTask` | `KernelProofs` | `PanicOnlyWhenNoneReady` | `Undisturbed`, `BudgetFits` |
| `KernelSchedules` | `KernelProofs` | `ImplementsScheduling` | `Undisturbed`, `BudgetFits`, `AtomicCalls`, `TasksFit` |
| `DelaysAreHonoured` | `KernelProofs` | `DelayHonoured` | `Undisturbed`, `AtomicCalls` |
| `BypassIsBounded` | `KernelProofs` | `BoundedBypass` | `FixedLevels` |
| `BypassBudgetHolds` | `KernelProofs` | `BypassBudget` | `FixedLevels`, `Undisturbed`, `BudgetFits` |
| `QueueConsistent` | `QueueProofs` | `Consistent` | |
| `QueueIsFifo` | `QueueProofs` | `ImplementsFifo`, of the plain queue | |
| `EarlyMessagesAreKept` | `QueueProofs` | `NoEarlyMessageLost` | |
| `MessageQueueIsFifo` | `QueueProofs` | `ImplementsMessageFifo` | |
| `EchoCounts` | `EchoProofs` | `CountedBytesArePresent` | `TextOnly` |
| `EchoStream` | `EchoProofs` | `StreamIntact` | `TextOnly` |
| `MutualExclusion` | `SemaphoreProofs` | `AtMostUnits` | `Exclusive`, `NoProducer` |
| `WaitersAreKept` | `SemaphoreProofs` | `NoLostWaiter` | `Exclusive` |
| `NoPanic` | `SemaphoreProofs` | `NeverPanics` | `Exclusive`, `RoomForWaiters` |
| `SemaphoreIsDijkstras` | `SemaphoreProofs` | `ImplementsDijkstra` | `Exclusive` |
| `HeapStaysExact` | `HeapProofs` | `HeapIsExact` | |
| `MallocStaysNextFit` | `HeapProofs` | `MallocIsNextFit` | |
| `ListImplementsTaskList` | `HeapProofs` | `ImplementsTaskList` | |
| `TimerTypes` | `TimerProofs` | `TypeOK` | |
| `TimerNeverEarly` | `TimerProofs` | `NeverEarly` | |
| `TimerKeepsPhase` | `TimerProofs` | `KeepsPhase` | |
| `TimerPassServesAll` | `TimerProofs` | `PassServesAll` | |
| `DeviceIsOwned` | `I2cProofs` | `Owned` | |
| `FreeBusIsIdle` | `I2cProofs` | `FreeMeansIdle` | |
| `ReadsAreOwnRegisters` | `I2cProofs` | `ReadsOwnRegisters` | |

`Undisturbed`: on a preemptive system with the generic HAL the application makes no call that yields
voluntarily, and no tick comes at `launch` (`~LateTick`); finding 1, the masked ticks and the late tick show
what happens otherwise, so neither half can be dropped. Elsewhere it asks nothing. `BudgetFits`: list length
times level never exceeds `KRNL_SCHED_IMAX + 1`. `FixedLevels`: levels and list stay as `app_main` left them.
`TextOnly`: a stream read through a signed `char` does not contain 0xff. `Exclusive`: critical sections exclude
the tick, or there is no tick; finding 2 is the other case. `NoProducer`: every task that signals has waited.
`RoomForWaiters`: the rounded size of the semaphore's queue is more than the number of tasks that can wait.
`AtomicCalls`: cooperative, or the generic HAL; on the stm32f4 a tick fits between the test and the write of a
suspend or resume, and the refinement is false there. `TasksFit`: there are no more TCBs than the heap has room
for, so that a spawn without memory means that every TCB is in use.

**The safety invariant.** None of the properties is inductive. `SafetyInv` adds to them: the list holds no task
twice (`Distinct`); every credit is between one and its level (`Credit`), so `--priority` never borrows from the
level byte; every saved context belongs to its task and stands outside the scheduler loop, and where critical
sections mask the tick no frame is on its way to a voluntary yield (`RunPlaced`, `CtxPlaced`); no tick can come
while the scheduler walks the list (`TicksOff`), nor before a launch, which is what `Undisturbed` buys; no task
is RUNNING but the current one (`RunnerInv`); and a thread whose task is neither READY nor RUNNING is about to
yield (`Runnable`). `SafetyStep` proves it one action at a time. `AppStaysPreemptible` adds `Unmasked`: the tick
is enabled wherever a thread, running or saved, stands outside its critical sections.

**The panic.** `PanicOnlyWhenNoneReady` follows from a budget: for a READY task, the visits already made
plus `(credit - 1) * length + distance` never exceed `length * level`. Each visit moves one unit from the
second part to the first.

**The bypass bound.** `BypassBudget` is the same argument across searches: what a READY task has been passed
over plus what it still can be, `passed + (credit - 1) * (length - 1) + (distance - 1)`, never exceeds `level *
(length - 1)`. An iteration that passes over a task brings the scan one position closer to it, one that reaches
it trades a credit for a lap, and a search starts from the position the last one ended at. The argument uses
only `TypeOK`, `Distinct` and `Credit`, so it holds without `Undisturbed`: not even a context saved in the wrong
TCB upsets the credits. After a panic the scan has moved once more than the budget allows, so `FairInv` claims
`BypassBudget` only while the system runs and `BoundedBypass` always.

**The kernel and its promise.** `KernelSchedules` needs, beside `SafetyInv` and the budget of the panic, that
what a call has tested still holds when it writes: the task `ucx_task_suspend` or `ucx_task_resume` is about is
listed and in the state it was found in (`Tested`). That is inductive because nobody else runs inside those
sections: ticks are masked there, and no saved context stands in one (`Sheltered`). `EntryDeschedules` maps a
tick and a yield to the promised `Deschedule`, expired delays included; ageing, skipping and masking are
stutters (`Invisible`); a spawn that fails stops the system only when every TCB is listed (`FullHoldsAll`, by
counting); a cancel takes exactly one task out of the list.

**The queue.** `QueueInv` is `Consistent` with the type of the record. `RingProofs` says what the operators of
`Ring` do to the elements a ring stands for, cell by cell, wherever head and tail have wrapped to: `PutAppends`
(the elements of the ring grow by one at the end), `TakeIsTail` (they lose their first), `SizeIsPower`. They are
stated about any ring of any number of cells over any set, so every module that builds on `Ring` cites them; the
conclusions are named (`Grows`, `Shrinks`, `At`) and the provers need not open them. From them the step of each
call is a step of the FIFO. A message queue adds that the messages no destroy preceded are all that is stored
until a destroy begins, and none from then on (`ClosingInv`); its calls are those of the FIFO by the same
lemmas.

**The stream.** `EchoInv` has four parts: both rings are rings (`Rings`); a reader that is past its open is
the only one, `busy` is set, and it has counted no more than the fifo holds (`Readers`); the printing task
has asked for no more than the pipe holds (`PrinterBook`); and pipe, hand and fifo carry consecutive numbers
(`Stream`, by `Pieces`). `Receive` appends to the last piece, `Get` and `Write` move one byte across a joint, a
read takes the first; each is an instance of `PutAppends` or `TakeIsTail`.

**The semaphore.** `SemInv` has three parts beside the types. `Places`: only the running task is in a critical
section, and a blocked task is in the busy wait of its own wait. `QueueBook`: the queue holds no task twice, and
it holds exactly the blocked ones, one more between the enqueue and the block, one less between the dequeue and
the wake. `CountBook`: the queue is as long as the count is negative, give or take the one unit that a section
in progress has counted and not yet acted upon (`Agreed`), and the register a section has loaded is still the
count. From it come that a signal always finds the waiter it counted and that the queue has room for every
waiter (`NoPanic`), and that each step is one of Dijkstra's operations or none: `Pass` and `Keep` are the stores
of the counter, `Wait` the enqueue, `Hand` the dequeue. Mutual exclusion needs one more fact, `UnitBook`: the
tasks that have a unit (those inside, those served but not returned, and a signal that has not given its unit
back) and the free units together never exceed `Value`.

**Delays.** `DelaysAreHonoured` uses the invariant of `KernelSchedules`: a resume that has tested a suspended
task still finds it suspended when it writes (`Tested`), so nothing but the expiry of the delay makes a blocked
task READY. On the stm32f4 that fails, and with it the property.

**The heap.** `HeapInv` relates a heap to the areas its users hold, and knows nothing of who they are. The
reachable headers form a chain in the order of their addresses, from the zone's start to the tail (`Chain`), in
which a used block ends exactly where the next header stands and the block before the tail is never used, so
that a search always stops before it takes the tail for a free area; `last_free` is the start of the zone or a
used block, and what is held are the used blocks with their sizes (`Owns`). Nothing is said of the size of a
free block: that is the field `ucx_malloc` leaves wrong, and every search writes it before it reads it.
`SkipUsedIs` and `SkipFreeIs` say where the inner loops stop, by induction over addresses downwards (`Down`),
`CoalesceIs` that swallowing free headers keeps chain and used blocks, and `RunIsHole` and `HoleIsRun` that the
run of free blocks a round finds is a hole between used blocks, the only one that begins there. `RoundIs` then
has the invariant of the search (`Searching`): every hole passed so far is too small. `MallocIs` concludes that
a search that fails has passed every hole and one that succeeds stands on the lowest that is large enough;
`MallocKeeps` and `FreeKeeps` that `HeapInv` survives, for the areas held plus or minus one. `Exact` and
`NextFit` follow from `HeapInv` alone (`InvExact`, `MallocNextFit`).

**The list of tasks.** `StoreInv` is `HeapInv` for exactly what the kernel holds, and a shape of what it holds
(`Shape`): a path numbers all nodes from the head to the sentinel, every TCB hangs on exactly one inner node
(`Hung`), and list, nodes, TCBs and stacks are all at different addresses (`Apart`). A spawn takes three areas
that are new by `MallocKeeps`, and the moving sentinel extends the path at its end (`PushedIs`); a cancel cuts
one node out, found by a walk from the head (`LastIs`), and frees three areas that are held by then and not
twice (`CancelShape`). The ids along the path are the sequence of `TaskList` (`IdSeq`), so the refinement
follows from the same two steps. That ids are unique is not needed: a cancel takes the first that matches.
`TaskStoreAssumption` asks for a zone in which `list_create` succeeds, because `main` stops the system
otherwise, and for sizes whose sum with a header does not wrap; `stack_size` has 16 bits.

**The timers.** `TimerInv` has the list in the order of the ids, which only grow (`ListInv`), so the walk, too,
meets the timers in that order: `t < cursor` means that this pass has counted for `t` and `t > cursor` that it
has not yet (`CountedFor`; for the timer under the walk the phase says which). What is still due lies ahead of
the walk or under it (`WalkInv`). `HistoryAt` ties the fields of a timer that is not mixed to its history,
wherever the handler is with it (`Stage`): under the uptime handler the compare value stands at the next firing
exactly, and a callback about to be called has found it passed (`UptimeAt`); under the systick handler the
periods already fired and the part of the countdown already used never exceed the ticks counted since the start
(`TickAt`). `MixInv` is what makes the exception sound: a start under way and a visit that overlap are on
record. `NeverEarly` is the last conjunct of `HistoryAt`, `KeepsPhase` the first of `UptimeAt`, `PassServesAll`
the walk's and the first of `HistoryAt`. The proof has a lemma per step of the handler (`CountHistory`,
`DueHistory`, `FireHistory`, ...) and one for each half of a start (`StartHistory`, `ModeHistory`); what a step
does not touch keeps its history (`Untouched`). A destroy of another timer keeps the order and moves no timer
behind the walk (`RemoveAtElements`), a create appends ahead of it.

**The bus.** The proof goes edge by edge. `WriteBitIs` and `ReadBitIs` say what a clock pulse does to the lines
and the chip; `SentIs` and `ReceivedIs` what the loop over the bits of a byte does, by the invariant "after k
bits the chip has taken the first k bits of the byte" (`Prefix`, over the quotients by powers of two); `ReadIs`
the same over the bytes of a transfer (`Contents`). `Induct` is induction over a set of numbers, from the
well-foundedness of `<` on the naturals, and `SentLoop` to `ReadLoop` say that a function that satisfies a
loop's equations is the recursive function. `DeviceInv` then says where the bus is between two calls while
nothing has disturbed it (`Calm`): with an owner, SCL is low and the chip waits for the byte the owner sends
next (`Phase`), wherever SDA was left by the opens that were refused; without one it is idle (`Free`). A refused
reset or a `read_reg` on a busy device ends that, and then only `Claimed` is kept (one owner, and `busy` with
it) until a `read_reg` ends that, too; a bus at rest is calm again whatever has happened on it (`RestedIsCalm`).
`ResetIs` needs that the chip's address is not all ones; with that address TLC shows `Owned` violated, because
the chip drives SDA low when START samples it.

**Only model-checked**: liveness (`DelayExpires`, `ReadyRuns`, `EveryWaitReturns`, `EveryByteArrives`), whose
proofs need `ENABLED`. Every other property of a passing run is a theorem.

## 5. Plan

1. *Done*, modelled and, liveness apart, proved: the scheduler with its abstract specification and bypass
   bound; queues, message queues, semaphores; heap and task memory; timers; UART, pipe and printing task; I2C
   and the BNO055's registers.
2. *Proofs that are left*: consequences a reader may want to cite beside the properties of the runs, such as the
   types of `TaskStore`, `Echo` and `I2cDevice`, or that a cancel gives back all that its spawn took.
3. *Models that are left*: coroutines, once the code initialises `fibers`; the remaining allocator variants
   if they are ever built.

## 6. What is not modelled

* `rt_sched` (an application hook), `stack_check` (needs a memory image), the getters (no effect).
* **Spawn under preemption.** The critical section of `ucx_task_spawn` is ended by the first nested
  `CRITICAL_LEAVE`, and a tick then finds a TCB with the contents of freed memory in the list. What follows is
  undefined, for any continuation is possible; the model could only repeat the hazard.
* **Freeing what others use**: `ucx_sem_destroy` with tasks inside a wait, cancelling a task that waits on a
  semaphore, a callback that destroys its own timer. Each is a write to freed memory.
* **Coroutines**: `cgroup->fibers` is read uninitialised and cancel compares a function with a word of its own
  code; what is left without that is a countdown per coroutine.
* **I2C**: opens and closes interleaved inside by a tick (`i2c_start` and `i2c_stop` run outside of `NOSCHED`),
  a chip that stretches the clock or hangs, `deinit`, and `i2c.c`, which needs a peripheral. The SPI driver has
  the same ownership protocol and no bus protocol.
* UART: polled mode and transmission, which keep no state. BNO055: the initialisation sequence, the
  arithmetic of the samples, the printing.
* Heap: `realloc` and `calloc`, which are copies on top of the calls modelled, and the two allocators that
  are not built. Lists: the calls nobody in the kernel makes, and the doubly linked list.
* The GPIO and VT100 drivers, the C library, console and dump code: sequential or pure I/O. The system call
  wrapper forwards. The other HALs repeat one of the two modelled mechanisms.
* `arch/common` and the libraries beside it: vendor headers and peripheral libraries, third-party code that is
  most of the repository's lines.
* Wrap-around of ticks and uptime; time inside a tick period.
