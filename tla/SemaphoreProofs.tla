-------------------------- MODULE SemaphoreProofs ---------------------------
(***************************************************************************)
(* What the semaphore promises, for any number of tasks, units and waiters *)
(* the queue has room for: mutual exclusion, no lost waiter, no panic, and *)
(* Dijkstra's semantics. The argument follows the counter: outside of the  *)
(* critical sections a negative count is the number of tasks in the queue, *)
(* and those are the blocked ones.                                         *)
(***************************************************************************)
EXTENDS Semaphore, RingProofs, FiniteSetTheorems

\* Critical sections exclude the tick, or there is none (Cooperative, where a
\* wait that blocks never returns but breaks nothing).
Exclusive == Masks \/ ~Preemptive

\* Every signal gives back a unit that its task has waited for.
NoProducer == \A t \in Task : Role[t] # "producer"

\* The queue takes every task that can wait.
RoomForWaiters == Cardinality(Task \ {Idle}) < RingSize(Slots)

Points == {"app"} \cup Critical \cup Sleeping
Blocked == {t \in Task : state[t] = "BLOCKED"}
Entry == Task \cup {NULL}
Rooms == RingSize(Slots)

\* What a ring holds, and that it holds nothing twice.
Contents(r) == {RingItems(r)[k] : k \in 1..r.elem}
Once(r) == \A j, k \in 1..r.elem : RingItems(r)[j] = RingItems(r)[k] => j = k

(***************************************************************************)
(* The invariant.                                                          *)
(***************************************************************************)
SemType ==
  /\ count \in Int /\ IsRing(queue, Rooms, Entry)
  /\ state \in [Task -> {"READY", "RUNNING", "BLOCKED"}]
  /\ pc \in [Task -> Points] /\ reg \in [Task -> Int] /\ peer \in [Task -> Entry]
  /\ on \in Task /\ inside \in SUBSET Task /\ halted \in BOOLEAN

\* Only the running task is in a critical section, and a task that is blocked
\* sleeps in its wait; it leaves the busy wait only after it was woken.
Places ==
  /\ \A t \in Task :
       /\ pc[t] \in Critical => t = on
       /\ pc[t] # "app" => Role[t] # "idle"
       /\ t \in inside => pc[t] = "app" /\ Role[t] # "idle"
       /\ state[t] = "BLOCKED" => pc[t] \in Sleeping
  /\ state[on] = "BLOCKED" => pc[on] \in {"wfi_read", "wfi"}

\* The queue holds the blocked tasks: one more between the enqueue and the
\* block, one less between the dequeue and the wake.
QueueBook ==
  /\ Once(queue) /\ Cardinality(Queued) = queue.elem
  /\ pc[on] = "w_block" => Queued = Blocked \cup {on}
  /\ pc[on] = "s_wake" => peer[on] \in Blocked /\ Queued = Blocked \ {peer[on]}
  /\ pc[on] \notin {"w_block", "s_wake"} => Queued = Blocked

\* The waiters a count stands for, and the count the queue agrees with.
Below(c) == IF c < 0 THEN -c ELSE 0
Agreed == CASE pc[on] \in {"w_test", "w_enq"} -> count + 1
            [] pc[on] \in {"s_test", "s_deq"} -> count - 1
            [] OTHER -> count
CountBook ==
  /\ queue.elem = Below(Agreed)
  /\ pc[on] \in {"w_dec", "s_inc"} => reg[on] = count
  /\ pc[on] \in {"w_enq", "w_block"} => count < 0
  /\ pc[on] \in {"s_deq", "s_wake"} => count <= 0

SemInv == SemType /\ Places /\ QueueBook /\ CountBook

\* Who has a unit: the tasks inside, those whose wait has passed or was served
\* but has not returned, and a signal that has not given it back yet.
Holds(t) ==
  \/ t \in inside
  \/ pc[t] \in Sleeping /\ state[t] # "BLOCKED"
  \/ pc[t] = "w_test" /\ count >= 0
  \/ pc[t] = "s_inc"
  \/ pc[t] = "s_test" /\ count <= 0
  \/ pc[t] \in {"s_deq", "s_wake"}
Unit == {t \in Task : Holds(t)}
Free == IF count > 0 THEN count ELSE 0
UnitBook == Cardinality(Unit) + Free <= Value

(***************************************************************************)
(* What an enqueue and a dequeue do to the contents of a ring.             *)
(***************************************************************************)
Entries(w) == {w[k] : k \in 1..Len(w)}
Apart(w) == \A j, k \in 1..Len(w) : w[j] = w[k] => j = k

LEMMA AppendHolds ==
  ASSUME NEW S, NEW w \in Seq(S), NEW d \in S, NEW v, v = Append(w, d)
  PROVE  /\ Entries(v) = Entries(w) \cup {d} /\ Len(v) = Len(w) + 1
         /\ Apart(w) /\ d \notin Entries(w) => Apart(v)
<1>1. /\ Len(w) \in Nat /\ Len(v) = Len(w) + 1 /\ v[Len(w) + 1] = d
      /\ \A k \in 1..Len(w) : v[k] = w[k]
  OBVIOUS
<1>2. 1..Len(v) = 1..Len(w) \cup {Len(w) + 1}
  BY <1>1
<1> QED BY <1>1, <1>2 DEF Entries, Apart

LEMMA TailHolds ==
  ASSUME NEW S, NEW w \in Seq(S), w # <<>>, NEW v, v = Tail(w), Apart(w)
  PROVE  /\ Entries(v) = Entries(w) \ {Head(w)} /\ Head(w) \in Entries(w)
         /\ Apart(v) /\ Len(v) = Len(w) - 1
<1>1. /\ Len(w) \in Nat /\ Len(w) >= 1 /\ Len(v) = Len(w) - 1 /\ Head(w) = w[1]
      /\ \A k \in 1..Len(v) : v[k] = w[k + 1]
  OBVIOUS
<1>2. \A k \in 1..Len(v) : k + 1 \in 1..Len(w) /\ k + 1 # 1
  BY <1>1
<1>3. \A k \in 1..Len(w) : k # 1 => k - 1 \in 1..Len(v) /\ (k - 1) + 1 = k
  BY <1>1
<1>4. Entries(v) \subseteq Entries(w) \ {Head(w)}
  BY <1>1, <1>2 DEF Entries, Apart
<1>5. Entries(w) \ {Head(w)} \subseteq Entries(v)
  <2> SUFFICES ASSUME NEW k \in 1..Len(w), w[k] # w[1] PROVE \E j \in 1..Len(v) : w[k] = v[j]
    BY <1>1 DEF Entries
  <2>1. k - 1 \in 1..Len(v) /\ v[k - 1] = w[k]
    BY <1>1, <1>3
  <2> QED BY <2>1
<1>6. Apart(v)
  BY <1>1, <1>2 DEF Apart
<1>7. Head(w) \in Entries(w)
  BY <1>1 DEF Entries
<1> QED BY <1>1, <1>4, <1>5, <1>6, <1>7

LEMMA ContentsAreEntries ==
  ASSUME NEW S, NEW N \in CellCount, NEW r, IsRing(r, N, S)
  PROVE  /\ RingItems(r) \in Seq(S) /\ Len(RingItems(r)) = r.elem
         /\ Contents(r) = Entries(RingItems(r))
         /\ (Once(r) => Apart(RingItems(r))) /\ (Apart(RingItems(r)) => Once(r))
<1>1. RingItems(r) \in Seq(S) /\ Len(RingItems(r)) = r.elem
  BY ItemsType
<1>2. Contents(r) = Entries(RingItems(r))
  BY <1>1 DEF Contents, Entries
<1>3. (Once(r) => Apart(RingItems(r))) /\ (Apart(RingItems(r)) => Once(r))
  BY <1>1 DEF Once, Apart
<1> QED BY <1>1, <1>2, <1>3

LEMMA PutHolds ==
  ASSUME NEW S, NEW N \in CellCount, NEW r, IsRing(r, N, S), ~RingFull(r), Once(r),
         NEW d \in S, d \notin Contents(r), NEW s, s = RingPut(r, d)
  PROVE  /\ IsRing(s, N, S) /\ s.elem = r.elem + 1
         /\ Once(s) /\ Contents(s) = Contents(r) \cup {d}
<1>1. IsRing(s, N, S) /\ RingItems(s) = Append(RingItems(r), d)
  BY PutAppends DEF Grows
<1>2. /\ RingItems(r) \in Seq(S) /\ Len(RingItems(r)) = r.elem
      /\ Contents(r) = Entries(RingItems(r)) /\ Apart(RingItems(r))
  BY ContentsAreEntries
<1>3. /\ Len(RingItems(s)) = s.elem /\ Contents(s) = Entries(RingItems(s))
      /\ Apart(RingItems(s)) => Once(s)
  BY <1>1, ContentsAreEntries
<1> DEFINE w == RingItems(r)
           v == RingItems(s)
<1> HIDE DEF w, v
<1>4. /\ Entries(v) = Entries(w) \cup {d} /\ Len(v) = Len(w) + 1
      /\ Apart(w) /\ d \notin Entries(w) => Apart(v)
  <2>1. w \in Seq(S) /\ v = Append(w, d)
    BY <1>1, <1>2 DEF w, v
  <2> QED BY <2>1, AppendHolds
<1>5. s.elem = r.elem + 1 /\ Contents(s) = Contents(r) \cup {d} /\ Apart(RingItems(s))
  BY <1>2, <1>3, <1>4 DEF w, v
<1> QED BY <1>1, <1>3, <1>5

LEMMA TakeHolds ==
  ASSUME NEW S, NEW N \in CellCount, NEW r, IsRing(r, N, S), ~RingEmpty(r), Once(r),
         NEW s, s = RingTake(r)
  PROVE  /\ IsRing(s, N, S) /\ s.elem = r.elem - 1 /\ Once(s)
         /\ RingFront(r) \in Contents(r) /\ Contents(s) = Contents(r) \ {RingFront(r)}
<1>1. /\ IsRing(s, N, S) /\ RingItems(s) = Tail(RingItems(r))
      /\ RingItems(r) # <<>> /\ RingFront(r) = Head(RingItems(r))
  BY TakeIsTail DEF Shrinks
<1>2. /\ RingItems(r) \in Seq(S) /\ Len(RingItems(r)) = r.elem
      /\ Contents(r) = Entries(RingItems(r)) /\ Apart(RingItems(r))
  BY ContentsAreEntries
<1>3. /\ Len(RingItems(s)) = s.elem /\ Contents(s) = Entries(RingItems(s))
      /\ Apart(RingItems(s)) => Once(s)
  BY <1>1, ContentsAreEntries
<1> DEFINE w == RingItems(r)
           v == RingItems(s)
<1> HIDE DEF w, v
<1>4. /\ Entries(v) = Entries(w) \ {Head(w)} /\ Head(w) \in Entries(w)
      /\ Apart(v) /\ Len(v) = Len(w) - 1
  <2>1. w \in Seq(S) /\ w # <<>> /\ v = Tail(w) /\ Apart(w)
    BY <1>1, <1>2 DEF w, v
  <2> QED BY <2>1, TailHolds
<1>5. /\ s.elem = r.elem - 1 /\ Contents(s) = Contents(r) \ {RingFront(r)}
      /\ RingFront(r) \in Contents(r) /\ Apart(RingItems(s))
  BY <1>1, <1>2, <1>3, <1>4 DEF w, v
<1> QED BY <1>1, <1>3, <1>5

LEMMA ContentsType ==
  ASSUME NEW S, NEW N \in CellCount, NEW r, IsRing(r, N, S)
  PROVE  Contents(r) \subseteq S /\ r.elem \in 0..(N - 1)
<1>1. RingItems(r) \in Seq(S) /\ Len(RingItems(r)) = r.elem
  BY ItemsType
<1>2. r.elem \in 0..(N - 1)
  BY DEF IsRing, Cells
<1> QED BY <1>1, <1>2 DEF Contents

LEMMA RoomsCount == Rooms \in CellCount /\ Rooms \in Nat /\ Rooms >= 2
<1>1. Slots \in Sizes
  BY SemaphoreAssumption DEF Sizes
<1>2. RingSize(Slots) \in Nat /\ RingSize(Slots) >= 2
  BY <1>1, SizeRange
<1> QED BY <1>2 DEF Rooms, CellCount

(***************************************************************************)
(* How the actions move the running task.                                  *)
(***************************************************************************)
LEMMA PointNames ==
  {"app", "w_dec", "w_test", "w_enq", "w_block", "s_inc", "s_test", "s_deq", "s_wake",
   "wfi_read", "wfi", "wfi_over"} = Points
BY DEF Points, Critical, WaitSection, SignalSection, Sleeping

\* The running task goes on to p, and no task's state changes.
Moves(p) ==
  /\ pc' = [pc EXCEPT ![on] = p]
  /\ UNCHANGED <<state, on>>

LEMMA MovesType ==
  ASSUME SemType, NEW p \in Points, Moves(p)
  PROVE  /\ pc' \in [Task -> Points] /\ pc'[on] = p /\ on' = on /\ on \in Task
         /\ \A t \in Task : t # on => pc'[t] = pc[t]
         /\ pc'[on'] = p
BY DEF SemType, Moves

LEMMA MovesPlaces ==
  ASSUME SemType, Places, NEW p \in Points, Moves(p), p # "app" => Role[on] # "idle",
         inside' \subseteq inside \cup {on}, on \in inside' => p = "app" /\ Role[on] # "idle",
         state[on] = "BLOCKED" => p \in {"wfi_read", "wfi"}
  PROVE  Places'
<1>1. /\ pc'[on] = p /\ on' = on /\ on \in Task /\ pc'[on'] = p
      /\ \A t \in Task : t # on => pc'[t] = pc[t]
  BY MovesType
<1>2. state' = state
  BY DEF Moves
<1>3. ASSUME NEW t \in Task
      PROVE  /\ pc'[t] \in Critical => t = on
             /\ pc'[t] # "app" => Role[t] # "idle"
             /\ t \in inside' => pc'[t] = "app" /\ Role[t] # "idle"
             /\ state[t] = "BLOCKED" => pc'[t] \in Sleeping
  <2>1. CASE t = on
    BY <1>1, <2>1 DEF Sleeping
  <2>2. CASE t # on
    BY <1>1, <2>2 DEF Places
  <2> QED BY <2>1, <2>2
<1> QED BY <1>1, <1>2, <1>3 DEF Places

LEMMA MovesQueue ==
  ASSUME SemType, QueueBook, NEW p \in Points, Moves(p), UNCHANGED <<queue, peer>>,
         {pc[on], p} \cap {"w_block", "s_wake"} = {}
  PROVE  QueueBook'
<1>1. pc'[on'] = p
  BY MovesType
<1>2. Blocked' = Blocked /\ Queued' = Queued
  BY DEF Moves, Blocked, Queued
<1> QED BY <1>1, <1>2 DEF QueueBook

\* A tick or a yield between two calls or in a busy wait: the books do not
\* depend on who runs.
Switches == \E t \in Task : Yield(t) \/ Tick(t)

LEMMA SwitchFacts ==
  ASSUME SemType, Places, Exclusive, Switches
  PROVE  /\ pc[on] \notin Critical /\ on' \in Task
         /\ state' \in [Task -> {"READY", "RUNNING", "BLOCKED"}]
         /\ state'[on'] # "BLOCKED" /\ Blocked' = Blocked
         /\ pc' \in [Task -> Points]
         /\ \A t \in Task :
              pc'[t] = pc[t] \/ (t = on /\ pc[t] = "wfi" /\ pc'[t] = "wfi_over")
         /\ UNCHANGED <<sem, reg, peer, inside, halted>>
<1>1. PICK t \in Task : Yield(t) \/ Tick(t)
  BY DEF Switches
<1>2. pc[on] \notin Critical
  <2>1. CASE Yield(t)
    BY <2>1 DEF Yield, Critical, WaitSection, SignalSection
  <2>2. CASE Tick(t)
    BY <2>2 DEF Tick, Exclusive
  <2> QED BY <1>1, <2>1, <2>2
<1>3. SwitchTo(t) /\ UNCHANGED <<sem, reg, peer, inside, halted>>
  BY <1>1 DEF Yield, Tick
<1>4. pc' = pc \/ (pc[on] = "wfi" /\ pc' = [pc EXCEPT ![on] = "wfi_over"])
  BY <1>1 DEF Yield, Tick
<1>5. /\ pc' \in [Task -> Points]
      /\ \A u \in Task : pc'[u] = pc[u] \/ (u = on /\ pc[u] = "wfi" /\ pc'[u] = "wfi_over")
  BY <1>4, PointNames DEF SemType
<1> DEFINE stopped == [state EXCEPT ![on] = IF @ = "RUNNING" THEN "READY" ELSE @]
<1>6. /\ stopped \in [Task -> {"READY", "RUNNING", "BLOCKED"}]
      /\ \A u \in Task : stopped[u] = "BLOCKED" <=> state[u] = "BLOCKED"
  BY DEF SemType
<1>7. stopped[t] = "READY" /\ state' = [stopped EXCEPT ![t] = "RUNNING"] /\ on' = t
  BY <1>3 DEF SwitchTo
<1> HIDE DEF stopped
<1>8. /\ state' \in [Task -> {"READY", "RUNNING", "BLOCKED"}]
      /\ state'[t] = "RUNNING"
      /\ \A u \in Task : state'[u] = "BLOCKED" <=> state[u] = "BLOCKED"
  BY <1>6, <1>7
<1>9. Blocked' = Blocked
  BY <1>8 DEF Blocked
<1> QED BY <1>2, <1>3, <1>5, <1>7, <1>8, <1>9

(***************************************************************************)
(* The two steps that change the queue.                                    *)
(***************************************************************************)
LEMMA QueueFinite ==
  ASSUME SemType, QueueBook
  PROVE  /\ Queued \subseteq Task \cup {on} /\ IsFiniteSet(Queued)
         /\ Queued = Contents(queue) /\ queue.elem \in Nat
<1>1. Queued \subseteq Blocked \cup {on}
  BY DEF QueueBook
<1>2. Queued \subseteq Task
  BY <1>1 DEF Blocked, SemType
<1>3. IsFiniteSet(Queued)
  BY <1>2, FS_Subset, SemaphoreAssumption
<1>4. queue.elem \in Nat
  BY DEF SemType, IsRing, Cells
<1> QED BY <1>2, <1>3, <1>4 DEF Queued, Contents

LEMMA EnqueueFacts ==
  ASSUME SemInv, WaitEnqueue, ~RingFull(queue)
  PROVE  /\ IsRing(queue', Rooms, Entry) /\ Once(queue') /\ queue'.elem = queue.elem + 1
         /\ on \notin Blocked /\ Queued' = Blocked \cup {on}
         /\ Cardinality(Queued') = queue'.elem
<1>1. /\ pc[on] = "w_enq" /\ on \in Task /\ queue' = RingPut(queue, on)
      /\ IsRing(queue, Rooms, Entry) /\ Once(queue) /\ on \in Entry
  BY DEF WaitEnqueue, Stands, SemInv, SemType, QueueBook, Entry
<1>2. Queued = Blocked /\ on \notin Blocked
  BY <1>1 DEF SemInv, QueueBook, Places, Blocked, Sleeping
<1>3. /\ Queued = Contents(queue) /\ IsFiniteSet(Queued) /\ Queued' = Contents(queue')
      /\ Cardinality(Queued) = queue.elem
  BY QueueFinite DEF SemInv, QueueBook, Queued, Contents
<1>4. /\ IsRing(queue', Rooms, Entry) /\ queue'.elem = queue.elem + 1
      /\ Once(queue') /\ Contents(queue') = Contents(queue) \cup {on}
  BY <1>1, <1>2, <1>3, RoomsCount, PutHolds
<1>5. Cardinality(Queued \cup {on}) = Cardinality(Queued) + 1
  BY <1>2, <1>3, FS_AddElement
<1> QED BY <1>2, <1>3, <1>4, <1>5

\* A signal that has counted a waiter finds one.
LEMMA DequeueFacts ==
  ASSUME SemInv, SignalDequeue
  PROVE  /\ ~RingEmpty(queue)
         /\ IsRing(queue', Rooms, Entry) /\ Once(queue') /\ queue'.elem = queue.elem - 1
         /\ RingFront(queue) \in Blocked /\ Queued' = Blocked \ {RingFront(queue)}
         /\ Cardinality(Queued') = queue'.elem
<1>1. /\ pc[on] = "s_deq" /\ on \in Task
      /\ IsRing(queue, Rooms, Entry) /\ Once(queue) /\ count \in Int
  BY DEF SignalDequeue, Stands, SemInv, SemType, QueueBook
<1>2. Queued = Blocked
  BY <1>1 DEF SemInv, QueueBook
<1>3. /\ Queued = Contents(queue) /\ IsFiniteSet(Queued) /\ Queued' = Contents(queue')
      /\ Cardinality(Queued) = queue.elem
  BY QueueFinite DEF SemInv, QueueBook, Queued, Contents
<1>4. queue.elem # 0
  <2>1. count <= 0 /\ Agreed = count - 1 /\ queue.elem = Below(Agreed)
    BY <1>1 DEF SemInv, CountBook, Agreed
  <2> QED BY <1>1, <2>1 DEF Below
<1>5. ~RingEmpty(queue)
  BY <1>1, <1>4, RoomsCount, EmptyMeansNone
<1>6. queue' = RingTake(queue)
  BY <1>5 DEF SignalDequeue
<1>7. /\ IsRing(queue', Rooms, Entry) /\ queue'.elem = queue.elem - 1 /\ Once(queue')
      /\ RingFront(queue) \in Contents(queue)
      /\ Contents(queue') = Contents(queue) \ {RingFront(queue)}
  BY <1>1, <1>5, <1>6, RoomsCount, TakeHolds
<1>8. Cardinality(Queued \ {RingFront(queue)}) = Cardinality(Queued) - 1
  BY <1>3, <1>7, FS_RemoveElement
<1> QED BY <1>2, <1>3, <1>5, <1>7, <1>8

(***************************************************************************)
(* The invariant is kept: its parts one by one.                            *)
(***************************************************************************)
LEMMA Cases ==
  ASSUME [Next]_vars
  PROVE  \/ WaitEnter \/ WaitStore \/ WaitTest \/ WaitEnqueue \/ WaitBlock \/ WfiRead
         \/ WfiReturn \/ SignalEnter \/ SignalStore \/ SignalTest \/ SignalDequeue
         \/ SignalWake \/ Switches \/ UNCHANGED vars
BY DEF Next, WaitStep, SignalStep, WfiSpin, Halted, Switches

LEMMA TypeStep == SemInv /\ Exclusive /\ [Next]_vars => SemType'
<1> SUFFICES ASSUME SemInv, Exclusive, [Next]_vars PROVE SemType'
  OBVIOUS
<1>1. SemType /\ Places
  BY DEF SemInv
<1>2. CASE WaitEnter
  BY <1>1, <1>2, PointNames DEF WaitEnter, Goto, SemType, sem
<1>3. CASE WaitStore
  BY <1>1, <1>3, PointNames DEF WaitStore, Goto, SemType
<1>4. CASE WaitTest
  BY <1>1, <1>4, PointNames DEF WaitTest, Goto, Returns, SemType, sem
<1>5. CASE WaitEnqueue
  <2>1. IsRing(queue', Rooms, Entry)
    BY <1>1, <1>5, EnqueueFacts DEF WaitEnqueue, SemType
  <2> QED BY <1>1, <1>5, <2>1, PointNames DEF WaitEnqueue, Goto, SemType
<1>6. CASE WaitBlock
  BY <1>1, <1>6, PointNames DEF WaitBlock, Goto, SemType, sem
<1>7. CASE WfiRead
  BY <1>1, <1>7, PointNames DEF WfiRead, Goto, SemType, sem
<1>8. CASE WfiReturn
  BY <1>1, <1>8, PointNames DEF WfiReturn, Goto, Returns, SemType, sem
<1>9. CASE SignalEnter
  BY <1>1, <1>9, PointNames DEF SignalEnter, Goto, SemType, sem
<1>10. CASE SignalStore
  BY <1>1, <1>10, PointNames DEF SignalStore, Goto, SemType
<1>11. CASE SignalTest
  BY <1>1, <1>11, PointNames DEF SignalTest, Goto, SemType, sem
<1>12. CASE SignalDequeue
  <2>1. ~RingEmpty(queue) /\ IsRing(queue', Rooms, Entry) /\ RingFront(queue) \in Entry
    BY <1>12, DequeueFacts DEF Blocked, Entry
  <2> QED BY <1>1, <1>12, <2>1, PointNames DEF SignalDequeue, Goto, SemType
<1>13. CASE SignalWake
  BY <1>1, <1>13, PointNames DEF SignalWake, Goto, SemType, Entry, sem
<1>14. CASE Switches
  BY <1>1, <1>14, SwitchFacts DEF SemType, sem
<1>15. CASE UNCHANGED vars
  BY <1>1, <1>15 DEF SemType, vars
<1> QED BY <1>2, <1>3, <1>4, <1>5, <1>6, <1>7, <1>8, <1>9, <1>10, <1>11, <1>12, <1>13,
           <1>14, <1>15, Cases

\* Where the running task goes, for the actions that change no state.
LEMMA MoveFacts ==
  ASSUME SemType
  PROVE  /\ WaitEnter => Moves("w_dec")
         /\ WaitStore => Moves("w_test")
         /\ WaitTest => Moves(IF count < 0 THEN "w_enq" ELSE "app")
         /\ WaitEnqueue => Moves(IF RingFull(queue) THEN "w_enq" ELSE "w_block")
         /\ WfiRead => Moves("wfi")
         /\ WfiReturn => Moves("app")
         /\ SignalEnter => Moves("s_inc")
         /\ SignalStore => Moves("s_test")
         /\ SignalTest => Moves(IF count <= 0 THEN "s_deq" ELSE "app")
         /\ SignalDequeue => Moves(IF RingEmpty(queue) THEN "s_deq" ELSE "s_wake")
<1>1. \A p \in Points : pc[on] = p => pc = [pc EXCEPT ![on] = p]
  BY DEF SemType
<1>2. WaitEnqueue => Moves(IF RingFull(queue) THEN "w_enq" ELSE "w_block")
  BY <1>1, PointNames DEF WaitEnqueue, Stands, Goto, Moves
<1>3. SignalDequeue => Moves(IF RingEmpty(queue) THEN "s_deq" ELSE "s_wake")
  BY <1>1, PointNames DEF SignalDequeue, Stands, Goto, Moves
<1> QED BY <1>2, <1>3
        DEF WaitEnter, WaitStore, WaitTest, WfiRead, WfiReturn, SignalEnter, SignalStore,
            SignalTest, Returns, Goto, Moves

\* The running task is not blocked unless it spins in ucx_task_wfi.
LEMMA Awake ==
  ASSUME SemType, Places, pc[on] \notin {"wfi_read", "wfi"}
  PROVE  state[on] # "BLOCKED" /\ on \notin Blocked
BY DEF SemType, Places, Blocked

LEMMA PlacesStep == SemInv /\ Exclusive /\ [Next]_vars => Places'
<1> SUFFICES ASSUME SemInv, Exclusive, [Next]_vars PROVE Places'
  OBVIOUS
<1>1. SemType /\ Places /\ on \in Task
  BY DEF SemInv, SemType
<1>2. /\ pc[on] # "app" => Role[on] # "idle"
      /\ on \in inside => pc[on] = "app"
  BY <1>1 DEF Places
<1>3. CASE WaitEnter
  <2>1. /\ pc[on] = "app" /\ Role[on] # "idle" /\ on \notin inside /\ inside' = inside
        /\ Moves("w_dec")
    BY <1>1, <1>3, MoveFacts DEF WaitEnter, Stands
  <2> QED BY <1>1, <2>1, Awake, MovesPlaces, PointNames
<1>4. CASE WaitStore
  <2>1. pc[on] = "w_dec" /\ inside' = inside /\ Moves("w_test")
    BY <1>1, <1>4, MoveFacts DEF WaitStore, Stands
  <2> QED BY <1>1, <1>2, <2>1, Awake, MovesPlaces, PointNames
<1>5. CASE WaitTest
  <2>1. /\ pc[on] = "w_test" /\ Moves(IF count < 0 THEN "w_enq" ELSE "app")
        /\ IF count < 0 THEN inside' = inside ELSE inside' \subseteq inside \cup {on}
    BY <1>1, <1>5, MoveFacts DEF WaitTest, Stands, Returns
  <2> QED BY <1>1, <1>2, <2>1, Awake, MovesPlaces, PointNames
<1>6. CASE WaitEnqueue
  <2>1. /\ pc[on] = "w_enq" /\ inside' = inside
        /\ Moves(IF RingFull(queue) THEN "w_enq" ELSE "w_block")
    BY <1>1, <1>6, MoveFacts DEF WaitEnqueue, Stands
  <2> QED BY <1>1, <1>2, <2>1, Awake, MovesPlaces, PointNames
<1>7. CASE WaitBlock
  <2>1. /\ pc[on] = "w_block" /\ pc' = [pc EXCEPT ![on] = "wfi_read"]
        /\ state' = [state EXCEPT ![on] = "BLOCKED"] /\ on' = on /\ inside' = inside
    BY <1>7 DEF WaitBlock, Stands, Goto
  <2> QED BY <1>1, <1>2, <2>1 DEF SemType, Places, Sleeping
<1>8. CASE WfiRead
  <2>1. pc[on] = "wfi_read" /\ inside' = inside /\ Moves("wfi")
    BY <1>1, <1>8, MoveFacts DEF WfiRead, Stands
  <2> QED BY <1>1, <1>2, <2>1, MovesPlaces, PointNames
<1>9. CASE WfiReturn
  <2>1. pc[on] = "wfi_over" /\ inside' \subseteq inside \cup {on} /\ Moves("app")
    BY <1>1, <1>9, MoveFacts DEF WfiReturn, Stands, Returns
  <2> QED BY <1>1, <1>2, <2>1, Awake, MovesPlaces, PointNames
<1>10. CASE SignalEnter
  <2>1. pc[on] = "app" /\ inside' = inside \ {on} /\ Moves("s_inc")
    BY <1>1, <1>10, MoveFacts DEF SignalEnter, Stands
  <2>2. Role[on] # "idle"
    BY <1>1, <1>10 DEF SignalEnter, Places
  <2> QED BY <1>1, <2>1, <2>2, Awake, MovesPlaces, PointNames
<1>11. CASE SignalStore
  <2>1. pc[on] = "s_inc" /\ inside' = inside /\ Moves("s_test")
    BY <1>1, <1>11, MoveFacts DEF SignalStore, Stands
  <2> QED BY <1>1, <1>2, <2>1, Awake, MovesPlaces, PointNames
<1>12. CASE SignalTest
  <2>1. /\ pc[on] = "s_test" /\ inside' = inside
        /\ Moves(IF count <= 0 THEN "s_deq" ELSE "app")
    BY <1>1, <1>12, MoveFacts DEF SignalTest, Stands
  <2> QED BY <1>1, <1>2, <2>1, Awake, MovesPlaces, PointNames
<1>13. CASE SignalDequeue
  <2>1. /\ pc[on] = "s_deq" /\ inside' = inside
        /\ Moves(IF RingEmpty(queue) THEN "s_deq" ELSE "s_wake")
    BY <1>1, <1>13, MoveFacts DEF SignalDequeue, Stands
  <2> QED BY <1>1, <1>2, <2>1, Awake, MovesPlaces, PointNames
<1>14. CASE SignalWake
  <2>1. /\ pc[on] = "s_wake" /\ pc' = [pc EXCEPT ![on] = "app"]
        /\ state' = [state EXCEPT ![peer[on]] = "READY"] /\ on' = on /\ inside' = inside
    BY <1>14 DEF SignalWake, Stands, Goto
  <2>2. state[on] # "BLOCKED"
    BY <1>1, <2>1, Awake
  <2> QED BY <1>1, <1>2, <2>1, <2>2 DEF SemType, Places, Critical, WaitSection, SignalSection
<1>15. CASE Switches
  <2>1. /\ on' \in Task /\ inside' = inside /\ state'[on'] # "BLOCKED" /\ Blocked' = Blocked
        /\ \A t \in Task : pc[t] \notin Critical
        /\ \A t \in Task :
             pc'[t] = pc[t] \/ (pc[t] = "wfi" /\ pc'[t] = "wfi_over")
    BY <1>1, <1>15, SwitchFacts DEF Places
  <2>2. \A t \in Task : state'[t] = "BLOCKED" => state[t] = "BLOCKED"
    BY <2>1 DEF Blocked
  <2> QED BY <1>1, <2>1, <2>2 DEF Places, Critical, WaitSection, SignalSection, Sleeping
<1>16. CASE UNCHANGED vars
  BY <1>1, <1>16 DEF Places, vars
<1> QED BY <1>3, <1>4, <1>5, <1>6, <1>7, <1>8, <1>9, <1>10, <1>11, <1>12, <1>13,
           <1>14, <1>15, <1>16, Cases

LEMMA QueueStep == SemInv /\ Exclusive /\ [Next]_vars => QueueBook'
<1> SUFFICES ASSUME SemInv, Exclusive, [Next]_vars PROVE QueueBook'
  OBVIOUS
<1>1. SemType /\ Places /\ QueueBook /\ on \in Task
  BY DEF SemInv, SemType
<1>2. CASE WaitEnter \/ WaitStore \/ WaitTest
  <2>1. PICK p \in {"w_dec", "w_test", "w_enq", "app"} : Moves(p)
    BY <1>1, <1>2, MoveFacts
  <2>2. UNCHANGED <<queue, peer>> /\ pc[on] \in {"app", "w_dec", "w_test"}
    BY <1>2 DEF WaitEnter, WaitStore, WaitTest, Stands, sem
  <2> QED BY <1>1, <2>1, <2>2, MovesQueue, PointNames
<1>3. CASE WfiRead \/ WfiReturn
  <2>1. PICK p \in {"wfi", "app"} : Moves(p)
    BY <1>1, <1>3, MoveFacts
  <2>2. UNCHANGED <<queue, peer>> /\ pc[on] \in {"wfi_read", "wfi_over"}
    BY <1>3 DEF WfiRead, WfiReturn, Stands, sem
  <2> QED BY <1>1, <2>1, <2>2, MovesQueue, PointNames
<1>4. CASE SignalEnter \/ SignalStore \/ SignalTest
  <2>1. PICK p \in {"s_inc", "s_test", "s_deq", "app"} : Moves(p)
    BY <1>1, <1>4, MoveFacts
  <2>2. UNCHANGED <<queue, peer>> /\ pc[on] \in {"app", "s_inc", "s_test"}
    BY <1>4 DEF SignalEnter, SignalStore, SignalTest, Stands, sem
  <2> QED BY <1>1, <2>1, <2>2, MovesQueue, PointNames
<1>5. CASE WaitEnqueue
  <2>1. CASE RingFull(queue)
    <3>1. Moves("w_enq") /\ UNCHANGED <<queue, peer>> /\ pc[on] = "w_enq"
      BY <1>1, <1>5, <2>1, MoveFacts DEF WaitEnqueue, Stands
    <3> QED BY <1>1, <3>1, MovesQueue, PointNames
  <2>2. CASE ~RingFull(queue)
    <3>1. Once(queue') /\ Queued' = Blocked \cup {on} /\ Cardinality(Queued') = queue'.elem
      BY <1>5, <2>2, EnqueueFacts
    <3>2. Moves("w_block")
      BY <1>1, <1>5, <2>2, MoveFacts
    <3>3. pc'[on'] = "w_block" /\ on' = on /\ Blocked' = Blocked
      BY <1>1, <3>2, MovesType, PointNames DEF Moves, Blocked
    <3> QED BY <3>1, <3>3 DEF QueueBook
  <2> QED BY <2>1, <2>2
<1>6. CASE WaitBlock
  <2>1. /\ pc[on] = "w_block" /\ pc' = [pc EXCEPT ![on] = "wfi_read"] /\ on' = on
        /\ state' = [state EXCEPT ![on] = "BLOCKED"] /\ queue' = queue
    BY <1>6 DEF WaitBlock, Stands, Goto, sem
  <2>2. pc'[on'] = "wfi_read" /\ Blocked' = Blocked \cup {on}
    BY <1>1, <2>1 DEF SemType, Blocked
  <2>3. Queued' = Queued /\ Queued = Blocked \cup {on}
    BY <1>1, <2>1 DEF QueueBook, Queued
  <2> QED BY <1>1, <2>1, <2>2, <2>3 DEF QueueBook
<1>7. CASE SignalDequeue
  <2>1. /\ Once(queue') /\ Queued' = Blocked \ {RingFront(queue)}
        /\ Cardinality(Queued') = queue'.elem /\ ~RingEmpty(queue)
        /\ RingFront(queue) \in Blocked
    BY <1>7, DequeueFacts DEF SemInv
  <2>2. Moves("s_wake") /\ peer' = [peer EXCEPT ![on] = RingFront(queue)]
    BY <1>1, <1>7, <2>1, MoveFacts DEF SignalDequeue
  <2>3. /\ pc'[on'] = "s_wake" /\ on' = on /\ Blocked' = Blocked
        /\ peer'[on] = RingFront(queue)
    BY <1>1, <2>2, MovesType, PointNames DEF Moves, Blocked, SemType
  <2> QED BY <2>1, <2>3 DEF QueueBook
<1>8. CASE SignalWake
  <2>1. /\ pc[on] = "s_wake" /\ pc' = [pc EXCEPT ![on] = "app"] /\ on' = on
        /\ state' = [state EXCEPT ![peer[on]] = "READY"] /\ queue' = queue
    BY <1>8 DEF SignalWake, Stands, Goto, sem
  <2>2. pc'[on'] = "app" /\ Blocked' = Blocked \ {peer[on]}
    BY <1>1, <2>1 DEF SemType, Blocked
  <2>3. Queued' = Queued /\ Queued = Blocked \ {peer[on]}
    BY <1>1, <2>1 DEF QueueBook, Queued
  <2> QED BY <1>1, <2>1, <2>2, <2>3 DEF QueueBook
<1>9. CASE Switches
  <2>1. /\ on' \in Task /\ Blocked' = Blocked /\ queue' = queue
        /\ pc[on] \notin Critical /\ \A t \in Task : pc[t] \notin Critical
        /\ \A t \in Task :
             pc'[t] = pc[t] \/ (pc[t] = "wfi" /\ pc'[t] = "wfi_over")
    BY <1>1, <1>9, SwitchFacts DEF Places, sem
  <2>2. {pc[on], pc'[on']} \cap {"w_block", "s_wake"} = {}
    BY <1>1, <2>1 DEF Critical, WaitSection, SignalSection
  <2>3. Queued' = Queued
    BY <2>1 DEF Queued
  <2> QED BY <1>1, <2>1, <2>2, <2>3 DEF QueueBook
<1>10. CASE UNCHANGED vars
  BY <1>1, <1>10 DEF QueueBook, Queued, Blocked, vars
<1> QED BY <1>2, <1>3, <1>4, <1>5, <1>6, <1>7, <1>8, <1>9, <1>10, Cases

LEMMA CountStep == SemInv /\ Exclusive /\ [Next]_vars => CountBook'
<1> SUFFICES ASSUME SemInv, Exclusive, [Next]_vars PROVE CountBook'
  OBVIOUS
<1>1. /\ SemType /\ Places /\ CountBook /\ on \in Task /\ count \in Int
      /\ queue.elem = Below(Agreed)
  BY DEF SemInv, SemType, CountBook
<1>2. CASE WaitEnter
  <2>1. /\ pc[on] = "app" /\ UNCHANGED <<count, queue>> /\ on' = on
        /\ reg'[on] = count /\ pc'[on'] = "w_dec"
    BY <1>1, <1>2, MoveFacts, MovesType, PointNames DEF WaitEnter, Stands, sem, SemType
  <2> QED BY <1>1, <2>1 DEF CountBook, Agreed
<1>3. CASE WaitStore
  <2>1. /\ pc[on] = "w_dec" /\ count' = count - 1 /\ queue' = queue /\ on' = on
        /\ pc'[on'] = "w_test"
    BY <1>1, <1>3, MoveFacts, MovesType, PointNames DEF WaitStore, Stands, CountBook
  <2> QED BY <1>1, <2>1 DEF CountBook, Agreed
<1>4. CASE WaitTest
  <2>1. /\ pc[on] = "w_test" /\ UNCHANGED <<count, queue>> /\ on' = on
        /\ pc'[on'] = IF count < 0 THEN "w_enq" ELSE "app"
    BY <1>1, <1>4, MoveFacts, MovesType, PointNames DEF WaitTest, Stands, sem
  <2> QED BY <1>1, <2>1 DEF CountBook, Agreed, Below
<1>5. CASE WaitEnqueue
  <2>1. pc[on] = "w_enq" /\ UNCHANGED <<count, reg>> /\ on' = on /\ count < 0
    BY <1>1, <1>5 DEF WaitEnqueue, Stands, CountBook
  <2>2. CASE RingFull(queue)
    <3>1. queue' = queue /\ pc'[on'] = "w_enq"
      BY <1>1, <1>5, <2>2, MoveFacts, MovesType, PointNames DEF WaitEnqueue
    <3> QED BY <1>1, <2>1, <3>1 DEF CountBook, Agreed
  <2>3. CASE ~RingFull(queue)
    <3>1. queue'.elem = queue.elem + 1
      BY <1>5, <2>3, EnqueueFacts
    <3>2. pc'[on'] = "w_block"
      BY <1>1, <1>5, <2>3, MoveFacts, MovesType, PointNames
    <3> QED BY <1>1, <2>1, <3>1, <3>2 DEF CountBook, Agreed, Below
  <2> QED BY <2>2, <2>3
<1>6. CASE WaitBlock
  <2>1. pc[on] = "w_block" /\ UNCHANGED <<count, queue>> /\ on' = on /\ pc'[on'] = "wfi_read"
    BY <1>1, <1>6 DEF WaitBlock, Stands, Goto, sem, SemType
  <2> QED BY <1>1, <2>1 DEF CountBook, Agreed
<1>7. CASE WfiRead \/ WfiReturn
  <2>1. /\ pc[on] \in {"wfi_read", "wfi_over"} /\ UNCHANGED <<count, queue>> /\ on' = on
        /\ pc'[on'] \in {"wfi", "app"}
    BY <1>1, <1>7, MoveFacts, MovesType, PointNames DEF WfiRead, WfiReturn, Stands, sem
  <2> QED BY <1>1, <2>1 DEF CountBook, Agreed
<1>8. CASE SignalEnter
  <2>1. /\ pc[on] = "app" /\ UNCHANGED <<count, queue>> /\ on' = on
        /\ reg'[on] = count /\ pc'[on'] = "s_inc"
    BY <1>1, <1>8, MoveFacts, MovesType, PointNames DEF SignalEnter, Stands, sem, SemType
  <2> QED BY <1>1, <2>1 DEF CountBook, Agreed
<1>9. CASE SignalStore
  <2>1. /\ pc[on] = "s_inc" /\ count' = count + 1 /\ queue' = queue /\ on' = on
        /\ pc'[on'] = "s_test"
    BY <1>1, <1>9, MoveFacts, MovesType, PointNames DEF SignalStore, Stands, CountBook
  <2> QED BY <1>1, <2>1 DEF CountBook, Agreed
<1>10. CASE SignalTest
  <2>1. /\ pc[on] = "s_test" /\ UNCHANGED <<count, queue>> /\ on' = on
        /\ pc'[on'] = IF count <= 0 THEN "s_deq" ELSE "app"
    BY <1>1, <1>10, MoveFacts, MovesType, PointNames DEF SignalTest, Stands, sem
  <2> QED BY <1>1, <2>1 DEF CountBook, Agreed, Below
<1>11. CASE SignalDequeue
  <2>1. pc[on] = "s_deq" /\ UNCHANGED <<count, reg>> /\ on' = on /\ count <= 0
    BY <1>1, <1>11 DEF SignalDequeue, Stands, CountBook
  <2>2. queue'.elem = queue.elem - 1 /\ ~RingEmpty(queue)
    BY <1>11, DequeueFacts
  <2>3. pc'[on'] = "s_wake"
    BY <1>1, <1>11, <2>2, MoveFacts, MovesType, PointNames
  <2> QED BY <1>1, <2>1, <2>2, <2>3 DEF CountBook, Agreed, Below
<1>12. CASE SignalWake
  <2>1. pc[on] = "s_wake" /\ UNCHANGED <<count, queue>> /\ on' = on /\ pc'[on'] = "app"
    BY <1>1, <1>12 DEF SignalWake, Stands, Goto, sem, SemType
  <2> QED BY <1>1, <2>1 DEF CountBook, Agreed
<1>13. CASE Switches
  <2>1. /\ on' \in Task /\ UNCHANGED <<count, queue>>
        /\ pc[on] \notin Critical /\ \A t \in Task : pc[t] \notin Critical
        /\ \A t \in Task :
             pc'[t] = pc[t] \/ (pc[t] = "wfi" /\ pc'[t] = "wfi_over")
    BY <1>1, <1>13, SwitchFacts DEF Places, sem
  <2>2. pc[on] \notin Critical /\ pc'[on'] \notin Critical
    BY <1>1, <2>1 DEF Critical, WaitSection, SignalSection
  <2> QED BY <1>1, <2>1, <2>2 DEF CountBook, Agreed, Critical, WaitSection, SignalSection
<1>14. CASE UNCHANGED vars
  BY <1>1, <1>14 DEF CountBook, Agreed, vars
<1> QED BY <1>2, <1>3, <1>4, <1>5, <1>6, <1>7, <1>8, <1>9, <1>10, <1>11, <1>12, <1>13,
           <1>14, Cases

LEMMA InvInit == Init => SemInv
<1> SUFFICES ASSUME Init PROVE SemInv
  OBVIOUS
<1>1. IsRing(RingCreate(Slots), Rooms, Entry) /\ RingCreate(Slots).elem = 0
  BY RoomsCount, CreateIsRing DEF Rooms, Entry
<1>2. /\ IsRing(queue, Rooms, Entry) /\ queue.elem = 0 /\ count = Value /\ on = Idle
      /\ inside = {} /\ halted = FALSE /\ count \in Nat /\ on \in Task
      /\ \A t \in Task : state[t] = "READY" /\ pc[t] = "app"
  BY <1>1, SemaphoreAssumption DEF Init
<1>3. SemType
  <2>1. /\ state \in [Task -> {"READY", "RUNNING", "BLOCKED"}]
        /\ pc \in [Task -> Points] /\ reg \in [Task -> Int] /\ peer \in [Task -> Entry]
    BY PointNames DEF Init, Entry
  <2>2. count \in Int /\ inside \in SUBSET Task
    BY <1>2
  <2>3. halted \in BOOLEAN
    BY DEF Init
  <2> QED BY <1>2, <2>1, <2>2, <2>3 DEF SemType
<1>4. Places
  BY <1>2, <1>3 DEF Places, SemType, Critical, WaitSection, SignalSection
<1>5. QueueBook
  <2>1. Queued = {} /\ Blocked = {}
    BY <1>2 DEF Queued, Blocked
  <2>2. Cardinality(Queued) = 0
    BY <2>1, FS_EmptySet
  <2> QED BY <1>2, <2>1, <2>2 DEF QueueBook, Once
<1>6. CountBook
  BY <1>2 DEF CountBook, Agreed, Below
<1> QED BY <1>3, <1>4, <1>5, <1>6 DEF SemInv

LEMMA InvStep == SemInv /\ Exclusive /\ [Next]_vars => SemInv'
BY TypeStep, PlacesStep, QueueStep, CountStep DEF SemInv

THEOREM SemaphoreInvariant == Exclusive => (Spec => []SemInv)
<1> SUFFICES ASSUME Exclusive PROVE Spec => []SemInv
  OBVIOUS
<1>1. Init => SemInv
  BY InvInit
<1>2. SemInv /\ [Next]_vars => SemInv'
  BY InvStep
<1> QED BY <1>1, <1>2, PTL DEF Spec

(***************************************************************************)
(* No waiter is lost, and neither call stops the system.                   *)
(***************************************************************************)
\* Between two calls the counter, the queue and the states of the tasks tell
\* the same story, for any number of tasks and any order of ticks and calls.
THEOREM WaitersAreKept == Exclusive => (Spec => []NoLostWaiter)
<1> SUFFICES ASSUME Exclusive PROVE Spec => []NoLostWaiter
  OBVIOUS
<1>1. SemInv => NoLostWaiter
  <2> SUFFICES ASSUME SemInv, \A t \in Task : pc[t] \notin Critical
               PROVE  /\ queue.elem = IF count < 0 THEN -count ELSE 0
                      /\ Cardinality(Queued) = queue.elem /\ Queued = Blocked
    BY DEF NoLostWaiter, Blocked
  <2>1. pc[on] \notin Critical
    BY DEF SemInv, SemType
  <2> QED BY <2>1 DEF SemInv, QueueBook, CountBook, Agreed, Below, Critical, WaitSection,
                      SignalSection
<1> QED BY <1>1, SemaphoreInvariant, PTL

\* The queue is never full when one more task has to wait.
LEMMA RoomLeft ==
  ASSUME SemInv, RoomForWaiters, WaitEnqueue
  PROVE  ~RingFull(queue)
<1>1. /\ pc[on] = "w_enq" /\ on \in Task /\ IsRing(queue, Rooms, Entry)
      /\ SemType /\ Places /\ QueueBook
  BY DEF WaitEnqueue, Stands, SemInv, SemType
<1>2. Queued = Blocked /\ on \notin Blocked /\ on # Idle /\ Idle \notin Blocked
  BY <1>1, Awake, SemaphoreAssumption DEF QueueBook, Places, Blocked, Sleeping
<1>3. IsFiniteSet(Task \ {Idle}) /\ IsFiniteSet(Blocked) /\ Cardinality(Blocked) = queue.elem
  BY <1>1, <1>2, QueueFinite, FS_RemoveElement, SemaphoreAssumption DEF QueueBook
<1>4. Cardinality(Blocked \cup {on}) = queue.elem + 1
  BY <1>2, <1>3, FS_AddElement
<1>5. Cardinality(Blocked \cup {on}) <= Cardinality(Task \ {Idle})
  <2>1. Blocked \cup {on} \subseteq Task \ {Idle}
    BY <1>1, <1>2 DEF Blocked
  <2> QED BY <1>3, <2>1, FS_Subset
<1>6. Cardinality(Task \ {Idle}) \in Nat /\ queue.elem \in Nat /\ Rooms \in Nat
  BY <1>1, <1>3, FS_CardinalityType, QueueFinite, RoomsCount
<1>7. queue.elem # Rooms - 1
  BY <1>4, <1>5, <1>6 DEF RoomForWaiters, Rooms
<1> QED BY <1>1, <1>7, RoomsCount, FullMeansOneFree

\* Neither call panics, if the semaphore was created for as many waiters as
\* there can be; a signal never finds the queue empty, whatever its size.
THEOREM NoPanic == Exclusive /\ RoomForWaiters => (Spec => []NeverPanics)
<1> SUFFICES ASSUME Exclusive, RoomForWaiters PROVE Spec => []NeverPanics
  OBVIOUS
<1>1. Init => NeverPanics
  BY DEF Init, NeverPanics
<1>2. SemInv /\ NeverPanics /\ [Next]_vars => NeverPanics'
  <2> SUFFICES ASSUME SemInv, ~halted, [Next]_vars PROVE ~halted'
    BY DEF NeverPanics
  <2>1. CASE WaitEnqueue
    BY <2>1, RoomLeft DEF WaitEnqueue
  <2>2. CASE SignalDequeue
    BY <2>2, DequeueFacts DEF SignalDequeue
  <2>3. CASE Switches
    BY <2>3, SwitchFacts DEF SemInv
  <2>4. CASE ~WaitEnqueue /\ ~SignalDequeue /\ ~Switches
    BY <2>4, Cases DEF WaitEnter, WaitStore, WaitTest, WaitBlock, WfiRead, WfiReturn,
       SignalEnter, SignalStore, SignalTest, SignalWake, vars
  <2> QED BY <2>1, <2>2, <2>3, <2>4
<1> QED BY <1>1, <1>2, SemaphoreInvariant, PTL DEF Spec

(***************************************************************************)
(* Mutual exclusion: units are counted where they are.                     *)
(***************************************************************************)
LEMMA Counting ==
  ASSUME NEW X \in SUBSET Task, NEW Y \in SUBSET Task
  PROVE  /\ Cardinality(X) \in Nat /\ Cardinality(Y) \in Nat
         /\ Y \subseteq X => Cardinality(Y) <= Cardinality(X)
         /\ \A t \in Task : Y \subseteq X \cup {t} => Cardinality(Y) <= Cardinality(X) + 1
         /\ \A t \in X : Y \subseteq X \ {t} => Cardinality(Y) + 1 <= Cardinality(X)
<1>1. IsFiniteSet(X) /\ IsFiniteSet(Y) /\ Cardinality(X) \in Nat /\ Cardinality(Y) \in Nat
  BY FS_Subset, FS_CardinalityType, SemaphoreAssumption
<1>2. ASSUME Y \subseteq X PROVE Cardinality(Y) <= Cardinality(X)
  BY <1>1, <1>2, FS_Subset
<1>3. ASSUME NEW t \in Task, Y \subseteq X \cup {t}
      PROVE  Cardinality(Y) <= Cardinality(X) + 1
  <2>1. IsFiniteSet(X \cup {t}) /\ Cardinality(X \cup {t}) \in {Cardinality(X), Cardinality(X) + 1}
    BY <1>1, FS_AddElement
  <2>2. Cardinality(Y) <= Cardinality(X \cup {t})
    BY <1>3, <2>1, FS_Subset
  <2> QED BY <1>1, <2>1, <2>2
<1>4. ASSUME NEW t \in X, Y \subseteq X \ {t} PROVE Cardinality(Y) + 1 <= Cardinality(X)
  <2>1. IsFiniteSet(X \ {t}) /\ Cardinality(X \ {t}) = Cardinality(X) - 1
    BY <1>1, FS_RemoveElement
  <2>2. Cardinality(Y) <= Cardinality(X \ {t})
    BY <1>4, <2>1, FS_Subset
  <2> QED BY <1>1, <2>1, <2>2
<1> QED BY <1>1, <1>2, <1>3, <1>4

\* A step of the running task changes nobody else's units, unless it wakes him.
LEMMA OthersHold ==
  ASSUME SemType, Places, NEW p \in Points, Moves(p),
         \A t \in Task : t # on => (t \in inside' => t \in inside)
  PROVE  \A t \in Task : t # on => (Holds(t)' => Holds(t))
<1>1. \A t \in Task : t # on => pc'[t] = pc[t] /\ pc[t] \notin Critical
  BY MovesType DEF Places
<1>2. state' = state
  BY DEF Moves
<1> QED BY <1>1, <1>2 DEF Holds, Critical, WaitSection, SignalSection

\* What the running task holds after it moved to p.
HoldsAt(p) ==
  \/ on \in inside'
  \/ p \in Sleeping /\ state[on] # "BLOCKED"
  \/ p = "w_test" /\ count' >= 0
  \/ p = "s_inc"
  \/ p = "s_test" /\ count' <= 0
  \/ p \in {"s_deq", "s_wake"}

LEMMA RunnerHolds ==
  ASSUME SemType, Places, NEW p \in Points, Moves(p),
         \A t \in Task : t # on => (t \in inside' => t \in inside)
  PROVE  /\ Unit' \subseteq Unit \cup {on}
         /\ ~HoldsAt(p) => Unit' \subseteq Unit \ {on}
         /\ Holds(on) => Unit' \subseteq Unit
<1>1. \A t \in Task : t # on => (Holds(t)' => Holds(t))
  BY OthersHold
<1>2. \A t \in Task : t = on => (Holds(t)' => HoldsAt(p))
  <2>1. state' = state /\ pc'[on] = p
    BY MovesType DEF Moves
  <2> QED BY <2>1 DEF Holds, HoldsAt
<1> QED BY <1>1, <1>2 DEF Unit

LEMMA Exchange ==
  \A a, b, c, d, v \in Nat : a + c <= v /\ b <= a + 1 /\ d + 1 = c => b + d <= v
OBVIOUS

LEMMA UnitStep ==
  SemInv /\ SemInv' /\ UnitBook /\ NoProducer /\ Exclusive /\ [Next]_vars => UnitBook'
<1> SUFFICES ASSUME SemInv, SemInv', UnitBook, NoProducer, Exclusive, [Next]_vars
             PROVE  UnitBook'
  OBVIOUS
<1>1. /\ SemType /\ Places /\ on \in Task /\ count \in Int /\ count' \in Int
      /\ Unit \in SUBSET Task /\ Unit' \in SUBSET Task
  BY DEF SemInv, SemType, Unit
<1>2. /\ Cardinality(Unit) + Free <= Value /\ Value \in Nat /\ Free \in Nat /\ Free' \in Nat
      /\ Cardinality(Unit) \in Nat /\ Cardinality(Unit') \in Nat
      /\ Cardinality(Unit') + Free' <= Value => UnitBook'
  BY <1>1, Counting, SemaphoreAssumption DEF UnitBook, Free
<1>3. Unit' \subseteq Unit /\ Free' = Free => UnitBook'
  BY <1>1, <1>2, Counting
<1>4. CASE WaitEnter
  <2>1. pc[on] = "app" /\ on \notin inside /\ UNCHANGED <<inside, count>> /\ Moves("w_dec")
    BY <1>1, <1>4, MoveFacts DEF WaitEnter, Stands, sem
  <2>2. ~HoldsAt("w_dec")
    BY <2>1 DEF HoldsAt, Sleeping
  <2> QED BY <1>1, <1>3, <2>1, <2>2, RunnerHolds, PointNames DEF Free
<1>5. CASE WaitStore
  <2>1. /\ pc[on] = "w_dec" /\ on \notin inside /\ inside' = inside /\ count' = count - 1
        /\ Moves("w_test")
    BY <1>1, <1>5, MoveFacts DEF WaitStore, Stands, Places, SemInv, CountBook
  <2>2. CASE count > 0
    <3>1. Unit' \subseteq Unit \cup {on}
      BY <1>1, <2>1, RunnerHolds, PointNames
    <3>2. Cardinality(Unit') <= Cardinality(Unit) + 1
      BY <1>1, <3>1, Counting
    <3>3. Free' + 1 = Free
      BY <1>1, <2>1, <2>2 DEF Free
    <3>4. Cardinality(Unit') + Free' <= Value
      BY <1>2, <3>2, <3>3, Exchange
    <3> QED BY <1>2, <3>4
  <2>3. CASE ~(count > 0)
    <3>1. ~HoldsAt("w_test")
      BY <1>1, <2>1, <2>3 DEF HoldsAt, Sleeping
    <3>2. Unit' \subseteq Unit /\ Free' = Free
      BY <1>1, <2>1, <2>3, <3>1, RunnerHolds, PointNames DEF Free
    <3> QED BY <1>3, <3>2
  <2> QED BY <2>2, <2>3
<1>6. CASE WaitTest
  <2>1. /\ pc[on] = "w_test" /\ on \notin inside /\ count' = count
        /\ Moves(IF count < 0 THEN "w_enq" ELSE "app")
        /\ \A t \in Task : t # on => (t \in inside' => t \in inside)
        /\ count < 0 => inside' = inside
    BY <1>1, <1>6, MoveFacts DEF WaitTest, Stands, Returns, sem, Places
  <2>2. CASE count < 0
    <3>1. ~HoldsAt("w_enq")
      BY <2>1, <2>2 DEF HoldsAt, Sleeping
    <3> QED BY <1>1, <1>3, <2>1, <2>2, <3>1, RunnerHolds, PointNames DEF Free
  <2>3. CASE ~(count < 0)
    <3>1. Holds(on)
      BY <1>1, <2>1, <2>3 DEF Holds
    <3> QED BY <1>1, <1>3, <2>1, <2>3, <3>1, RunnerHolds, PointNames DEF Free
  <2> QED BY <2>2, <2>3
<1>7. CASE WaitEnqueue
  <2>1. /\ pc[on] = "w_enq" /\ on \notin inside /\ UNCHANGED <<inside, count>>
        /\ Moves(IF RingFull(queue) THEN "w_enq" ELSE "w_block")
    BY <1>1, <1>7, MoveFacts DEF WaitEnqueue, Stands, Places
  <2>2. ~HoldsAt("w_enq") /\ ~HoldsAt("w_block")
    BY <2>1 DEF HoldsAt, Sleeping
  <2> QED BY <1>1, <1>3, <2>1, <2>2, RunnerHolds, PointNames DEF Free
<1>8. CASE WaitBlock
  <2>1. /\ pc[on] = "w_block" /\ on \notin inside /\ UNCHANGED <<inside, count>>
        /\ pc' = [pc EXCEPT ![on] = "wfi_read"] /\ state' = [state EXCEPT ![on] = "BLOCKED"]
    BY <1>1, <1>8 DEF WaitBlock, Stands, Goto, sem, Places
  <2>2. \A t \in Task : Holds(t)' => Holds(t)
    <3> SUFFICES ASSUME NEW t \in Task, Holds(t)' PROVE Holds(t)
      OBVIOUS
    <3>1. CASE t = on
      BY <1>1, <2>1, <3>1 DEF Holds, SemType, Sleeping
    <3>2. CASE t # on
      BY <1>1, <2>1, <3>2 DEF Holds, SemType
    <3> QED BY <3>1, <3>2
  <2> QED BY <1>3, <2>1, <2>2 DEF Unit, Free
<1>9. CASE WfiRead
  <2>1. pc[on] = "wfi_read" /\ on \notin inside /\ UNCHANGED <<inside, count>> /\ Moves("wfi")
    BY <1>1, <1>9, MoveFacts DEF WfiRead, Stands, sem, Places
  <2>2. HoldsAt("wfi") => Holds(on)
    BY <2>1 DEF HoldsAt, Holds, Sleeping
  <2>3. Unit' \subseteq Unit
    BY <1>1, <2>1, <2>2, RunnerHolds, PointNames
  <2> QED BY <1>3, <2>1, <2>3 DEF Free
<1>10. CASE WfiReturn
  <2>1. /\ pc[on] = "wfi_over" /\ count' = count /\ Moves("app")
        /\ \A t \in Task : t # on => (t \in inside' => t \in inside)
    BY <1>1, <1>10, MoveFacts DEF WfiReturn, Stands, Returns, sem
  <2>2. Holds(on)
    BY <1>1, <2>1, Awake DEF Holds, Sleeping
  <2> QED BY <1>1, <1>3, <2>1, <2>2, RunnerHolds, PointNames DEF Free
<1>11. CASE SignalEnter
  <2>1. /\ on \in inside /\ inside' = inside \ {on} /\ count' = count /\ Moves("s_inc")
    BY <1>1, <1>11, MoveFacts DEF SignalEnter, NoProducer, sem
  <2>2. Holds(on)
    BY <2>1 DEF Holds
  <2> QED BY <1>1, <1>3, <2>1, <2>2, RunnerHolds, PointNames DEF Free
<1>12. CASE SignalStore
  <2>1. /\ pc[on] = "s_inc" /\ on \notin inside /\ inside' = inside /\ count' = count + 1
        /\ Moves("s_test")
    BY <1>1, <1>12, MoveFacts DEF SignalStore, Stands, Places, SemInv, CountBook
  <2>2. Holds(on) /\ on \in Unit
    BY <1>1, <2>1 DEF Holds, Unit
  <2>3. CASE count < 0
    <3>1. Unit' \subseteq Unit /\ Free' = Free
      BY <1>1, <2>1, <2>2, <2>3, RunnerHolds, PointNames DEF Free
    <3> QED BY <1>3, <3>1
  <2>4. CASE ~(count < 0)
    <3>1. ~HoldsAt("s_test")
      BY <1>1, <2>1, <2>4 DEF HoldsAt, Sleeping
    <3>2. Unit' \subseteq Unit \ {on}
      BY <1>1, <2>1, <3>1, RunnerHolds, PointNames
    <3>3. Cardinality(Unit') + 1 <= Cardinality(Unit)
      BY <1>1, <2>2, <3>2, Counting
    <3>4. Free' = Free + 1
      BY <1>1, <2>1, <2>4 DEF Free
    <3>5. Cardinality(Unit') + Free' <= Value
      BY <1>2, <3>3, <3>4
    <3> QED BY <1>2, <3>5
  <2> QED BY <2>3, <2>4
<1>13. CASE SignalTest
  <2>1. /\ pc[on] = "s_test" /\ on \notin inside /\ UNCHANGED <<inside, count>>
        /\ Moves(IF count <= 0 THEN "s_deq" ELSE "app")
    BY <1>1, <1>13, MoveFacts DEF SignalTest, Stands, sem, Places
  <2>2. CASE count <= 0
    <3>1. Holds(on)
      BY <2>1, <2>2 DEF Holds
    <3> QED BY <1>1, <1>3, <2>1, <2>2, <3>1, RunnerHolds, PointNames DEF Free
  <2>3. CASE ~(count <= 0)
    <3>1. ~HoldsAt("app")
      BY <2>1 DEF HoldsAt, Sleeping
    <3> QED BY <1>1, <1>3, <2>1, <2>3, <3>1, RunnerHolds, PointNames DEF Free
  <2> QED BY <2>2, <2>3
<1>14. CASE SignalDequeue
  <2>1. /\ pc[on] = "s_deq" /\ UNCHANGED <<inside, count>>
        /\ Moves(IF RingEmpty(queue) THEN "s_deq" ELSE "s_wake")
    BY <1>1, <1>14, MoveFacts DEF SignalDequeue, Stands
  <2>2. Holds(on)
    BY <2>1 DEF Holds
  <2> QED BY <1>1, <1>3, <2>1, <2>2, RunnerHolds, PointNames DEF Free
<1>15. CASE SignalWake
  <2>1. /\ pc[on] = "s_wake" /\ on \notin inside /\ UNCHANGED <<inside, count>>
        /\ pc' = [pc EXCEPT ![on] = "app"] /\ state' = [state EXCEPT ![peer[on]] = "READY"]
    BY <1>1, <1>15 DEF SignalWake, Stands, Goto, sem, Places
  <2>2. on \in Unit /\ peer[on] \in Task
    BY <1>1, <2>1 DEF Unit, Holds, SemInv, QueueBook, Blocked
  <2>3. \A t \in Task : t # peer[on] => (Holds(t)' => Holds(t) /\ t # on)
    <3> SUFFICES ASSUME NEW t \in Task, t # peer[on], Holds(t)' PROVE Holds(t) /\ t # on
      OBVIOUS
    <3>1. t # on
      BY <1>1, <2>1 DEF Holds, SemType, Sleeping
    <3> QED BY <1>1, <2>1, <3>1 DEF Holds, SemType
  <2>4. Unit' \subseteq (Unit \ {on}) \cup {peer[on]}
    BY <2>3 DEF Unit
  <2>5. Cardinality(Unit \ {on}) + 1 <= Cardinality(Unit) /\ Unit \ {on} \in SUBSET Task
    BY <1>1, <2>2, Counting
  <2>6. Cardinality(Unit') <= Cardinality(Unit \ {on}) + 1 /\ Cardinality(Unit \ {on}) \in Nat
    BY <1>1, <2>2, <2>4, <2>5, Counting
  <2>7. Free' = Free
    BY <2>1 DEF Free
  <2>8. Cardinality(Unit') + Free' <= Value
    BY <1>2, <2>5, <2>6, <2>7
  <2> QED BY <1>2, <2>8
<1>16. CASE Switches
  <2>1. /\ UNCHANGED <<inside, count>> /\ Blocked' = Blocked
        /\ \A t \in Task : pc[t] \notin Critical
        /\ \A t \in Task :
             pc'[t] = pc[t] \/ (pc[t] = "wfi" /\ pc'[t] = "wfi_over")
    BY <1>1, <1>16, SwitchFacts DEF Places, sem
  <2>2. \A t \in Task : state[t] = "BLOCKED" => state'[t] = "BLOCKED"
    BY <2>1 DEF Blocked
  <2>3. \A t \in Task : Holds(t)' => Holds(t)
    BY <2>1, <2>2 DEF Holds, Critical, WaitSection, SignalSection, Sleeping
  <2> QED BY <1>3, <2>1, <2>3 DEF Unit, Free
<1>17. CASE UNCHANGED vars
  BY <1>3, <1>17 DEF Unit, Holds, Free, vars
<1> QED BY <1>4, <1>5, <1>6, <1>7, <1>8, <1>9, <1>10, <1>11, <1>12, <1>13, <1>14, <1>15,
           <1>16, <1>17, Cases

\* No more tasks are between wait and signal than the semaphore had units, for
\* any number of tasks and units, where critical sections exclude the tick.
THEOREM MutualExclusion == Exclusive /\ NoProducer => (Spec => []AtMostUnits)
<1> SUFFICES ASSUME Exclusive, NoProducer PROVE Spec => []AtMostUnits
  OBVIOUS
<1>1. Init => UnitBook
  <2> SUFFICES ASSUME Init PROVE UnitBook
    OBVIOUS
  <2>1. count = Value /\ \A t \in Task : ~Holds(t)
    BY DEF Init, Holds, Sleeping
  <2>2. Unit = {} /\ Cardinality({}) = 0
    BY <2>1, FS_EmptySet DEF Unit
  <2> QED BY <2>1, <2>2, SemaphoreAssumption DEF UnitBook, Free
<1>2. SemInv /\ SemInv' /\ UnitBook /\ [Next]_vars => UnitBook'
  BY UnitStep
<1>3. SemInv /\ UnitBook => AtMostUnits
  <2> SUFFICES ASSUME SemInv, UnitBook PROVE AtMostUnits
    OBVIOUS
  <2>1. inside \subseteq Unit /\ Unit \in SUBSET Task /\ inside \in SUBSET Task /\ count \in Int
    BY DEF SemInv, SemType, Unit, Holds
  <2>2. Cardinality(inside) <= Cardinality(Unit) /\ Cardinality(Unit) \in Nat
        /\ Cardinality(inside) \in Nat
    BY <2>1, Counting
  <2> QED BY <2>1, <2>2, SemaphoreAssumption DEF AtMostUnits, UnitBook, Free
<1> QED BY <1>1, <1>2, <1>3, SemaphoreInvariant, PTL DEF Spec

(***************************************************************************)
(* Dijkstra's semantics: every step is one of DijkstraSemaphore, or none.  *)
(***************************************************************************)
\* The status of a task that is not queued, from where it is in its call.
Away(p, c) ==
  IF p = "w_test" /\ c >= 0 THEN "granted"
  ELSE IF p \in WaitSection THEN "asking"
  ELSE IF p \in Sleeping THEN "granted" ELSE "out"
Told == \A t \in Task : Status(t) = IF t \in Queued THEN "waiting" ELSE Away(pc[t], count)

LEMMA StatusIsTold == SemInv => Told
<1> SUFFICES ASSUME SemInv, NEW t \in Task
             PROVE  Status(t) = IF t \in Queued THEN "waiting" ELSE Away(pc[t], count)
  BY DEF Told
<1>1. t \in Queued => pc[t] # "w_test"
  <2>1. t \in Queued => t \in Blocked \/ (t = on /\ pc[on] = "w_block")
    BY DEF SemInv, QueueBook
  <2>2. t \in Blocked => pc[t] \in Sleeping
    BY DEF SemInv, Places, Blocked
  <2> QED BY <2>1, <2>2 DEF Sleeping
<1>2. CASE t \in Queued
  BY <1>1, <1>2 DEF Status
<1>3. CASE t \notin Queued
  BY <1>3 DEF Status, Away, WaitSection, Sleeping
<1> QED BY <1>2, <1>3

LEMMA StatusIsToldNext == SemInv' => Told'
BY StatusIsTold, PTL

\* After a step every task's status is the old one, but for the one that goes
\* on to a.
Rests == \A u \in Task : Status(u)' = Status(u)
Goes(t, a) == \A u \in Task : Status(u)' = IF u = t THEN a ELSE Status(u)

LEMMA OnlyRunnerMoves ==
  ASSUME SemInv, SemInv', NEW p \in Points, Goto(p), on' = on, queue' = queue
  PROVE  /\ on \notin Queued => /\ Status(on) = Away(pc[on], count)
                                /\ Goes(on, Away(p, count'))
         /\ on \in Queued => Rests
<1>1. /\ Told /\ Told' /\ on \in Task /\ Queued' = Queued
      /\ pc'[on] = p /\ \A u \in Task : u # on => pc'[u] = pc[u] /\ pc[u] \notin Critical
  BY StatusIsTold, StatusIsToldNext DEF SemInv, SemType, Places, Goto, Queued
<1>2. \A u \in Task : u # on => Away(pc'[u], count') = Away(pc[u], count)
  BY <1>1 DEF Away, Critical, WaitSection
<1>3. \A u \in Task : u # on => Status(u)' = Status(u)
  BY <1>1, <1>2 DEF Told
<1>4. CASE on \in Queued
  <2>1. Status(on)' = Status(on)
    BY <1>1, <1>4 DEF Told
  <2> QED BY <1>3, <1>4, <2>1 DEF Rests
<1>5. CASE on \notin Queued
  <2>1. Status(on) = Away(pc[on], count) /\ Status(on)' = Away(p, count')
    BY <1>1, <1>5 DEF Told
  <2> QED BY <1>3, <1>5, <2>1 DEF Goes
<1> QED BY <1>4, <1>5

LEMMA SameStatus == Rests => [u \in Task |-> Status(u)]' = [u \in Task |-> Status(u)]
BY DEF Rests
LEMMA NewStatus ==
  ASSUME NEW t \in Task, NEW a, Goes(t, a)
  PROVE  [u \in Task |-> Status(u)]' = [[u \in Task |-> Status(u)] EXCEPT ![t] = a]
BY DEF Goes

\* A step that changes nobody's status, no free unit and no queue is none.
LEMMA Stutters ==
  ASSUME Rests, queue' = queue, Free' = Free
  PROVE  UNCHANGED Dijkstra!avars
BY SameStatus DEF Dijkstra!avars, Free

LEMMA DijkstraInit == Init => Dijkstra!AInit
<1> SUFFICES ASSUME Init PROVE Dijkstra!AInit
  OBVIOUS
<1>1. RingItems(queue) = <<>> /\ queue.elem = 0
  <2>1. IsRing(queue, Rooms, Entry) /\ queue.elem = 0
    BY RoomsCount, CreateIsRing DEF Init, Rooms, Entry
  <2>2. RingItems(queue) \in Seq(Entry) /\ Len(RingItems(queue)) = 0
    BY <2>1, RoomsCount, ItemsType
  <2> QED BY <2>1, <2>2
<1>2. \A t \in Task : Status(t) = "out"
  <2>1. Told
    BY InvInit, StatusIsTold
  <2>2. Queued = {}
    BY <1>1 DEF Queued
  <2>3. \A t \in Task : pc[t] = "app"
    BY DEF Init
  <2> QED BY <2>1, <2>2, <2>3 DEF Told, Away, WaitSection, Sleeping
<1>3. count = Value /\ Value \in Nat
  BY SemaphoreAssumption DEF Init
<1> QED BY <1>1, <1>2, <1>3 DEF Dijkstra!AInit

LEMMA DijkstraStep ==
  SemInv /\ SemInv' /\ Exclusive /\ [Next]_vars => [Dijkstra!ANext]_(Dijkstra!avars)
<1> SUFFICES ASSUME SemInv, SemInv', Exclusive, [Next]_vars
             PROVE  Dijkstra!ANext \/ UNCHANGED Dijkstra!avars
  OBVIOUS
<1>1. /\ SemType /\ Places /\ QueueBook /\ CountBook
      /\ on \in Task /\ count \in Int /\ count' \in Int
  BY DEF SemInv, SemType
<1>2. pc[on] \notin {"w_block", "wfi_read", "wfi"} => on \notin Queued
  BY <1>1, Awake DEF QueueBook
<1>3. CASE WaitEnter
  <2>1. /\ pc[on] = "app" /\ UNCHANGED <<count, queue, on>> /\ Goto("w_dec")
    BY <1>3 DEF WaitEnter, Stands, sem
  <2>2. Status(on) = "out" /\ Goes(on, "asking")
    BY <1>1, <1>2, <2>1, OnlyRunnerMoves, PointNames DEF Away, WaitSection, Sleeping
  <2>3. Dijkstra!Ask(on)
    BY <1>1, <2>1, <2>2, NewStatus DEF Dijkstra!Ask, Dijkstra!Moves
  <2> QED BY <1>1, <2>3 DEF Dijkstra!ANext
<1>4. CASE WaitStore
  <2>1. /\ pc[on] = "w_dec" /\ count' = count - 1 /\ UNCHANGED <<queue, on>> /\ Goto("w_test")
    BY <1>1, <1>4 DEF WaitStore, Stands, CountBook
  <2>2. /\ Status(on) = "asking"
        /\ Goes(on, IF count > 0 THEN "granted" ELSE "asking")
    BY <1>1, <1>2, <2>1, OnlyRunnerMoves, PointNames DEF Away, WaitSection
  <2>3. CASE count > 0
    <3>1. Dijkstra!Pass(on)
      BY <1>1, <2>1, <2>2, <2>3, NewStatus DEF Dijkstra!Pass, Dijkstra!Moves
    <3> QED BY <1>1, <3>1 DEF Dijkstra!ANext
  <2>4. CASE ~(count > 0)
    BY <1>1, <2>1, <2>2, <2>4, Stutters DEF Goes, Rests, Free
  <2> QED BY <2>3, <2>4
<1>5. CASE WaitTest
  <2>1. /\ pc[on] = "w_test" /\ UNCHANGED <<count, queue, on>>
        /\ Goto(IF count < 0 THEN "w_enq" ELSE "app")
    BY <1>5 DEF WaitTest, Stands, Returns, sem
  <2>2. CASE count < 0
    <3>1. Status(on) = "asking" /\ Goes(on, "asking")
      BY <1>1, <1>2, <2>1, <2>2, OnlyRunnerMoves, PointNames DEF Away, WaitSection
    <3> QED BY <1>1, <2>1, <3>1, Stutters DEF Goes, Rests, Free
  <2>3. CASE ~(count < 0)
    <3>1. Status(on) = "granted" /\ Goes(on, "out")
      BY <1>1, <1>2, <2>1, <2>3, OnlyRunnerMoves, PointNames DEF Away, WaitSection, Sleeping
    <3>2. Dijkstra!Return(on)
      BY <1>1, <2>1, <3>1, NewStatus DEF Dijkstra!Return, Dijkstra!Moves
    <3> QED BY <1>1, <3>2 DEF Dijkstra!ANext
  <2> QED BY <2>2, <2>3
<1>6. CASE WaitEnqueue
  <2>1. pc[on] = "w_enq" /\ UNCHANGED <<count, on>> /\ count < 0
    BY <1>1, <1>6 DEF WaitEnqueue, Stands, CountBook
  <2>2. Status(on) = "asking"
    BY <1>1, <1>2, <2>1, StatusIsTold DEF Told, Away, WaitSection
  <2>3. CASE RingFull(queue)
    <3>1. queue' = queue /\ Goto("w_enq")
      BY <1>1, <1>6, <2>1, <2>3 DEF WaitEnqueue, Goto, SemType
    <3>2. Goes(on, "asking")
      BY <1>1, <1>2, <2>1, <3>1, OnlyRunnerMoves, PointNames DEF Away, WaitSection
    <3> QED BY <1>1, <2>1, <2>2, <3>1, <3>2, Stutters DEF Goes, Rests, Free
  <2>4. CASE ~RingFull(queue)
    <3>1. queue' = RingPut(queue, on) /\ Goto("w_block") /\ on \in Entry
      BY <1>1, <1>6, <2>4 DEF WaitEnqueue, Entry
    <3>2. RingItems(queue') = Append(RingItems(queue), on)
      <4>1. Grows(queue, RingPut(queue, on), on)
        BY <1>1, <2>4, <3>1, RoomsCount, PutAppends DEF SemType
      <4> QED BY <3>1, <4>1 DEF Grows
    <3>3. Queued' = Queued \cup {on}
      BY <1>1, <1>6, <2>1, <2>4, EnqueueFacts DEF QueueBook
    <3>4. /\ Told /\ Told'
          /\ \A u \in Task : u # on => pc'[u] = pc[u]
      BY <1>1, <3>1, StatusIsTold, StatusIsToldNext DEF Goto, SemType
    <3>5. Goes(on, "waiting")
      BY <2>1, <3>3, <3>4 DEF Told, Goes
    <3>6. Dijkstra!Wait(on)
      BY <1>1, <2>1, <2>2, <3>2, <3>5, NewStatus DEF Dijkstra!Wait, Dijkstra!Moves
    <3> QED BY <1>1, <3>6 DEF Dijkstra!ANext
  <2> QED BY <2>3, <2>4
<1>7. CASE WaitBlock \/ WfiRead
  <2>1. /\ pc[on] = "w_block" => on \in Queued
        /\ pc[on] \in {"w_block", "wfi_read"} /\ UNCHANGED <<count, queue, on>>
        /\ Goto("wfi_read") \/ (pc[on] = "wfi_read" /\ Goto("wfi"))
    BY <1>1, <1>7 DEF WaitBlock, WfiRead, Stands, sem, QueueBook
  <2>2. Rests
    <3>1. CASE on \in Queued
      BY <1>1, <2>1, <3>1, OnlyRunnerMoves, PointNames
    <3>2. CASE on \notin Queued
      <4>1. Status(on) = "granted" /\ Goes(on, "granted")
        BY <1>1, <2>1, <3>2, OnlyRunnerMoves, PointNames DEF Away, WaitSection, Sleeping
      <4> QED BY <4>1 DEF Goes, Rests
    <3> QED BY <3>1, <3>2
  <2> QED BY <2>1, <2>2, Stutters DEF Free
<1>8. CASE WfiReturn
  <2>1. pc[on] = "wfi_over" /\ UNCHANGED <<count, queue, on>> /\ Goto("app")
    BY <1>8 DEF WfiReturn, Stands, Returns, sem
  <2>2. Status(on) = "granted" /\ Goes(on, "out")
    BY <1>1, <1>2, <2>1, OnlyRunnerMoves, PointNames DEF Away, WaitSection, Sleeping
  <2>3. Dijkstra!Return(on)
    BY <1>1, <2>1, <2>2, NewStatus DEF Dijkstra!Return, Dijkstra!Moves
  <2> QED BY <1>1, <2>3 DEF Dijkstra!ANext
<1>9. CASE SignalEnter \/ SignalTest \/ SignalWake
  <2>1. /\ pc[on] \in {"app", "s_test", "s_wake"} /\ UNCHANGED <<count, queue, on>>
        /\ \E p \in {"s_inc", "s_deq", "app"} : Goto(p)
    BY <1>9 DEF SignalEnter, SignalTest, SignalWake, Stands, sem
  <2>2. PICK p \in {"s_inc", "s_deq", "app"} : Goto(p)
    BY <2>1
  <2>3. Status(on) = "out" /\ Goes(on, "out")
    BY <1>1, <1>2, <2>1, <2>2, OnlyRunnerMoves, PointNames DEF Away, WaitSection, Sleeping
  <2> QED BY <1>1, <2>1, <2>3, Stutters DEF Goes, Rests, Free
<1>10. CASE SignalStore
  <2>1. /\ pc[on] = "s_inc" /\ count' = count + 1 /\ UNCHANGED <<queue, on>> /\ Goto("s_test")
    BY <1>1, <1>10 DEF SignalStore, Stands, CountBook
  <2>2. Status(on) = "out" /\ Goes(on, "out")
    BY <1>1, <1>2, <2>1, OnlyRunnerMoves, PointNames DEF Away, WaitSection, Sleeping
  <2>3. Rests
    BY <2>2 DEF Goes, Rests
  <2>4. CASE count < 0
    BY <1>1, <2>1, <2>3, <2>4, Stutters DEF Free
  <2>5. CASE ~(count < 0)
    <3>1. queue.elem = 0
      BY <1>1, <2>1, <2>5 DEF CountBook, Agreed, Below
    <3>2. RingItems(queue) = <<>>
      <4>1. RingItems(queue) \in Seq(Entry) /\ Len(RingItems(queue)) = 0
        BY <1>1, <3>1, RoomsCount, ItemsType DEF SemType
      <4> QED BY <4>1
    <3>3. Dijkstra!Keep
      BY <1>1, <2>1, <2>3, <2>5, <3>2, SameStatus DEF Dijkstra!Keep
    <3> QED BY <3>3 DEF Dijkstra!ANext
  <2> QED BY <2>4, <2>5
<1>11. CASE SignalDequeue
  <2>1. pc[on] = "s_deq" /\ UNCHANGED <<count, on>> /\ ~RingEmpty(queue)
    BY <1>11, DequeueFacts DEF SignalDequeue, Stands
  <2>2. queue' = RingTake(queue) /\ Goto("s_wake")
    BY <1>11, <2>1 DEF SignalDequeue
  <2>20. PICK h \in Task : RingFront(queue) = h
    BY <1>11, DequeueFacts DEF Blocked
  <2>3. /\ RingItems(queue') = Tail(RingItems(queue)) /\ RingItems(queue) # <<>>
        /\ Head(RingItems(queue)) = h
    <3>1. Shrinks(queue, RingTake(queue))
      BY <1>1, <2>1, RoomsCount, TakeIsTail DEF SemType
    <3> QED BY <2>2, <2>20, <3>1 DEF Shrinks
  <2>4. h \in Blocked /\ Queued = Blocked /\ Queued' = Blocked \ {h}
    BY <1>1, <1>11, <2>1, <2>20, DequeueFacts DEF QueueBook
  <2>5. h # on /\ pc[h] \in Sleeping
    BY <1>1, <2>1, <2>4, Awake DEF Places, Blocked
  <2>6. /\ Told /\ Told' /\ pc'[on] = "s_wake"
        /\ \A u \in Task : u # on => pc'[u] = pc[u]
    BY <1>1, <2>2, StatusIsTold, StatusIsToldNext DEF Goto, SemType
  <2>7. Status(h) = "waiting" /\ Goes(h, "granted")
    <3>1. Status(h) = "waiting"
      BY <2>4, <2>6 DEF Told
    <3>2. \A u \in Task : u = h => Status(u)' = "granted"
      BY <2>4, <2>5, <2>6 DEF Told, Away, WaitSection, Sleeping
    <3>3. \A u \in Task : u = on => Status(u)' = Status(u)
      BY <1>1, <1>2, <2>1, <2>4, <2>6 DEF Told, Away, WaitSection, Sleeping
    <3>4. \A u \in Task : u # h /\ u # on => Status(u)' = Status(u)
      BY <2>1, <2>4, <2>6 DEF Told
    <3> QED BY <3>1, <3>2, <3>3, <3>4 DEF Goes
  <2>8. Dijkstra!Hand
    BY <2>1, <2>3, <2>4, <2>7, NewStatus DEF Dijkstra!Hand, Dijkstra!Moves
  <2> QED BY <2>8 DEF Dijkstra!ANext
<1>12. CASE Switches
  <2>1. /\ UNCHANGED <<count, queue>> /\ Queued' = Queued
        /\ \A t \in Task : pc'[t] = pc[t] \/ (pc[t] = "wfi" /\ pc'[t] = "wfi_over")
    BY <1>1, <1>12, SwitchFacts DEF sem, Queued
  <2>2. \A t \in Task : Away(pc'[t], count') = Away(pc[t], count)
    BY <2>1 DEF Away, WaitSection, Sleeping
  <2>3. Rests
    BY <2>1, <2>2, StatusIsTold, StatusIsToldNext DEF Told, Rests
  <2> QED BY <2>1, <2>3, Stutters DEF Free
<1>13. CASE UNCHANGED vars
  <2>1. Rests
    BY <1>1, <1>13, StatusIsTold, StatusIsToldNext DEF Told, Rests, Queued, vars
  <2> QED BY <1>13, <2>1, Stutters DEF Free, vars
<1> QED BY <1>3, <1>4, <1>5, <1>6, <1>7, <1>8, <1>9, <1>10, <1>11, <1>12, <1>13, Cases

\* ucx_sem_wait and ucx_sem_signal are Dijkstra's operations, on a semaphore
\* of any value and size: each changes the units and the waiters in one step,
\* waiters are served in the order they came, and none returns unserved.
THEOREM SemaphoreIsDijkstras == Exclusive => (Spec => ImplementsDijkstra)
<1> SUFFICES ASSUME Exclusive PROVE Spec => ImplementsDijkstra
  OBVIOUS
<1>1. SemInv /\ SemInv' /\ [Next]_vars => [Dijkstra!ANext]_(Dijkstra!avars)
  BY DijkstraStep
<1> QED BY <1>1, DijkstraInit, SemaphoreInvariant, PTL
        DEF Spec, ImplementsDijkstra, Dijkstra!ASpec
=============================================================================
