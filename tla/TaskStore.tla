----------------------------- MODULE TaskStore -----------------------------
(***************************************************************************)
(* The memory behind kcb->tasks: the singly linked list of lib/list.c, its *)
(* nodes, the TCBs and the stacks, every one of them a block of the heap   *)
(* of lib/malloc.c. A list ends in a sentinel that list_pushback turns     *)
(* into the new element. Spawn and cancel are whole: cooperative tasks, or *)
(* the calls of app_main, where no tick falls between two allocations.     *)
(***************************************************************************)
EXTENDS Heap, Sequences, SequencesExt

CONSTANTS
  ListSize, NodeSize, TcbSize,  \* words of list_s, node_s and tcb_s
  StackSizes,                   \* words a task may ask for
  Ids                           \* id_next counts modulo Ids (65536)

ASSUME TaskStoreAssumption ==
  /\ {ListSize, NodeSize, TcbSize} \cup StackSizes \subseteq Nat \ {0}
  /\ \A size \in {TcbSize} \cup StackSizes : size + Hdr < Word   \* stack_size is a uint16_t
  /\ Length >= ListSize + 2 * NodeSize + 5 * Hdr   \* list_create succeeds
  /\ Ids \in Nat \ {0}

VARIABLES
  heap,      \* the allocator's state
  list,      \* kcb->tasks: where it lies, its head, tail and length
  node,      \* the contents of every node, by address
  tcb,       \* the contents of every TCB, by address
  id_next,   \* kcb->id_next
  panicked   \* krnl_panic was called

vars == <<heap, list, node, tcb, id_next, panicked>>

Node(next, data) == [next |-> next, data |-> data]
Drop(f, a) == [x \in DOMAIN f \ {a} |-> f[x]]

\* list_create on the fresh heap: the list, its head and its tail sentinel.
Init ==
  LET l == HeapMalloc(HeapInit, ListSize)
      head == HeapMalloc(l.heap, NodeSize)
      tail == HeapMalloc(head.heap, NodeSize)
  IN  /\ heap = tail.heap
      /\ list = [at |-> l.ptr, head |-> head.ptr, tail |-> tail.ptr, length |-> 0]
      /\ node = [n \in {head.ptr, tail.ptr} |->
                   Node(IF n = head.ptr THEN tail.ptr ELSE Null, Null)]
      /\ tcb = [x \in {} |-> Null]
      /\ id_next = 0
      /\ panicked = FALSE

\* The addresses list_foreach visits, in order: it stops at the sentinel.
Walk(nodes, first) ==
  LET walk[n \in DOMAIN nodes] ==
        IF nodes[n].next = Null THEN <<>> ELSE <<n>> \o walk[nodes[n].next]
  IN  walk[first]
Visited == Walk(node, node[list.head].next)

\* list_pushback with the node the heap returned: the old sentinel takes the
\* value, the new node becomes the sentinel.
PushbackNode_AtFront(n, val) ==                                     \* mutant
  /\ node' = With([node EXCEPT ![list.head].next = n], n, Node(node[list.head].next, val))
  /\ list' = [list EXCEPT !.length = @ + 1]
PushbackNode(n, val) ==
  /\ node' = With([node EXCEPT ![list.tail] = Node(n, val)], n, Node(Null, Null))
  /\ list' = [list EXCEPT !.tail = n, !.length = @ + 1]

\* list_remove: the predecessor is found from the head.
UnlinkNode(n) ==
  LET last == CHOOSE m \in {list.head} \cup ToSet(Visited) : node[m].next = n
  IN  /\ node' = Drop([node EXCEPT ![last].next = node[n].next], n)
      /\ list' = [list EXCEPT !.length = @ - 1]

Panic == panicked' = TRUE /\ UNCHANGED <<list, node, tcb, id_next>>

\* ucx_task_spawn: TCB, list node, stack; any of them missing is a panic. When
\* it is the stack, the task is in the list by then, with a null stack.
Spawn(stack_size) ==
  LET t == HeapMalloc(heap, TcbSize)
      n == HeapMalloc(t.heap, NodeSize)
      s == HeapMalloc(n.heap, stack_size)
  IN  IF t.ptr = Null
      THEN heap' = t.heap /\ Panic
      ELSE IF n.ptr = Null THEN heap' = n.heap /\ Panic
      ELSE /\ heap' = s.heap
           /\ PushbackNode(n.ptr, t.ptr)
           /\ tcb' = With(tcb, t.ptr, [id |-> id_next, stack |-> s.ptr, stack_sz |-> stack_size])
           /\ id_next' = (id_next + 1) % Ids
           /\ IF s.ptr = Null THEN panicked' = TRUE ELSE UNCHANGED panicked

\* The id of the i-th task of the list, and the first task that has it.
IdAt(i) == tcb[node[Visited[i]].data].id
First(i, id) == IdAt(i) = id /\ \A j \in 1..(i - 1) : IdAt(j) # id

\* ucx_task_cancel by the task self: the first node whose TCB has the id; its
\* stack, its TCB and then its node are freed.
Cancel_KeepsTcb(self, id) ==                                        \* mutant
  /\ id # self
  /\ \E i \in 1..Len(Visited) :
       LET n == Visited[i]
           t == node[n].data
       IN  /\ First(i, id)
           /\ heap' = HeapFree(HeapFree(heap, tcb[t].stack), n)
           /\ UnlinkNode(n)
           /\ tcb' = Drop(tcb, t)
  /\ UNCHANGED <<id_next, panicked>>
Cancel(self, id) ==
  /\ id # self
  /\ \E i \in 1..Len(Visited) :
       LET n == Visited[i]
           t == node[n].data
       IN  /\ First(i, id)
           /\ heap' = HeapFree(HeapFree(HeapFree(heap, tcb[t].stack), t), n)
           /\ UnlinkNode(n)
           /\ tcb' = Drop(tcb, t)
  /\ UNCHANGED <<id_next, panicked>>

TaskIds == {tcb[t].id : t \in DOMAIN tcb}

\* An id that has wrapped may be that of a task that still lives.
Next ==
  /\ ~panicked
  /\ \/ \E size \in StackSizes : Spawn(size)
     \/ \E self, id \in TaskIds : Cancel(self, id)

Spec == Init /\ [][Next]_vars

-----------------------------------------------------------------------------
\* What the kernel holds: every address it got from malloc, with its size.
Held ==
  [a \in {list.at} \cup DOMAIN node \cup DOMAIN tcb \cup {tcb[t].stack : t \in DOMAIN tcb} |->
     IF a = list.at THEN ListSize
     ELSE IF a \in DOMAIN node THEN NodeSize
     ELSE IF a \in DOMAIN tcb THEN TcbSize
     ELSE tcb[CHOOSE t \in DOMAIN tcb : tcb[t].stack = a].stack_sz]

\* The headers of the heap agree at all times with what the kernel holds: no
\* block is lost by a spawn or a cancel, none overlaps another, and the chain
\* of headers covers the zone (ucx_malloc, ucx_free; the size of the remainder
\* it leaves wrong is never read before it is recomputed). A panic is final, and
\* what the failed spawn had got is nobody's.
HeapIsExact == panicked \/ Exact(heap, Held)

\* ucx_malloc returns the lowest hole from last_free on that takes the area and
\* two headers, and fails only when there is none from there on: coalescing on
\* demand finds every hole that free() left in pieces. That is next fit; lower
\* holes wait until a free() sends last_free back to the start.
MallocIsNextFit ==
  panicked \/ \A size \in StackSizes \cup {NodeSize, TcbSize} :
                HeapMalloc(heap, size).ptr = NextFit(heap, Held, size)

\* To the kernel the linked list is a sequence: spawn appends, cancel removes
\* one task, and the order of the others stays (kernel/ucx.c relies on it for
\* its round, lib/list.c implements it with a moving sentinel).
Tasks == INSTANCE TaskList WITH Id <- 0..(Ids - 1),
           tasks <- [i \in 1..Len(Visited) |-> IdAt(i)]
ImplementsTaskList == Tasks!Spec
=============================================================================
