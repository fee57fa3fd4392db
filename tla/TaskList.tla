------------------------------ MODULE TaskList ------------------------------
(***************************************************************************)
(* What kcb->tasks is to the kernel: a sequence of task identifiers. A     *)
(* spawn appends one, a cancel removes the first that matches, and a spawn *)
(* that finds no memory stops the system, before or after it has appended. *)
(***************************************************************************)
EXTENDS Naturals, Sequences, SequencesExt

CONSTANT Id   \* the task identifiers

VARIABLES tasks, panicked

Init == tasks = <<>> /\ panicked = FALSE

Spawn(id) == tasks' = Append(tasks, id) /\ UNCHANGED panicked

Cancel(id) ==
  /\ \E other \in ToSet(tasks) : other # id
  /\ \E i \in 1..Len(tasks) :
       /\ tasks[i] = id /\ \A j \in 1..(i - 1) : tasks[j] # id
       /\ tasks' = RemoveAt(tasks, i)
  /\ UNCHANGED panicked

Panic ==
  /\ panicked' = TRUE
  /\ UNCHANGED tasks \/ \E id \in Id : tasks' = Append(tasks, id)

Next == ~panicked /\ (Panic \/ \E id \in Id : Spawn(id) \/ Cancel(id))

Spec == Init /\ [][Next]_<<tasks, panicked>>
=============================================================================
