------------------------------- MODULE Timer -------------------------------
(***************************************************************************)
(* The software timers of kernel/timer.c. One task calls a handler for     *)
(* ever; the handler walks kcb->timer_lst node by node and calls back the  *)
(* timers that are due, and a callback may itself create, destroy, start   *)
(* and cancel timers. There are two handlers, on the uptime and on the     *)
(* tick counter; a system uses one of them. timer.c has no critical        *)
(* section: in a preemptive system another task starts and cancels timers  *)
(* between any two steps of the handler, and the handler runs between the  *)
(* stores of a start.                                                      *)
(*                                                                         *)
(* Preconditions the code does not check: the list has been created before *)
(* it is walked; timers are created and destroyed between passes or by     *)
(* callbacks, never by a task the handler preempts or is preempted by (it  *)
(* would walk a timer that is not filled in, or a freed one); nobody       *)
(* destroys a timer whose callback runs or whose start is under way.       *)
(***************************************************************************)
EXTENDS Naturals, Sequences, SequencesExt, Functions

CONSTANTS
  Client,     \* the other tasks that start timers
  MaxTimers,  \* bound: timers created in a run
  MaxTime,    \* bound: the clock stops here, long before any counter wraps
  Period      \* the times a timer may be created with

ASSUME TimerAssumption ==
  MaxTimers \in Nat /\ MaxTime \in Nat /\ Period \subseteq Nat \ {0}

Id == 1..MaxTimers
NoId == 0
Modes == {"DISABLED", "ONESHOT", "AUTORELOAD"}
Fields == [time : Nat \ {0}, countdown : Nat, timecmp : Nat, mode : Modes]

\* Where the timer task is: between two calls of its handler; between the two
\* last reads of kcb->ticks; and at a node about to read the timer, to store
\* the countdown, to call timer_cb, in it, or to store what follows it.
Phases == {"idle", "diff", "node", "count", "call", "callback", "reload", "disable"}

VARIABLES
  handler,    \* the handler this system runs: "systick" or "uptime"
  now,        \* ucx_uptime() and kcb->ticks, in the same unit
  last_tick,  \* the static variable of timer_handler_systick
  timer_lst,  \* the ids in kcb->timer_lst
  timer_id,   \* the next id
  timer,      \* the fields of each timer in the list
  cursor,     \* the timer whose node list_foreach stands on, or NoId
  phase,
  arg,        \* the argument of this walk: the uptime or the tick difference
  left,       \* at "count": what is left of the countdown
  starting,   \* per client, the start that has still to store the mode
  since, fires, due, mixed  \* history, see the properties

vars == <<handler, now, last_tick, timer_lst, timer_id, timer, cursor, phase, arg, left,
          starting, since, fires, due, mixed>>
list == <<timer_lst, timer_id>>
walk == <<cursor, phase, arg, left, last_tick>>
history == <<since, fires, due, mixed>>

Systick == handler = "systick"
Listed(t) == t \in ToSet(timer_lst)
Position(t) == CHOOSE i \in 1..Len(timer_lst) : timer_lst[i] = t
NoStart == [on |-> NoId, mode |-> "DISABLED"]
Starting(t) == \E c \in Client : starting[c].on = t

TypeOK ==
  /\ handler \in {"systick", "uptime"} /\ now \in 0..MaxTime /\ last_tick \in 0..now
  /\ timer_lst \in Seq(Id) /\ timer_id \in 1..(MaxTimers + 1)
  /\ DOMAIN timer = ToSet(timer_lst) /\ \A t \in DOMAIN timer : timer[t] \in Fields
  /\ cursor \in ToSet(timer_lst) \cup {NoId} /\ phase \in Phases
  /\ arg \in 0..now /\ left \in Nat
  /\ starting \in [Client -> {NoStart} \cup [on : ToSet(timer_lst), mode : Modes \ {"DISABLED"}]]
  /\ since \in [Id -> Nat] /\ fires \in [Id -> Nat]
  /\ due \subseteq ToSet(timer_lst) /\ mixed \subseteq Id

Init ==
  /\ handler \in {"systick", "uptime"}
  /\ now = 0 /\ last_tick = 0
  /\ timer_lst = <<>> /\ timer_id = 1
  /\ timer = <<>>
  /\ cursor = NoId /\ phase = "idle" /\ arg = 0 /\ left = 0
  /\ starting = [c \in Client |-> NoStart]
  /\ since = [t \in Id |-> 0] /\ fires = [t \in Id |-> 0] /\ due = {} /\ mixed = {}

----------------------------------------------------------------- \* the API
\* When the list may change.
MayChange == phase \in {"idle", "callback"}

Created(period) ==
  [time |-> period, countdown |-> period, timecmp |-> 0, mode |-> "DISABLED"]

\* ucx_timer_create. It changes nothing when the heap is full.
Create(period) ==
  /\ MayChange /\ timer_id \in Id
  /\ timer_lst' = Append(timer_lst, timer_id)
  /\ timer_id' = timer_id + 1
  /\ timer' = [t \in DOMAIN timer \cup {timer_id} |->
                 IF t = timer_id THEN Created(period) ELSE timer[t]]
  /\ UNCHANGED <<handler, now, walk, starting, history>>

\* ucx_timer_destroy
Destroy(t) ==
  /\ MayChange /\ Listed(t) /\ t # cursor /\ ~Starting(t)
  /\ timer_lst' = RemoveAt(timer_lst, Position(t))
  /\ timer' = Restrict(timer, DOMAIN timer \ {t})
  /\ since' = [since EXCEPT ![t] = 0] /\ fires' = [fires EXCEPT ![t] = 0]
  /\ due' = due \ {t} /\ mixed' = mixed \ {t}
  /\ UNCHANGED <<handler, now, timer_id, walk, starting>>

\* The handler has read the fields of t and still has some to store.
InVisit(t) == t = cursor /\ phase \in {"count", "call", "callback", "reload", "disable"}

\* The last tick that the systick handler has counted for t.
CountedFor(t) ==
  IF cursor # NoId /\ (t > cursor \/ (t = cursor /\ phase \in {"node", "count"}))
  THEN last_tick - arg ELSE last_tick

\* ucx_timer_start up to its last store, with the uptime it has read.
Armed_FromZero(t, uptime) ==                                        \* mutant
  [t EXCEPT !.countdown = t.time, !.timecmp = t.time]
Armed(t, uptime) ==
  [t EXCEPT !.countdown = t.time, !.timecmp = uptime + t.time]

Restarted(t, uptime) ==
  /\ since' = [since EXCEPT ![t] = IF Systick THEN CountedFor(t) ELSE uptime]
  /\ fires' = [fires EXCEPT ![t] = 0]
  /\ due' = due \ {t}
  /\ mixed' = IF InVisit(t) THEN mixed \cup {t} ELSE mixed \ {t}

\* A start by a callback, and the two halves of one by another task, which may
\* have read the uptime some time ago.
Start(t, mode) ==
  /\ phase = "callback" /\ Listed(t)
  /\ timer' = [timer EXCEPT ![t] = [Armed(@, now) EXCEPT !.mode = mode]]
  /\ Restarted(t, now)
  /\ UNCHANGED <<handler, now, list, walk, starting>>

StartTimes(c, t, mode) ==
  /\ starting[c] = NoStart /\ Listed(t)
  /\ starting' = [starting EXCEPT ![c] = [on |-> t, mode |-> mode]]
  /\ \E uptime \in (IF Systick THEN {now} ELSE 0..now) :
       timer' = [timer EXCEPT ![t] = Armed(@, uptime)] /\ Restarted(t, uptime)
  /\ UNCHANGED <<handler, now, list, walk>>

StartMode(c) ==
  /\ starting[c] # NoStart
  /\ timer' = [timer EXCEPT ![starting[c].on].mode = starting[c].mode]
  /\ starting' = [starting EXCEPT ![c] = NoStart]
  /\ UNCHANGED <<handler, now, list, walk, history>>

\* ucx_timer_cancel, by any task
Cancel(t) ==
  /\ Listed(t)
  /\ timer' = [timer EXCEPT ![t].mode = "DISABLED"]
  /\ due' = due \ {t}
  /\ UNCHANGED <<handler, now, list, walk, starting, since, fires, mixed>>

------------------------------------------------------------ \* the handlers
\* The node that follows t, read when the walk leaves t.
NextNode(t) ==
  IF Position(t) < Len(timer_lst) THEN timer_lst[Position(t) + 1] ELSE NoId

Expired(t, a) ==
  /\ timer[t].mode # "DISABLED"
  /\ IF Systick THEN timer[t].countdown <= a ELSE a > timer[t].timecmp

\* The walk stands on a node, or is over and its argument gone.
StandOn(t, a) ==
  /\ cursor' = t /\ left' = 0
  /\ phase' = IF t = NoId THEN "idle" ELSE "node"
  /\ arg' = IF t = NoId THEN 0 ELSE a

Walk(a) ==
  /\ StandOn(IF timer_lst = <<>> THEN NoId ELSE timer_lst[1], a)
  /\ due' = {t \in ToSet(timer_lst) : Expired(t, a)}

\* timer_handler_systick up to the assignment of tick_diff: a last_tick of zero
\* counts as not yet set, and the call returns at once.
HandlerSystick ==
  /\ Systick /\ phase = "idle"
  /\ IF last_tick = 0
     THEN last_tick' = now /\ UNCHANGED <<phase, arg>>
     ELSE /\ now # last_tick /\ timer_id > 1
          /\ arg' = now - last_tick /\ phase' = "diff" /\ UNCHANGED last_tick
  /\ UNCHANGED <<handler, now, list, timer, cursor, left, starting, history>>

\* ... and from the assignment of last_tick, which reads kcb->ticks again: the
\* ticks in between are counted for no timer.
HandlerLast ==
  /\ phase = "diff"
  /\ last_tick' = now
  /\ Walk(arg)
  /\ UNCHANGED <<handler, now, list, timer, starting, since, fires, mixed>>

\* timer_handler up to its list_foreach.
HandlerUptime ==
  /\ ~Systick /\ phase = "idle" /\ timer_id > 1
  /\ Walk(now)
  /\ UNCHANGED <<handler, now, last_tick, list, timer, starting, since, fires, mixed>>

\* timer_update and timer_update_systick read a timer that asks for nothing.
Skip ==
  /\ phase = "node"
  /\ timer[cursor].mode = "DISABLED" \/ (~Systick /\ ~Expired(cursor, arg))
  /\ StandOn(NextNode(cursor), arg)
  /\ UNCHANGED <<handler, now, last_tick, list, timer, starting, history>>

\* The handler takes up a timer whose start may be under way.
TakeUp ==
  /\ mixed' = IF Starting(cursor) THEN mixed \cup {cursor} ELSE mixed
  /\ UNCHANGED <<handler, now, last_tick, list, timer, cursor, arg, starting, since, fires, due>>

\* timer_update_systick counts down, in a register, ...
Count ==
  /\ phase = "node" /\ Systick /\ timer[cursor].mode # "DISABLED"
  /\ phase' = "count"
  /\ left' = IF timer[cursor].countdown <= arg THEN 0 ELSE timer[cursor].countdown - arg
  /\ TakeUp

\* ... stores the countdown and tests it.
CountStore ==
  /\ phase = "count"
  /\ timer' = [timer EXCEPT ![cursor].countdown = left]
  /\ IF left = 0 THEN phase' = "call" /\ UNCHANGED <<cursor, arg, left>>
     ELSE StandOn(NextNode(cursor), arg)
  /\ UNCHANGED <<handler, now, last_tick, list, starting, history>>

\* The test of timer_update.
Due ==
  /\ phase = "node" /\ ~Systick /\ Expired(cursor, arg)
  /\ phase' = "call" /\ UNCHANGED left
  /\ TakeUp

\* timer_cb is called.
Fire ==
  /\ phase = "call" /\ phase' = "callback"
  /\ fires' = [fires EXCEPT ![cursor] = @ + 1]
  /\ due' = due \ {cursor}
  /\ UNCHANGED <<handler, now, last_tick, list, timer, cursor, arg, left, starting, since, mixed>>

\* It returns, and the mode is tested.
Return ==
  /\ phase = "callback"
  /\ phase' = IF timer[cursor].mode = "AUTORELOAD" THEN "reload" ELSE "disable"
  /\ UNCHANGED <<handler, now, last_tick, list, timer, cursor, arg, left, starting, history>>

\* What the handlers store after the callback.
Reload_FromNow(t) ==                                                \* mutant
  IF Systick THEN [t EXCEPT !.countdown = t.time] ELSE [t EXCEPT !.timecmp = now + t.time]
Reload(t) ==
  IF Systick THEN [t EXCEPT !.countdown = t.time] ELSE [t EXCEPT !.timecmp = @ + t.time]

Leave_StopsAfterFiring(t) == NoId                                   \* mutant
Leave(t) == NextNode(t)

Settle ==
  /\ phase \in {"reload", "disable"}
  /\ timer' = [timer EXCEPT ![cursor] =
                 IF phase = "reload" THEN Reload(@) ELSE [@ EXCEPT !.mode = "DISABLED"]]
  /\ StandOn(Leave(cursor), arg)
  /\ UNCHANGED <<handler, now, last_tick, list, starting, history>>

\* Time passes at any moment.
Clock ==
  /\ now < MaxTime
  /\ now' = now + 1
  /\ UNCHANGED <<handler, list, timer, walk, starting, history>>

Next ==
  \/ \E period \in Period : Create(period)
  \/ \E t \in Id : Destroy(t) \/ Cancel(t)
  \/ \E t \in Id, mode \in {"ONESHOT", "AUTORELOAD"} :
       Start(t, mode) \/ \E c \in Client : StartTimes(c, t, mode)
  \/ \E c \in Client : StartMode(c)
  \/ HandlerSystick \/ HandlerLast \/ HandlerUptime
  \/ Skip \/ Count \/ CountStore \/ Due \/ Fire \/ Return \/ Settle
  \/ Clock

Spec == Init /\ [][Next]_vars

-----------------------------------------------------------------------------
\* A start of t and the handler's visit to t overlapped: the start fell between
\* what the handler reads of the timer and what it stores, or the handler took
\* the timer up before the start had stored the mode. Nothing is promised of
\* such a timer until its next start.
Mixed(t) == t \in mixed

\* The n-th firing of a timer comes at least n of its periods after it was
\* started: by the uptime, or, with ticks, after the last tick that had been
\* counted for it by then (a start may be up to one pass younger than that).
NeverEarly ==
  \A t \in Id : Listed(t) /\ ~Mixed(t) => now >= since[t] + fires[t] * timer[t].time

\* The timer's callback runs, or what follows it.
Serving(t) == t = cursor /\ phase \in {"callback", "reload", "disable"}

\* By the uptime, an auto-reload timer does not drift: however late its task
\* runs, the next firing is due a whole number of periods after its start.
KeepsPhase ==
  \A t \in Id :
    ~Systick /\ Listed(t) /\ ~Mixed(t) /\ timer[t].mode = "AUTORELOAD" /\ ~Serving(t) =>
      timer[t].timecmp = since[t] + (fires[t] + 1) * timer[t].time

\* A pass calls back every timer that was due when it began, while callbacks
\* add and remove nodes of the list under the walk and other tasks start and
\* cancel timers, unless the timer was cancelled, restarted or destroyed first;
\* and a single shot fires once.
PassServesAll ==
  /\ cursor = NoId => due = {}
  /\ \A t \in Id :
       Listed(t) /\ ~Mixed(t) /\ timer[t].mode = "ONESHOT" /\ ~Serving(t) => fires[t] = 0
=============================================================================
