---------------------------- MODULE TimerProofs ----------------------------
(***************************************************************************)
(* The software timers keep time, for every number of timers and clients   *)
(* and every period, whatever the callbacks do to the list under the walk  *)
(* and wherever the starts of other tasks fall, but for a start that       *)
(* overlaps the handler's visit to the same timer.                         *)
(***************************************************************************)
EXTENDS Timer, Integers, SequenceTheorems, TLAPS

-------------------------------------------------------------- \* the list
\* list_remove: one element less, the others in their order.
LEMMA RemoveAtElements ==
  ASSUME NEW S, NEW s \in Seq(S), NEW i \in 1..Len(s)
  PROVE  /\ RemoveAt(s, i) \in Seq(S)
         /\ Len(RemoveAt(s, i)) = Len(s) - 1
         /\ \A k \in 1..(Len(s) - 1) :
              RemoveAt(s, i)[k] = IF k < i THEN s[k] ELSE s[k + 1]
<1> DEFINE a == SubSeq(s, 1, i - 1)
           b == SubSeq(s, i + 1, Len(s))
<1>1. a \in Seq(S) /\ Len(a) = i - 1 /\ \A k \in 1..(i - 1) : a[k] = s[k]
  OBVIOUS
<1>2. b \in Seq(S) /\ Len(b) = Len(s) - i /\ \A k \in 1..(Len(s) - i) : b[k] = s[k + i]
  OBVIOUS
<1>3. RemoveAt(s, i) = a \o b
  BY DEF RemoveAt
<1> HIDE DEF a, b
<1>4. /\ a \o b \in Seq(S) /\ Len(a \o b) = Len(a) + Len(b)
      /\ \A k \in 1..Len(a) + Len(b) :
           (a \o b)[k] = IF k <= Len(a) THEN a[k] ELSE b[k - Len(a)]
  BY <1>1, <1>2, ConcatProperties
<1>5. ASSUME NEW k \in 1..(Len(s) - 1)
      PROVE  (a \o b)[k] = IF k < i THEN s[k] ELSE s[k + 1]
  <2>1. CASE k < i
    BY <1>1, <1>2, <1>4, <2>1
  <2>2. CASE k >= i
    <3>1. k - (i - 1) \in 1..(Len(s) - i) /\ (k - (i - 1)) + i = k + 1
      BY <2>2
    <3>2. (a \o b)[k] = b[k - (i - 1)]
      <4>1. k \in 1..Len(a) + Len(b) /\ ~(k <= Len(a)) /\ Len(a) = i - 1
        BY <1>1, <1>2, <2>2
      <4> QED BY <1>4, <4>1
    <3>3. b[k - (i - 1)] = s[k + 1]
      BY <1>2, <3>1
    <3> QED BY <2>2, <3>2, <3>3
  <2>3. k < i \/ k >= i
    OBVIOUS
  <2> QED BY <2>1, <2>2, <2>3
<1> QED BY <1>1, <1>2, <1>3, <1>4, <1>5

\* Timers are in the list in the order they were created.
Ascending(s) == \A i, j \in 1..Len(s) : i < j => s[i] < s[j]

LEMMA RemoveAtSet ==
  ASSUME NEW s \in Seq(Id), Ascending(s), NEW i \in 1..Len(s)
  PROVE  /\ ToSet(RemoveAt(s, i)) = ToSet(s) \ {s[i]}
         /\ Ascending(RemoveAt(s, i))
<1> DEFINE r == RemoveAt(s, i)
<1>1. /\ r \in Seq(Id) /\ Len(r) = Len(s) - 1
      /\ \A k \in 1..Len(r) : r[k] = IF k < i THEN s[k] ELSE s[k + 1]
  BY RemoveAtElements
<1>2. \A k \in 1..Len(s) : s[k] \in Nat
  BY TimerAssumption DEF Id
<1> HIDE DEF r
<1>3. Ascending(r)
  BY <1>1 DEF Ascending
<1>4. \A k \in 1..Len(r) : r[k] \in ToSet(s) \ {s[i]}
  <2> SUFFICES ASSUME NEW k \in 1..Len(r) PROVE r[k] \in ToSet(s) /\ r[k] # s[i]
    OBVIOUS
  <2>1. PICK j \in 1..Len(s) : j # i /\ r[k] = s[j]
    <3>1. CASE k < i
      BY <1>1, <3>1
    <3>2. CASE k >= i
      BY <1>1, <3>2
    <3> QED BY <1>1, <3>1, <3>2
  <2>2. s[j] # s[i]
    BY <1>2, <2>1 DEF Ascending
  <2> QED BY <2>1, <2>2 DEF ToSet
<1>5. ASSUME NEW k \in 1..Len(s), k # i PROVE s[k] \in ToSet(r)
  <2>1. CASE k < i
    BY <1>1, <2>1 DEF ToSet
  <2>2. CASE k > i
    <3>1. k - 1 \in 1..Len(r) /\ r[k - 1] = s[k]
      BY <1>1, <2>2
    <3> QED BY <1>1, <3>1 DEF ToSet
  <2> QED BY <1>5, <2>1, <2>2
<1>6. ToSet(r) = ToSet(s) \ {s[i]}
  BY <1>1, <1>4, <1>5 DEF ToSet
<1> QED BY <1>3, <1>6 DEF r

LEMMA AppendSet ==
  ASSUME NEW s \in Seq(Id), Ascending(s), NEW t \in Id, \A u \in ToSet(s) : u < t
  PROVE  /\ Append(s, t) \in Seq(Id)
         /\ ToSet(Append(s, t)) = ToSet(s) \cup {t}
         /\ Ascending(Append(s, t))
<1>1. /\ Append(s, t) \in Seq(Id) /\ Len(Append(s, t)) = Len(s) + 1
      /\ \A k \in 1..Len(s) : Append(s, t)[k] = s[k]
      /\ Append(s, t)[Len(s) + 1] = t
  OBVIOUS
<1>2. \A k \in 1..Len(s) : s[k] < t
  BY DEF ToSet
<1> QED BY <1>1, <1>2 DEF Ascending, ToSet

\* The walk goes on to the next timer in the order of creation.
LEMMA NextNodeIs ==
  ASSUME timer_lst \in Seq(Id), Ascending(timer_lst), NEW t \in Id, Listed(t)
  PROVE  /\ NextNode(t) # NoId => NextNode(t) \in ToSet(timer_lst) /\ NextNode(t) > t
         /\ \A u \in ToSet(timer_lst) : u > t => NextNode(t) # NoId /\ u >= NextNode(t)
<1>1. Position(t) \in 1..Len(timer_lst) /\ timer_lst[Position(t)] = t
  BY DEF Position, Listed, ToSet
<1> DEFINE p == Position(t)
<1> HIDE DEF p
<1>2. \A k \in 1..Len(timer_lst) : timer_lst[k] \in Nat \ {NoId}
  BY TimerAssumption DEF Id, NoId
<1>3. ASSUME NEW k \in 1..Len(timer_lst), timer_lst[k] > t
      PROVE  p < Len(timer_lst) /\ timer_lst[k] >= timer_lst[p + 1]
  <2>1. k > p
    BY <1>1, <1>2, <1>3 DEF Ascending, p
  <2> QED BY <1>1, <1>2, <2>1 DEF Ascending, p
<1>4. p < Len(timer_lst) => timer_lst[p + 1] > t
  BY <1>1 DEF Ascending, p
<1> QED BY <1>1, <1>2, <1>3, <1>4 DEF NextNode, ToSet, p

\* ... from the first one on.
LEMMA FirstNode ==
  ASSUME timer_lst \in Seq(Id), Ascending(timer_lst)
  PROVE  /\ timer_lst = <<>> => ToSet(timer_lst) = {}
         /\ timer_lst # <<>> => /\ timer_lst[1] \in ToSet(timer_lst)
                                /\ timer_lst[1] # NoId
                                /\ \A u \in ToSet(timer_lst) : u >= timer_lst[1]
<1>1. \A k \in 1..Len(timer_lst) : timer_lst[k] \in Nat \ {NoId}
  BY TimerAssumption DEF Id, NoId
<1> QED BY <1>1 DEF Ascending, ToSet

--------------------------------------------------------- \* the invariant
\* Ids grow, and an id that was never given out has no history.
ListInv ==
  /\ Ascending(timer_lst)
  /\ \A t \in Id : Listed(t) => t < timer_id
  /\ \A t \in Id : t >= timer_id => since[t] = 0 /\ fires[t] = 0

\* What is still due lies ahead of the walk, or under it, and has expired.
WalkInv ==
  /\ cursor = NoId <=> phase \in {"idle", "diff"}
  /\ phase = "idle" => arg = 0
  /\ phase = "diff" => last_tick + arg <= now
  /\ phase \in {"diff", "count"} => Systick
  /\ cursor # NoId /\ Systick => arg <= last_tick
  /\ cursor = NoId => due = {}
  /\ \A t \in due :
       /\ t >= cursor
       /\ t = cursor => phase \in {"node", "count", "call"} /\ (phase = "count" => left = 0)
       /\ t # cursor \/ phase = "node" => Expired(t, arg)

\* A start under way and a visit to its timer have overlapped.
MixInv == \A t \in Id : InVisit(t) /\ Starting(t) => t \in mixed

\* Where the handler is with t: "away" until it has read the timer.
Stage(t) == IF t = cursor /\ phase # "node" THEN phase ELSE "away"

\* When t fired for the last time, at the earliest, and whether it will fire
\* again: a cancelled timer does that is already taken up.
Base(t) == since[t] + fires[t] * timer[t].time
WillFire(t) ==
  /\ ~Serving(t)
  /\ timer[t].mode # "DISABLED" \/ Starting(t) \/ Stage(t) \in {"count", "call"}

\* The fields of t against its history. By the uptime the compare value stands
\* at the next firing; by the ticks the countdown never runs ahead of what has
\* been counted.
UptimeAt(t) ==
  /\ WillFire(t) => timer[t].timecmp = Base(t) + timer[t].time
  /\ Serving(t) => timer[t].timecmp = Base(t)
  /\ Stage(t) = "call" => timer[t].timecmp < arg
TickAt(t) ==
  /\ timer[t].countdown <= timer[t].time
  /\ Base(t) <= last_tick
  /\ WillFire(t) => Base(t) + (timer[t].time - timer[t].countdown) <= CountedFor(t)
  /\ Stage(t) = "count" =>
       left = IF timer[t].countdown <= arg THEN 0 ELSE timer[t].countdown - arg
  /\ Stage(t) = "call" => timer[t].countdown = 0
HistoryAt(t) ==
  /\ timer[t].mode = "ONESHOT" /\ ~Serving(t) => fires[t] = 0
  /\ timer[t].mode = "ONESHOT" => Stage(t) # "reload"
  /\ Starting(t) => fires[t] = 0
  /\ IF Systick THEN TickAt(t) ELSE UptimeAt(t)
  /\ now >= Base(t)

TimerInv ==
  /\ TypeOK /\ ListInv /\ WalkInv /\ MixInv
  /\ \A t \in Id : Listed(t) /\ t \notin mixed => HistoryAt(t)

LEMMA TimerInit == Init => TimerInv
<1> SUFFICES ASSUME Init PROVE TimerInv
  OBVIOUS
<1>1. ToSet(timer_lst) = {} /\ DOMAIN timer = {} /\ timer_lst \in Seq(Id)
  BY DEF Init, ToSet
<1>2. \A t \in Id : ~Listed(t)
  BY <1>1 DEF Listed
<1>3. TypeOK
  <2>1. 1 \in 1..(MaxTimers + 1) /\ 0 \in 0..MaxTime /\ 0 \in 0..0
    BY TimerAssumption
  <2>2. handler \in {"systick", "uptime"} /\ now = 0 /\ last_tick = 0 /\ timer_id = 1
        /\ cursor = NoId /\ phase = "idle" /\ arg = 0 /\ left = 0 /\ due = {} /\ mixed = {}
    BY DEF Init
  <2>3. since \in [Id -> Nat] /\ fires \in [Id -> Nat]
    BY DEF Init
  <2>4. starting \in [Client -> {NoStart} \cup [on : ToSet(timer_lst), mode : Modes \ {"DISABLED"}]]
    BY DEF Init
  <2> QED BY <1>1, <2>1, <2>2, <2>3, <2>4 DEF TypeOK, Phases
<1>4. ListInv /\ WalkInv
  BY <1>2 DEF Init, ListInv, Ascending, WalkInv
<1>5. MixInv
  BY DEF Init, MixInv, InVisit
<1> QED BY <1>2, <1>3, <1>4, <1>5 DEF TimerInv

------------------------------------------------------------ \* the list grows
LEMMA CreateList ==
  ASSUME TypeOK, ListInv, NEW period \in Period, Create(period)
  PROVE  /\ timer_lst' \in Seq(Id) /\ Ascending(timer_lst')
         /\ ToSet(timer_lst') = ToSet(timer_lst) \cup {timer_id}
         /\ timer_id \notin ToSet(timer_lst)
         /\ DOMAIN timer' = ToSet(timer_lst')
         /\ timer'[timer_id] = Created(period)
         /\ \A t \in ToSet(timer_lst) : timer'[t] = timer[t]
<1>1. ToSet(timer_lst) \subseteq Id
  BY DEF TypeOK, ToSet
<1>2. \A u \in ToSet(timer_lst) : u < timer_id
  BY <1>1 DEF ListInv, Listed
<1>3. timer_id \notin ToSet(timer_lst)
  BY <1>2, TimerAssumption DEF Create, Id
<1>4. /\ timer_lst' \in Seq(Id) /\ Ascending(timer_lst')
      /\ ToSet(timer_lst') = ToSet(timer_lst) \cup {timer_id}
  <2>1. timer_lst \in Seq(Id) /\ Ascending(timer_lst) /\ timer_id \in Id
        /\ timer_lst' = Append(timer_lst, timer_id)
    BY DEF TypeOK, ListInv, Create
  <2> QED BY <1>2, <2>1, AppendSet
<1>5. timer' = [t \in DOMAIN timer \cup {timer_id} |->
                   IF t = timer_id THEN Created(period) ELSE timer[t]]
      /\ DOMAIN timer = ToSet(timer_lst)
  BY DEF Create, TypeOK
<1> QED BY <1>3, <1>4, <1>5

LEMMA DestroyList ==
  ASSUME TypeOK, ListInv, NEW t \in Id, Destroy(t)
  PROVE  /\ timer_lst' \in Seq(Id) /\ Ascending(timer_lst')
         /\ ToSet(timer_lst') = ToSet(timer_lst) \ {t}
         /\ DOMAIN timer' = ToSet(timer_lst')
         /\ \A u \in ToSet(timer_lst') : timer'[u] = timer[u]
<1>1. Position(t) \in 1..Len(timer_lst) /\ timer_lst[Position(t)] = t
  <2>1. \E i \in 1..Len(timer_lst) : timer_lst[i] = t
    BY DEF Destroy, Listed, ToSet, TypeOK
  <2> QED BY <2>1 DEF Position
<1>2. /\ timer_lst' \in Seq(Id) /\ Ascending(timer_lst')
      /\ ToSet(timer_lst') = ToSet(timer_lst) \ {t}
  <2>1. /\ timer_lst \in Seq(Id) /\ Ascending(timer_lst)
        /\ timer_lst' = RemoveAt(timer_lst, Position(t))
    BY DEF TypeOK, ListInv, Destroy
  <2> QED BY <1>1, <2>1, RemoveAtElements, RemoveAtSet
<1>3. timer' = Restrict(timer, DOMAIN timer \ {t}) /\ DOMAIN timer = ToSet(timer_lst)
  BY DEF Destroy, TypeOK
<1> QED BY <1>2, <1>3 DEF Restrict

---------------------------------------------------------------- \* the types
LEMMA NowGrows ==
  TypeOK => /\ now \in Nat /\ last_tick \in Nat /\ arg \in Nat /\ last_tick <= now /\ arg <= now
            /\ now \in 0..MaxTime /\ MaxTime \in Nat
<1> SUFFICES ASSUME TypeOK
             PROVE  /\ now \in Nat /\ last_tick \in Nat /\ arg \in Nat
                    /\ last_tick <= now /\ arg <= now
                    /\ now \in 0..MaxTime /\ MaxTime \in Nat
  OBVIOUS
<1>1. now \in 0..MaxTime /\ last_tick \in 0..now /\ arg \in 0..now /\ MaxTime \in Nat
  BY TimerAssumption DEF TypeOK
<1> QED BY <1>1

\* Every node of the list has a timer of its fields.
LEMMA ListedFields ==
  ASSUME TypeOK, NEW t, Listed(t)
  PROVE  /\ t \in Id /\ t \in Nat /\ t # NoId /\ t \in DOMAIN timer /\ timer[t] \in Fields
         /\ timer[t].time \in Nat \ {0} /\ timer[t].countdown \in Nat
         /\ timer[t].timecmp \in Nat /\ timer[t].mode \in Modes
         /\ since[t] \in Nat /\ fires[t] \in Nat
<1>1. t \in ToSet(timer_lst) /\ timer_lst \in Seq(Id)
  BY DEF TypeOK, Listed
<1>2. t \in Id
  BY <1>1 DEF ToSet
<1>3. t \in Nat /\ t # NoId
  BY <1>2, TimerAssumption DEF Id, NoId
<1>4. t \in DOMAIN timer /\ timer[t] \in Fields
  BY <1>1 DEF TypeOK
<1>5. since[t] \in Nat /\ fires[t] \in Nat
  BY <1>2 DEF TypeOK
<1> QED BY <1>2, <1>3, <1>4, <1>5 DEF Fields

\* ucx_timer_start, a handler's countdown and what it does after the callback.

\* The stores of ucx_timer_start, of ucx_timer_cancel and of the handlers.
LEMMA FieldsAre ==
  ASSUME NEW f \in Fields
  PROVE  /\ f = [time |-> f.time, countdown |-> f.countdown, timecmp |-> f.timecmp, mode |-> f.mode]
         /\ f.time \in Nat \ {0} /\ f.countdown \in Nat /\ f.timecmp \in Nat /\ f.mode \in Modes
BY DEF Fields

LEMMA ModeFields ==
  ASSUME NEW f \in Fields, NEW m \in Modes
  PROVE  /\ [f EXCEPT !.mode = m] \in Fields
         /\ [f EXCEPT !.mode = m].time = f.time
         /\ [f EXCEPT !.mode = m].countdown = f.countdown
         /\ [f EXCEPT !.mode = m].timecmp = f.timecmp
         /\ [f EXCEPT !.mode = m].mode = m
BY DEF Fields

LEMMA CountdownFields ==
  ASSUME NEW f \in Fields, NEW c \in Nat
  PROVE  /\ [f EXCEPT !.countdown = c] \in Fields
         /\ [f EXCEPT !.countdown = c].time = f.time
         /\ [f EXCEPT !.countdown = c].countdown = c
         /\ [f EXCEPT !.countdown = c].timecmp = f.timecmp
         /\ [f EXCEPT !.countdown = c].mode = f.mode
BY DEF Fields

LEMMA ArmedFields ==
  ASSUME NEW f \in Fields, NEW uptime \in Nat
  PROVE  /\ Armed(f, uptime) \in Fields
         /\ Armed(f, uptime).time = f.time /\ Armed(f, uptime).countdown = f.time
         /\ Armed(f, uptime).timecmp = uptime + f.time /\ Armed(f, uptime).mode = f.mode
<1>1. PICK c \in Nat : c = uptime + f.time
  BY FieldsAre
<1>2. Armed(f, uptime) = [f EXCEPT !.countdown = f.time, !.timecmp = c]
  BY <1>1 DEF Armed
<1>3. Armed(f, uptime) = [time |-> f.time, countdown |-> f.time, timecmp |-> c, mode |-> f.mode]
  BY <1>2, FieldsAre
<1> QED BY <1>1, <1>3, FieldsAre DEF Fields

LEMMA ReloadFields ==
  ASSUME NEW f \in Fields
  PROVE  /\ Reload(f) \in Fields /\ Reload(f).time = f.time /\ Reload(f).mode = f.mode
         /\ Reload(f).countdown = IF Systick THEN f.time ELSE f.countdown
         /\ Reload(f).timecmp = IF Systick THEN f.timecmp ELSE f.timecmp + f.time
<1>1. CASE Systick
  <2>1. Reload(f) = [time |-> f.time, countdown |-> f.time, timecmp |-> f.timecmp, mode |-> f.mode]
    BY <1>1, FieldsAre DEF Reload
  <2> QED BY <1>1, <2>1, FieldsAre DEF Fields
<1>2. CASE ~Systick
  <2>1. PICK c \in Nat : c = f.timecmp + f.time
    BY FieldsAre
  <2>2. Reload(f) = [time |-> f.time, countdown |-> f.countdown, timecmp |-> c, mode |-> f.mode]
    BY <1>2, <2>1, FieldsAre DEF Reload
  <2> QED BY <1>2, <2>1, <2>2, FieldsAre DEF Fields
<1> QED BY <1>1, <1>2

\* What an assignment to one timer leaves well-typed.
LEMMA TimerUpdate ==
  ASSUME TypeOK, NEW t, Listed(t), NEW f \in Fields, timer' = [timer EXCEPT ![t] = f],
         UNCHANGED timer_lst
  PROVE  /\ DOMAIN timer' = ToSet(timer_lst')
         /\ \A u \in DOMAIN timer' : timer'[u] \in Fields
         /\ timer'[t] = f
         /\ \A u \in DOMAIN timer : u # t => timer'[u] = timer[u]
<1>1. DOMAIN timer' = DOMAIN timer /\ DOMAIN timer = ToSet(timer_lst)
  BY DEF TypeOK
<1>2. timer'[t] = f /\ \A u \in DOMAIN timer : u # t => timer'[u] = timer[u]
  BY <1>1 DEF Listed
<1>3. \A u \in DOMAIN timer : timer[u] \in Fields
  BY DEF TypeOK
<1> QED BY <1>1, <1>2, <1>3

LEMMA StandOnType ==
  ASSUME TypeOK, NEW t, t = NoId \/ Listed(t), NEW a \in 0..now', StandOn(t, a),
         UNCHANGED <<timer_lst>>, now' \in Nat
  PROVE  /\ cursor' \in ToSet(timer_lst') \cup {NoId}
         /\ phase' \in Phases /\ arg' \in 0..now' /\ left' \in Nat
<1>1. 0 \in 0..now'
  OBVIOUS
<1>2. /\ cursor' = t /\ left' = 0 /\ phase' \in {"idle", "node"}
      /\ arg' = 0 \/ arg' = a
  BY DEF StandOn
<1> QED BY <1>1, <1>2 DEF Listed, Phases

LEMMA NextNodeListed ==
  TypeOK /\ ListInv /\ cursor # NoId =>
    /\ Listed(cursor)
    /\ NextNode(cursor) = NoId \/ Listed(NextNode(cursor))
<1> SUFFICES ASSUME TypeOK, ListInv, cursor # NoId
             PROVE  /\ Listed(cursor)
                    /\ NextNode(cursor) = NoId \/ Listed(NextNode(cursor))
  OBVIOUS
<1>1. Listed(cursor)
  BY DEF TypeOK, Listed
<1>2. cursor \in Id
  BY <1>1, ListedFields
<1> QED BY <1>1, <1>2, NextNodeIs DEF TypeOK, ListInv, Listed

\* A walk begins.
LEMMA WalkType ==
  ASSUME TypeOK, ListInv, NEW a \in 0..now', Walk(a), UNCHANGED timer_lst, now' \in Nat
  PROVE  /\ cursor' \in ToSet(timer_lst') \cup {NoId}
         /\ phase' \in Phases /\ arg' \in 0..now' /\ left' \in Nat
         /\ due' \subseteq ToSet(timer_lst')
<1> DEFINE t == IF timer_lst = <<>> THEN NoId ELSE timer_lst[1]
<1>1. timer_lst # <<>> => timer_lst[1] \in ToSet(timer_lst)
  BY FirstNode DEF TypeOK, ListInv
<1>2. t = NoId \/ Listed(t)
  BY <1>1 DEF Listed
<1>3. StandOn(t, a) /\ due' \subseteq ToSet(timer_lst)
  BY DEF Walk
<1> HIDE DEF t
<1> QED BY <1>2, <1>3, StandOnType

\* A start under way is about a timer of the list.
LEMMA StartingIs ==
  ASSUME TypeOK, NEW c \in Client, starting[c] # NoStart
  PROVE  /\ Listed(starting[c].on) /\ starting[c].on \in Id
         /\ starting[c].mode \in {"ONESHOT", "AUTORELOAD"}
         /\ Starting(starting[c].on)
<1>1. starting[c] \in [on : ToSet(timer_lst), mode : Modes \ {"DISABLED"}]
  BY DEF TypeOK
<1>2. Listed(starting[c].on)
  BY <1>1 DEF Listed
<1>3. starting[c].on \in Id
  BY <1>2, ListedFields
<1>4. starting[c].mode \in {"ONESHOT", "AUTORELOAD"}
  BY <1>1 DEF Modes
<1> QED BY <1>2, <1>3, <1>4 DEF Starting

\* The uptime a start has read.
LEMMA StartTimesIs ==
  ASSUME now \in Nat, NEW c, NEW t, NEW mode, StartTimes(c, t, mode)
  PROVE  \E uptime \in Nat : /\ uptime <= now /\ (Systick => uptime = now)
                             /\ timer' = [timer EXCEPT ![t] = Armed(timer[t], uptime)]
                             /\ Restarted(t, uptime)
<1>1. PICK uptime \in (IF Systick THEN {now} ELSE 0..now) :
        timer' = [timer EXCEPT ![t] = Armed(@, uptime)] /\ Restarted(t, uptime)
  BY DEF StartTimes
<1>2. uptime \in Nat /\ uptime <= now /\ (Systick => uptime = now)
  OBVIOUS
<1> QED BY <1>1, <1>2

LEMMA TypeStep == TypeOK /\ ListInv /\ WalkInv /\ [Next]_vars => TypeOK'
<1> SUFFICES ASSUME TypeOK, ListInv, WalkInv, [Next]_vars PROVE TypeOK'
  OBVIOUS
<1> DEFINE Starts == {NoStart} \cup [on : ToSet(timer_lst), mode : Modes \ {"DISABLED"}]
           Stands == /\ cursor' \in ToSet(timer_lst') \cup {NoId} /\ phase' \in Phases
                     /\ arg' \in 0..now' /\ left' \in Nat
           Timers == DOMAIN timer' = ToSet(timer_lst') /\ \A t \in DOMAIN timer' : timer'[t] \in Fields
<1>1. /\ handler \in {"systick", "uptime"} /\ timer_lst \in Seq(Id)
      /\ timer_id \in 1..(MaxTimers + 1)
      /\ DOMAIN timer = ToSet(timer_lst) /\ \A t \in DOMAIN timer : timer[t] \in Fields
      /\ cursor \in ToSet(timer_lst) \cup {NoId} /\ phase \in Phases /\ arg \in 0..now
      /\ left \in Nat /\ starting \in [Client -> Starts]
      /\ since \in [Id -> Nat] /\ fires \in [Id -> Nat] /\ due \subseteq ToSet(timer_lst)
      /\ mixed \subseteq Id /\ last_tick \in 0..now /\ now \in 0..MaxTime
  BY DEF TypeOK
<1>2. now \in Nat /\ MaxTime \in Nat /\ MaxTimers \in Nat /\ last_tick <= now
  BY NowGrows, TimerAssumption
<1>3. ASSUME NEW period \in Period, Create(period) PROVE TypeOK'
  <2>1. /\ timer_lst' \in Seq(Id) /\ DOMAIN timer' = ToSet(timer_lst')
        /\ ToSet(timer_lst') = ToSet(timer_lst) \cup {timer_id}
        /\ timer'[timer_id] = Created(period)
        /\ \A t \in ToSet(timer_lst) : timer'[t] = timer[t]
    BY <1>3, CreateList
  <2>2. period \in Nat \ {0}
    BY TimerAssumption
  <2>3. Created(period) \in Fields
    BY <2>2 DEF Created, Fields, Modes
  <2>4. \A t \in DOMAIN timer' : timer'[t] \in Fields
    BY <1>1, <2>1, <2>3
  <2>5. timer_id' \in 1..(MaxTimers + 1)
    BY <1>2, <1>3 DEF Create, Id
  <2>6. UNCHANGED <<handler, now, cursor, phase, arg, left, last_tick, starting, since, fires,
                    due, mixed>>
    BY <1>3 DEF Create, walk, history
  <2>7. starting' \in [Client -> {NoStart} \cup [on : ToSet(timer_lst'), mode : Modes \ {"DISABLED"}]]
    BY <1>1, <2>1, <2>6
  <2> QED BY <1>1, <2>1, <2>4, <2>5, <2>6, <2>7 DEF TypeOK
<1>4. ASSUME NEW t \in Id, Destroy(t) PROVE TypeOK'
  <2>1. /\ timer_lst' \in Seq(Id) /\ DOMAIN timer' = ToSet(timer_lst')
        /\ ToSet(timer_lst') = ToSet(timer_lst) \ {t}
        /\ \A u \in ToSet(timer_lst') : timer'[u] = timer[u]
    BY <1>4, DestroyList
  <2>2. UNCHANGED <<handler, now, timer_id, cursor, phase, arg, left, last_tick, starting>>
    BY <1>4 DEF Destroy, walk
  <2>3. /\ since' \in [Id -> Nat] /\ fires' \in [Id -> Nat]
        /\ due' = due \ {t} /\ t # cursor /\ mixed' = mixed \ {t}
    BY <1>1, <1>4 DEF Destroy
  <2>4. \A u \in DOMAIN timer' : timer'[u] \in Fields
    BY <1>1, <2>1
  <2>5. cursor' \in ToSet(timer_lst') \cup {NoId} /\ due' \subseteq ToSet(timer_lst')
    BY <1>1, <2>1, <2>2, <2>3
  <2>6. starting' \in [Client -> {NoStart} \cup [on : ToSet(timer_lst'), mode : Modes \ {"DISABLED"}]]
    <3>1. \A c \in Client : starting[c].on # t
      BY <1>4 DEF Destroy, Starting
    <3> QED BY <1>1, <2>1, <2>2, <3>1
  <2> QED BY <1>1, <2>1, <2>2, <2>3, <2>4, <2>5, <2>6 DEF TypeOK
\* A call that changes one timer of the list.
<1>5. ASSUME NEW t \in Id, Listed(t), NEW f \in Fields, timer' = [timer EXCEPT ![t] = f],
             UNCHANGED timer_lst
      PROVE  Timers
  BY <1>5, TimerUpdate
<1>6. ASSUME Timers, starting' \in [Client -> Starts],
             since' \in [Id -> Nat], fires' \in [Id -> Nat], due' \subseteq due, mixed' \subseteq Id,
             UNCHANGED <<handler, now, timer_lst, timer_id, cursor, phase, arg, left, last_tick>>
      PROVE  TypeOK'
  BY <1>1, <1>6 DEF TypeOK
<1>7. ASSUME NEW t \in Id, NEW uptime \in Nat, Restarted(t, uptime)
      PROVE  /\ since' \in [Id -> Nat] /\ fires' \in [Id -> Nat] /\ due' \subseteq due
             /\ mixed' \subseteq Id
  <2>1. Systick => CountedFor(t) \in Nat
    BY NowGrows DEF CountedFor, WalkInv
  <2> QED BY <1>1, <1>7, <2>1 DEF Restarted
<1>8. ASSUME NEW t \in Id, NEW mode \in {"ONESHOT", "AUTORELOAD"}, Start(t, mode)
      PROVE  TypeOK'
  <2>1. Listed(t) /\ Armed(timer[t], now) \in Fields
    BY <1>2, <1>8, ListedFields, ArmedFields DEF Start
  <2>2. [Armed(timer[t], now) EXCEPT !.mode = mode] \in Fields
    BY <2>1, ModeFields DEF Modes
  <2>3. Timers
    BY <1>5, <1>8, <2>1, <2>2 DEF Start, list
  <2> QED BY <1>1, <1>2, <1>6, <1>7, <1>8, <2>3 DEF Start, list, walk
<1>9. ASSUME NEW c \in Client, NEW t \in Id, NEW mode \in {"ONESHOT", "AUTORELOAD"},
             StartTimes(c, t, mode)
      PROVE  TypeOK'
  <2>1. PICK uptime \in Nat :
          timer' = [timer EXCEPT ![t] = Armed(timer[t], uptime)] /\ Restarted(t, uptime)
    BY <1>2, <1>9, StartTimesIs
  <2>2. Listed(t) /\ Armed(timer[t], uptime) \in Fields
    BY <1>9, ListedFields, ArmedFields DEF StartTimes
  <2>3. Timers
    BY <1>5, <1>9, <2>1, <2>2 DEF StartTimes, list
  <2>4. starting' \in [Client -> Starts]
    BY <1>1, <1>9, <2>2 DEF StartTimes, Listed, Modes
  <2> QED BY <1>6, <1>7, <1>9, <2>1, <2>3, <2>4 DEF StartTimes, list, walk
<1>10. ASSUME NEW c \in Client, StartMode(c) PROVE TypeOK'
  <2>1. /\ Listed(starting[c].on) /\ starting[c].on \in Id /\ starting[c].mode \in Modes
    BY <1>10, StartingIs DEF StartMode, Modes
  <2>2. [timer[starting[c].on] EXCEPT !.mode = starting[c].mode] \in Fields
    BY <2>1, ListedFields, ModeFields
  <2>3. timer' = [timer EXCEPT ![starting[c].on] =
                    [timer[starting[c].on] EXCEPT !.mode = starting[c].mode]]
    BY <1>10 DEF StartMode
  <2>4. Timers
    BY <1>5, <1>10, <2>1, <2>2, <2>3 DEF StartMode, list
  <2>5. starting' \in [Client -> Starts]
    BY <1>1, <1>10 DEF StartMode
  <2> QED BY <1>1, <1>6, <1>10, <2>4, <2>5 DEF StartMode, list, walk, history
<1>11. ASSUME NEW t \in Id, Cancel(t) PROVE TypeOK'
  <2>1. Listed(t) /\ [timer[t] EXCEPT !.mode = "DISABLED"] \in Fields
    BY <1>11, ListedFields, ModeFields DEF Cancel, Modes
  <2>2. timer' = [timer EXCEPT ![t] = [timer[t] EXCEPT !.mode = "DISABLED"]]
    BY <1>11 DEF Cancel
  <2>3. Timers
    BY <1>5, <1>11, <2>1, <2>2 DEF Cancel, list
  <2> QED BY <1>1, <1>6, <1>11, <2>3 DEF Cancel, list, walk
\* The handlers move the walk, and change the timer under it at most.
<1>12. ASSUME Timers, Stands, fires' \in [Id -> Nat], due' \subseteq ToSet(timer_lst),
              mixed' \subseteq Id, last_tick' \in 0..now',
              UNCHANGED <<handler, now, timer_lst, timer_id, starting, since>>
       PROVE  TypeOK'
  BY <1>1, <1>12 DEF TypeOK
<1>13. ASSUME UNCHANGED <<timer, timer_lst>> PROVE Timers
  BY <1>1, <1>13
<1>14. ASSUME cursor # NoId PROVE Listed(cursor) /\ cursor \in Id /\ timer[cursor] \in Fields
  BY <1>14, NextNodeListed, ListedFields
<1>15. ASSUME cursor # NoId, StandOn(NextNode(cursor), arg), UNCHANGED <<timer_lst, now>>
       PROVE  Stands
  BY <1>1, <1>2, <1>15, NextNodeListed, StandOnType
<1>16. CASE HandlerSystick
  <2>1. CASE last_tick = 0
    BY <1>1, <1>2, <1>12, <1>13, <1>16, <2>1 DEF HandlerSystick, list, history
  <2>2. CASE last_tick # 0
    <3>1. /\ now - last_tick \in 0..now /\ phase' = "diff" /\ arg' = now - last_tick
          /\ last_tick' = last_tick
      BY <1>1, <1>2, <1>16, <2>2 DEF HandlerSystick
    <3>2. "diff" \in Phases
      BY DEF Phases
    <3> QED BY <1>1, <1>12, <1>13, <1>16, <3>1, <3>2 DEF HandlerSystick, list, history
  <2> QED BY <2>1, <2>2
<1>17. CASE HandlerLast
  <2>1. /\ UNCHANGED <<handler, now, timer_lst, timer_id, timer, starting, since, fires, mixed>>
        /\ last_tick' = now /\ Walk(arg)
    BY <1>17 DEF HandlerLast, list
  <2>2. Stands /\ due' \subseteq ToSet(timer_lst)
    BY <1>1, <1>2, <2>1, WalkType
  <2> QED BY <1>1, <1>2, <1>12, <1>13, <2>1, <2>2
<1>18. CASE HandlerUptime
  <2>1. /\ UNCHANGED <<handler, now, timer_lst, timer_id, timer, starting, since, fires, mixed,
                       last_tick>>
        /\ Walk(now)
    BY <1>18 DEF HandlerUptime, list
  <2>2. Stands /\ due' \subseteq ToSet(timer_lst)
    BY <1>1, <1>2, <2>1, WalkType
  <2> QED BY <1>1, <1>2, <1>12, <1>13, <2>1, <2>2
<1>19. CASE Skip
  <2>1. /\ UNCHANGED <<handler, now, timer_lst, timer_id, timer, starting, since, fires, mixed,
                       last_tick, due>>
        /\ StandOn(NextNode(cursor), arg) /\ phase = "node"
    BY <1>19 DEF Skip, list, history
  <2>2. Stands
    BY <1>15, <2>1 DEF WalkInv
  <2> QED BY <1>1, <1>12, <1>13, <2>1, <2>2
<1>20. CASE Count \/ Due
  <2>1. /\ UNCHANGED <<handler, now, timer_lst, timer_id, timer, starting, since, fires,
                       last_tick, due, cursor, arg>>
        /\ phase' \in Phases
        /\ mixed' = IF Starting(cursor) THEN mixed \cup {cursor} ELSE mixed
        /\ phase = "node"
    BY <1>20 DEF Count, Due, TakeUp, list, Phases
  <2>2. cursor \in Id /\ timer[cursor].countdown \in Nat
    BY <1>14, <2>1, FieldsAre DEF WalkInv
  <2>3. left' \in Nat
    <3>1. CASE Count
      <4>1. arg \in Nat /\ left' = IF timer[cursor].countdown <= arg THEN 0
                                  ELSE timer[cursor].countdown - arg
        BY <3>1, NowGrows DEF Count
      <4> QED BY <2>2, <4>1
    <3>2. CASE Due
      BY <1>1, <3>2 DEF Due
    <3> QED BY <1>20, <3>1, <3>2
  <2> QED BY <1>1, <1>12, <1>13, <2>1, <2>2, <2>3
<1>21. CASE CountStore
  <2>1. /\ UNCHANGED <<handler, now, timer_lst, timer_id, starting, since, fires,
                       last_tick, due, mixed>>
        /\ timer' = [timer EXCEPT ![cursor] = [timer[cursor] EXCEPT !.countdown = left]]
        /\ phase = "count"
    BY <1>21 DEF CountStore, list, history
  <2>2. cursor # NoId
    BY <2>1 DEF WalkInv
  <2>3. Timers
    BY <1>1, <1>5, <1>14, <2>1, <2>2, CountdownFields
  <2>4. Stands
    <3>1. CASE left = 0
      BY <1>1, <1>21, <2>1, <3>1 DEF CountStore, Phases
    <3>2. CASE left # 0
      BY <1>15, <1>21, <2>1, <2>2, <3>2 DEF CountStore
    <3> QED BY <3>1, <3>2
  <2> QED BY <1>1, <1>12, <2>1, <2>3, <2>4
<1>22. CASE Fire \/ Return
  <2>1. /\ UNCHANGED <<handler, now, timer_lst, timer_id, timer, starting, since,
                       last_tick, mixed, cursor, arg, left>>
        /\ phase' \in Phases /\ due' \subseteq due
    BY <1>22 DEF Fire, Return, list, history, Phases
  <2>2. fires' \in [Id -> Nat]
    <3>1. CASE Fire
      <4>1. phase = "call" /\ fires' = [fires EXCEPT ![cursor] = @ + 1]
        BY <3>1 DEF Fire
      <4>2. cursor \in Id
        BY <1>14, <4>1 DEF WalkInv
      <4> QED BY <1>1, <4>1, <4>2
    <3>2. CASE Return
      BY <1>1, <3>2 DEF Return, history
    <3> QED BY <1>22, <3>1, <3>2
  <2> QED BY <1>1, <1>12, <1>13, <2>1, <2>2
<1>23. CASE Settle
  <2>1. /\ UNCHANGED <<handler, now, timer_lst, timer_id, starting, since, fires,
                       last_tick, due, mixed>>
        /\ StandOn(NextNode(cursor), arg) /\ phase \in {"reload", "disable"}
    BY <1>23 DEF Settle, list, history, Leave
  <2>2. cursor # NoId
    BY <2>1 DEF WalkInv
  <2>3. Timers
    <3>1. CASE phase = "reload"
      <4>1. timer' = [timer EXCEPT ![cursor] = Reload(timer[cursor])]
        BY <1>23, <3>1 DEF Settle
      <4> QED BY <1>5, <1>14, <2>1, <2>2, <4>1, ReloadFields
    <3>2. CASE phase = "disable"
      <4>1. timer' = [timer EXCEPT ![cursor] = [timer[cursor] EXCEPT !.mode = "DISABLED"]]
        BY <1>23, <3>2 DEF Settle
      <4>2. "DISABLED" \in Modes
        BY DEF Modes
      <4> QED BY <1>5, <1>14, <2>1, <2>2, <4>1, <4>2, ModeFields
    <3> QED BY <2>1, <3>1, <3>2
  <2>4. Stands
    BY <1>15, <2>1, <2>2
  <2> QED BY <1>1, <1>12, <2>1, <2>3, <2>4
<1>24. CASE Clock
  <2>1. /\ UNCHANGED <<handler, timer_lst, timer_id, timer, cursor, phase, arg, left, last_tick,
                      starting, since, fires, due, mixed>>
        /\ now < MaxTime /\ now' = now + 1
    BY <1>24 DEF Clock, list, walk, history
  <2>2. now' \in 0..MaxTime /\ last_tick \in 0..now' /\ arg \in 0..now'
    BY <1>1, <1>2, <2>1
  <2> QED BY <1>1, <2>1, <2>2 DEF TypeOK
<1>25. CASE UNCHANGED vars
  BY <1>1, <1>25 DEF TypeOK, vars
<1> QED
  BY <1>3, <1>4, <1>8, <1>9, <1>10, <1>11, <1>16, <1>17, <1>18, <1>19, <1>20, <1>21, <1>22,
     <1>23, <1>24, <1>25 DEF Next

----------------------------------------------------------------- \* the list
LEMMA ListStep == TypeOK /\ ListInv /\ WalkInv /\ [Next]_vars => ListInv'
<1> SUFFICES ASSUME TypeOK, ListInv, WalkInv, [Next]_vars PROVE ListInv'
  OBVIOUS
<1>1. timer_id \in Nat /\ since \in [Id -> Nat] /\ fires \in [Id -> Nat] /\ Id \subseteq Nat
  BY TimerAssumption DEF TypeOK, Id
<1>2. /\ Ascending(timer_lst)
      /\ \A t \in Id : Listed(t) => t < timer_id
      /\ \A t \in Id : t >= timer_id => since[t] = 0 /\ fires[t] = 0
  BY DEF ListInv
<1>3. ASSUME NEW period \in Period, Create(period) PROVE ListInv'
  <2>1. Ascending(timer_lst') /\ ToSet(timer_lst') = ToSet(timer_lst) \cup {timer_id}
    BY <1>3, CreateList
  <2>2. timer_id' = timer_id + 1 /\ UNCHANGED <<since, fires>>
    BY <1>3 DEF Create, history
  <2>3. \A t \in Id : Listed(t)' => t < timer_id'
    BY <1>1, <1>2, <2>1, <2>2 DEF Listed
  <2>4. \A t \in Id : t >= timer_id' => since'[t] = 0 /\ fires'[t] = 0
    BY <1>1, <1>2, <2>2
  <2> QED BY <2>1, <2>3, <2>4 DEF ListInv
<1>4. ASSUME NEW t \in Id, Destroy(t) PROVE ListInv'
  <2>1. Ascending(timer_lst') /\ ToSet(timer_lst') = ToSet(timer_lst) \ {t}
    BY <1>4, DestroyList
  <2>2. /\ UNCHANGED timer_id
        /\ since' = [since EXCEPT ![t] = 0] /\ fires' = [fires EXCEPT ![t] = 0]
    BY <1>4 DEF Destroy
  <2>3. \A u \in Id : Listed(u)' => u < timer_id'
    BY <1>2, <2>1, <2>2 DEF Listed
  <2>4. \A u \in Id : u >= timer_id' => since'[u] = 0 /\ fires'[u] = 0
    BY <1>1, <1>2, <2>2
  <2> QED BY <2>1, <2>3, <2>4 DEF ListInv
<1>5. ASSUME UNCHANGED <<timer_lst, timer_id>>, NEW t \in Id, Listed(t),
             \A u \in Id : u # t => since'[u] = since[u] /\ fires'[u] = fires[u]
      PROVE  ListInv'
  <2>1. ~(t >= timer_id)
    BY <1>1, <1>2, <1>5
  <2> QED BY <1>2, <1>5, <2>1 DEF ListInv, Listed
<1>6. CASE UNCHANGED <<timer_lst, timer_id, since, fires>>
  BY <1>2, <1>6 DEF ListInv, Listed
<1>7. ASSUME NEW t \in Id, NEW uptime, Restarted(t, uptime)
      PROVE  \A u \in Id : u # t => since'[u] = since[u] /\ fires'[u] = fires[u]
  BY <1>1, <1>7 DEF Restarted
<1>8. ASSUME NEW t \in Id, NEW mode \in {"ONESHOT", "AUTORELOAD"}, Start(t, mode)
      PROVE  ListInv'
  BY <1>5, <1>7, <1>8 DEF Start, list
<1>9. ASSUME NEW c \in Client, NEW t \in Id, NEW mode \in {"ONESHOT", "AUTORELOAD"},
             StartTimes(c, t, mode)
      PROVE  ListInv'
  <2>1. \E uptime \in Nat : Restarted(t, uptime)
    BY <1>9, NowGrows, StartTimesIs
  <2> QED BY <1>5, <1>7, <1>9, <2>1 DEF StartTimes, list
<1>10. CASE Fire
  <2>1. Listed(cursor) /\ cursor \in Id
    BY <1>10, NextNodeListed, ListedFields DEF Fire, WalkInv
  <2>2. \A u \in Id : u # cursor => since'[u] = since[u] /\ fires'[u] = fires[u]
    BY <1>1, <1>10 DEF Fire
  <2> QED BY <1>5, <1>10, <2>1, <2>2 DEF Fire, list
<1>11. CASE \/ \E t \in Id : Cancel(t)
            \/ \E c \in Client : StartMode(c)
            \/ HandlerSystick \/ HandlerLast \/ HandlerUptime
            \/ Skip \/ Count \/ CountStore \/ Due \/ Return \/ Settle \/ Clock \/ UNCHANGED vars
  BY <1>6, <1>11
     DEF Cancel, StartMode, HandlerSystick, HandlerLast, HandlerUptime, Skip, Count, CountStore,
         Due, TakeUp, Return, Settle, Clock, list, history, vars
<1> QED BY <1>3, <1>4, <1>8, <1>9, <1>10, <1>11 DEF Next

----------------------------------------------------------------- \* the walk
\* The walk leaves a timer that is not due any more.
LEMMA WalkGoesOn ==
  ASSUME TypeOK, ListInv, WalkInv, cursor # NoId, cursor \notin due,
         StandOn(NextNode(cursor), arg), UNCHANGED <<handler, last_tick, due>>,
         \A t \in due : timer'[t] = timer[t]
  PROVE  WalkInv'
<1>1. Listed(cursor) /\ cursor \in Id /\ cursor \in Nat /\ timer_lst \in Seq(Id)
      /\ Ascending(timer_lst) /\ arg \in Nat
  BY NextNodeListed, ListedFields, NowGrows DEF TypeOK, ListInv
<1>2. /\ cursor' # NoId => cursor' > cursor
      /\ \A t \in ToSet(timer_lst) : t > cursor => cursor' # NoId /\ t >= cursor'
  BY <1>1, NextNodeIs DEF StandOn
<1>3. phase' = (IF cursor' = NoId THEN "idle" ELSE "node")
      /\ arg' = IF cursor' = NoId THEN 0 ELSE arg
  BY DEF StandOn
<1>4. ASSUME NEW t \in due PROVE cursor' # NoId /\ t >= cursor' /\ Expired(t, arg)
  <2>1. t >= cursor /\ t # cursor /\ Expired(t, arg) /\ t \in ToSet(timer_lst)
    BY DEF WalkInv, TypeOK
  <2>2. t \in Nat
    BY <2>1, ListedFields DEF Listed
  <2> QED BY <1>1, <1>2, <2>1, <2>2
<1>5. \A t \in due : Expired(t, arg)'
  BY <1>3, <1>4 DEF Expired, Systick
<1>6. cursor' = NoId => due' = {} /\ arg' = 0
  BY <1>3, <1>4
<1>7. cursor' # NoId /\ Systick' => arg' <= last_tick'
  BY <1>1, <1>3, NowGrows DEF WalkInv, Systick
<1> QED BY <1>3, <1>4, <1>5, <1>6, <1>7 DEF WalkInv

LEMMA WalkStep == TypeOK /\ ListInv /\ WalkInv /\ [Next]_vars => WalkInv'
<1> SUFFICES ASSUME TypeOK, ListInv, WalkInv, [Next]_vars PROVE WalkInv'
  OBVIOUS
<1>1. /\ cursor = NoId <=> phase \in {"idle", "diff"}
      /\ phase = "idle" => arg = 0
      /\ phase = "diff" => last_tick + arg <= now
      /\ phase \in {"diff", "count"} => Systick
      /\ cursor # NoId /\ Systick => arg <= last_tick
      /\ cursor = NoId => due = {}
      /\ \A t \in due :
           /\ t >= cursor
           /\ t = cursor => phase \in {"node", "count", "call"} /\ (phase = "count" => left = 0)
           /\ t # cursor \/ phase = "node" => Expired(t, arg)
      /\ due \subseteq ToSet(timer_lst)
  BY DEF WalkInv, TypeOK
<1>2. now \in Nat /\ last_tick \in Nat /\ arg \in Nat /\ arg <= now /\ last_tick <= now
  BY NowGrows
\* The calls of the API leave the walk alone, and a timer that is due as due.
<1>3. ASSUME UNCHANGED <<handler, cursor, phase, arg, left, last_tick>>, due' \subseteq due,
             \A t \in due' : Expired(t, arg) => Expired(t, arg)', now' \in Nat, now <= now'
      PROVE  WalkInv'
  <2>1. phase' = "diff" => last_tick' + arg' <= now'
    BY <1>1, <1>2, <1>3
  <2> QED BY <1>1, <1>3, <2>1 DEF WalkInv, Systick
<1>4. ASSUME UNCHANGED <<handler, cursor, phase, arg, left, last_tick, now>>, due' \subseteq due,
             \A t \in due' : timer'[t] = timer[t]
      PROVE  WalkInv'
  BY <1>2, <1>3, <1>4 DEF Expired, Systick
<1>5. ASSUME NEW period \in Period, Create(period) PROVE WalkInv'
  <2>1. \A t \in due : timer'[t] = timer[t]
    BY <1>1, <1>5, CreateList
  <2> QED BY <1>4, <1>5, <2>1 DEF Create, walk, history
<1>6. ASSUME NEW t \in Id, Destroy(t) PROVE WalkInv'
  <2>1. due' = due \ {t} /\ \A u \in due' : timer'[u] = timer[u]
    BY <1>1, <1>6, DestroyList DEF Destroy
  <2> QED BY <1>4, <1>6, <2>1 DEF Destroy, walk
<1>7. ASSUME NEW t \in Id, Cancel(t) PROVE WalkInv'
  <2>1. due' = due \ {t} /\ \A u \in due' : timer'[u] = timer[u]
    BY <1>1, <1>7 DEF Cancel, TypeOK
  <2> QED BY <1>4, <1>7, <2>1 DEF Cancel, walk
<1>8. ASSUME NEW t \in Id, NEW mode \in {"ONESHOT", "AUTORELOAD"}, Start(t, mode)
      PROVE  WalkInv'
  <2>1. due' = due \ {t} /\ \A u \in due' : timer'[u] = timer[u]
    BY <1>1, <1>8 DEF Start, Restarted, TypeOK
  <2> QED BY <1>4, <1>8, <2>1 DEF Start, walk
<1>9. ASSUME NEW c \in Client, NEW t \in Id, NEW mode \in {"ONESHOT", "AUTORELOAD"},
             StartTimes(c, t, mode)
      PROVE  WalkInv'
  <2>1. PICK uptime \in Nat :
          timer' = [timer EXCEPT ![t] = Armed(timer[t], uptime)] /\ Restarted(t, uptime)
    BY <1>2, <1>9, StartTimesIs
  <2>2. due' = due \ {t} /\ \A u \in due' : timer'[u] = timer[u]
    BY <1>1, <2>1 DEF Restarted, TypeOK
  <2> QED BY <1>4, <1>9, <2>2 DEF StartTimes, walk
<1>10. ASSUME NEW c \in Client, StartMode(c) PROVE WalkInv'
  <2> DEFINE u == starting[c].on
  <2>1. Listed(u) /\ starting[c].mode # "DISABLED" /\ starting[c].mode \in Modes
    BY <1>10, StartingIs DEF StartMode, Modes
  <2>2. /\ timer' = [timer EXCEPT ![u] = [timer[u] EXCEPT !.mode = starting[c].mode]]
        /\ UNCHANGED <<handler, cursor, phase, arg, left, last_tick, now, due>>
    BY <1>10 DEF StartMode, walk, history
  <2>3. timer[u] \in Fields /\ u \in DOMAIN timer
    BY <2>1, ListedFields
  <2>4. /\ timer'[u].mode = starting[c].mode /\ timer'[u].countdown = timer[u].countdown
        /\ timer'[u].timecmp = timer[u].timecmp
    BY <2>1, <2>2, <2>3, ModeFields
  <2>5. \A t \in due : t # u => timer'[t] = timer[t]
    BY <1>1, <2>2 DEF TypeOK
  <2>6. \A t \in due : Expired(t, arg) => Expired(t, arg)'
    <3> SUFFICES ASSUME NEW t \in due, Expired(t, arg) PROVE Expired(t, arg)'
      OBVIOUS
    <3>1. CASE t = u
      BY <2>1, <2>2, <2>4, <3>1 DEF Expired, Systick
    <3>2. CASE t # u
      BY <2>2, <2>5, <3>2 DEF Expired, Systick
    <3> QED BY <3>1, <3>2
  <2> QED BY <1>2, <1>3, <2>2, <2>6
<1>11. ASSUME NEW a \in Nat, Walk(a), UNCHANGED <<handler, timer, timer_lst>>,
              last_tick' \in Nat, Systick => a <= last_tick'
       PROVE  WalkInv'
  <2>1. /\ phase' = IF cursor' = NoId THEN "idle" ELSE "node"
        /\ arg' = IF cursor' = NoId THEN 0 ELSE a
        /\ due' = {t \in ToSet(timer_lst) : Expired(t, a)}
        /\ cursor' = IF timer_lst = <<>> THEN NoId ELSE timer_lst[1]
    BY <1>11 DEF Walk, StandOn
  <2>2. timer_lst \in Seq(Id) /\ Ascending(timer_lst)
    BY DEF TypeOK, ListInv
  <2>3. cursor' = NoId => due' = {}
    BY <2>1, <2>2, FirstNode
  <2>4. \A t \in due' : cursor' # NoId /\ t >= cursor' /\ Expired(t, a)
    BY <2>1, <2>2, FirstNode
  <2>5. \A t \in due' : Expired(t, arg)'
    BY <1>11, <2>1, <2>4 DEF Expired, Systick
  <2>6. Systick' => arg' <= last_tick'
    BY <1>11, <2>1 DEF Systick
  <2> QED BY <2>1, <2>3, <2>4, <2>5, <2>6 DEF WalkInv
<1>12. CASE HandlerSystick
  <2>1. UNCHANGED <<handler, cursor, due, timer, left, now>> /\ Systick /\ phase = "idle"
    BY <1>12 DEF HandlerSystick, history
  <2>2. CASE last_tick = 0
    BY <1>1, <1>12, <2>1, <2>2 DEF HandlerSystick, WalkInv
  <2>3. CASE last_tick # 0
    <3>1. phase' = "diff" /\ last_tick' = last_tick /\ arg' = now - last_tick
      BY <1>12, <2>3 DEF HandlerSystick
    <3>2. last_tick' + arg' <= now'
      BY <1>2, <2>1, <3>1
    <3> QED BY <1>1, <2>1, <3>1, <3>2 DEF WalkInv, Systick
  <2> QED BY <2>2, <2>3
<1>13. CASE HandlerLast
  <2>1. phase = "diff" /\ Walk(arg) /\ last_tick' = now /\ UNCHANGED <<handler, timer, timer_lst>>
    BY <1>13 DEF HandlerLast, list
  <2> QED BY <1>2, <1>11, <2>1
<1>14. CASE HandlerUptime
  BY <1>2, <1>11, <1>14 DEF HandlerUptime, list
<1>15. CASE Skip
  <2>1. /\ phase = "node" /\ StandOn(NextNode(cursor), arg)
        /\ UNCHANGED <<handler, last_tick, due, timer>>
    BY <1>15 DEF Skip, history
  <2>2. ~Expired(cursor, arg)
    BY <1>15 DEF Skip, Expired
  <2>3. cursor # NoId /\ cursor \notin due
    BY <1>1, <2>1, <2>2
  <2> QED BY <2>1, <2>3, WalkGoesOn
<1>16. CASE Count
  <2>1. /\ UNCHANGED <<handler, cursor, arg, last_tick, due, timer>> /\ phase = "node"
        /\ phase' = "count" /\ Systick
        /\ left' = IF timer[cursor].countdown <= arg THEN 0 ELSE timer[cursor].countdown - arg
    BY <1>16 DEF Count, TakeUp
  <2>2. cursor \in due => left' = 0
    BY <1>1, <2>1 DEF Expired
  <2>3. \A t \in due : t # cursor => Expired(t, arg)'
    BY <1>1, <2>1 DEF Expired, Systick
  <2> QED BY <1>1, <2>1, <2>2, <2>3 DEF WalkInv, Systick
<1>17. CASE Due \/ Fire \/ Return
  <2>1. /\ UNCHANGED <<handler, cursor, arg, last_tick, timer>>
        /\ phase' \in {"call", "callback", "reload", "disable"}
        /\ cursor # NoId /\ due' \subseteq due
        /\ phase' # "call" => due' = due \ {cursor}
    BY <1>1, <1>17 DEF Due, TakeUp, Fire, Return, history
  <2>2. \A t \in due : t # cursor => Expired(t, arg)'
    BY <1>1, <2>1 DEF Expired, Systick
  <2> QED BY <1>1, <2>1, <2>2 DEF WalkInv, Systick
<1>18. CASE CountStore
  <2>1. /\ phase = "count" /\ UNCHANGED <<handler, last_tick, due>> /\ cursor # NoId
        /\ timer' = [timer EXCEPT ![cursor].countdown = left]
    BY <1>1, <1>18 DEF CountStore, history
  <2>2. \A t \in due : t # cursor => timer'[t] = timer[t]
    BY <1>1, <2>1 DEF TypeOK
  <2>3. CASE left = 0
    <3>1. phase' = "call" /\ UNCHANGED <<cursor, arg, left>>
      BY <1>18, <2>3 DEF CountStore
    <3>2. \A t \in due : t # cursor => Expired(t, arg)'
      BY <1>1, <2>1, <2>2, <3>1 DEF Expired, Systick
    <3> QED BY <1>1, <2>1, <3>1, <3>2 DEF WalkInv, Systick
  <2>4. CASE left # 0
    <3>1. StandOn(NextNode(cursor), arg) /\ cursor \notin due
      BY <1>1, <1>18, <2>1, <2>4 DEF CountStore
    <3> QED BY <2>1, <2>2, <3>1, WalkGoesOn
  <2> QED BY <2>3, <2>4
<1>19. CASE Settle
  <2>1. /\ phase \in {"reload", "disable"} /\ StandOn(NextNode(cursor), arg)
        /\ UNCHANGED <<handler, last_tick, due>>
        /\ \A t \in DOMAIN timer : t # cursor => timer'[t] = timer[t]
    BY <1>19 DEF Settle, Leave, history
  <2>2. cursor # NoId /\ cursor \notin due
    BY <1>1, <2>1
  <2>3. \A t \in due : timer'[t] = timer[t]
    BY <1>1, <2>1, <2>2 DEF TypeOK
  <2> QED BY <2>1, <2>2, <2>3, WalkGoesOn
<1>20. CASE Clock
  <2>1. UNCHANGED <<handler, cursor, phase, arg, left, last_tick, due, timer>> /\ now' = now + 1
    BY <1>20 DEF Clock, walk, history
  <2>2. \A t \in due : Expired(t, arg) => Expired(t, arg)'
    BY <2>1 DEF Expired, Systick
  <2> QED BY <1>2, <1>3, <2>1, <2>2
<1>21. CASE UNCHANGED vars
  BY <1>4, <1>21 DEF vars
<1> QED
  BY <1>5, <1>6, <1>7, <1>8, <1>9, <1>10, <1>12, <1>13, <1>14, <1>15, <1>16, <1>17, <1>18,
     <1>19, <1>20, <1>21 DEF Next

----------------------------------------------------------- \* the overlaps
LEMMA MixStep == TypeOK /\ WalkInv /\ MixInv /\ [Next]_vars => MixInv'
<1> SUFFICES ASSUME TypeOK, WalkInv, MixInv, [Next]_vars, NEW t \in Id,
                    InVisit(t)', Starting(t)'
             PROVE  t \in mixed'
  BY DEF MixInv
<1>1. InVisit(t) /\ Starting(t) => t \in mixed
  BY DEF MixInv
<1>2. ASSUME InVisit(t), Starting(t), mixed \subseteq mixed' PROVE t \in mixed'
  BY <1>1, <1>2
<1>3. ASSUME NEW u \in Id, NEW uptime, Restarted(u, uptime), UNCHANGED <<cursor, phase>>,
             t = u \/ Starting(t)
      PROVE  t \in mixed'
  <2>1. InVisit(t)
    BY <1>3 DEF InVisit
  <2> QED BY <1>1, <1>3, <2>1 DEF Restarted
<1>4. ASSUME NEW u \in Id, NEW mode \in {"ONESHOT", "AUTORELOAD"}, Start(u, mode)
      PROVE  t \in mixed'
  BY <1>3, <1>4 DEF Start, walk, Starting
<1>5. ASSUME NEW c \in Client, NEW u \in Id, NEW mode \in {"ONESHOT", "AUTORELOAD"},
             StartTimes(c, u, mode)
      PROVE  t \in mixed'
  <2>1. \E uptime \in Nat : Restarted(u, uptime)
    BY <1>5, NowGrows, StartTimesIs
  <2>2. starting' = [starting EXCEPT ![c] = [on |-> u, mode |-> mode]]
    BY <1>5 DEF StartTimes
  <2>3. t = u \/ Starting(t)
    BY <2>2 DEF Starting, TypeOK
  <2> QED BY <1>3, <1>5, <2>1, <2>3 DEF StartTimes, walk
<1>6. ASSUME NEW c \in Client, StartMode(c) PROVE t \in mixed'
  <2>1. starting' = [starting EXCEPT ![c] = NoStart]
    BY <1>6 DEF StartMode
  <2>2. t # NoId
    BY TimerAssumption DEF Id, NoId
  <2>3. Starting(t)
    BY <2>1, <2>2 DEF Starting, TypeOK, NoStart
  <2> QED BY <1>2, <1>6, <2>3 DEF StartMode, walk, history, InVisit
<1>7. ASSUME NEW u \in Id, Destroy(u) PROVE t \in mixed'
  <2>1. UNCHANGED <<cursor, phase, starting>> /\ mixed' = mixed \ {u} /\ u # cursor
    BY <1>7 DEF Destroy, walk
  <2>2. InVisit(t) /\ Starting(t) /\ t # u
    BY <2>1 DEF InVisit, Starting
  <2> QED BY <1>1, <2>1, <2>2
<1>8. CASE \/ \E period \in Period : Create(period)
           \/ \E u \in Id : Cancel(u)
           \/ Clock \/ UNCHANGED vars
  <2>1. UNCHANGED <<cursor, phase, starting, mixed>>
    BY <1>8 DEF Create, Cancel, Clock, walk, history, vars
  <2> QED BY <1>1, <2>1 DEF InVisit, Starting
<1>9. ASSUME NEW u, NEW a, StandOn(u, a) PROVE FALSE
  BY <1>9 DEF StandOn, InVisit
<1>10. CASE HandlerSystick
  BY <1>10 DEF HandlerSystick, InVisit
<1>11. CASE HandlerLast \/ HandlerUptime \/ Skip \/ Settle
  BY <1>9, <1>11 DEF HandlerLast, HandlerUptime, Skip, Settle, Walk
<1>12. CASE Count \/ Due
  <2>1. UNCHANGED <<cursor, starting>> /\ mixed' = IF Starting(cursor) THEN mixed \cup {cursor} ELSE mixed
    BY <1>12 DEF Count, Due, TakeUp
  <2>2. t = cursor /\ Starting(t)
    BY <2>1 DEF InVisit, Starting
  <2> QED BY <2>1, <2>2
<1>13. CASE CountStore \/ Fire \/ Return
  <2>1. UNCHANGED <<starting, mixed>> /\ phase \in {"count", "call", "callback"}
    BY <1>13 DEF CountStore, Fire, Return, history
  <2>2. UNCHANGED cursor
    BY <1>9, <1>13 DEF CountStore, Fire, Return
  <2> QED BY <1>1, <2>1, <2>2 DEF InVisit, Starting
<1> QED
  BY <1>4, <1>5, <1>6, <1>7, <1>8, <1>10, <1>11, <1>12, <1>13 DEF Next

-------------------------------------------------------------- \* the history
LEMMA StageIs ==
  ASSUME TypeOK, WalkInv, NEW t, Listed(t)
  PROVE  /\ Stage(t) = "away" <=> ~InVisit(t)
         /\ t = cursor => phase \in {"node", "count", "call", "callback", "reload", "disable"}
<1>1. t # NoId /\ phase \in Phases
  BY ListedFields DEF TypeOK
<1> QED BY <1>1 DEF Stage, InVisit, Phases, WalkInv

LEMMA BaseIs ==
  ASSUME TypeOK, NEW t, Listed(t)
  PROVE  /\ Base(t) \in Nat /\ timer[t].time \in Nat
         /\ timer'[t].time = timer[t].time /\ since'[t] = since[t] =>
              /\ fires'[t] = fires[t] => Base(t)' = Base(t)
              /\ fires'[t] = fires[t] + 1 => Base(t)' = Base(t) + timer[t].time
<1>1. since[t] \in Nat /\ fires[t] \in Nat /\ timer[t].time \in Nat
  BY ListedFields
<1>2. \A a, b, c \in Nat : a + b * c \in Nat /\ a + (b + 1) * c = (a + b * c) + c
  OBVIOUS
<1>3. Base(t) \in Nat
  BY <1>1, <1>2 DEF Base
<1>4. ASSUME timer'[t].time = timer[t].time, since'[t] = since[t], fires'[t] = fires[t] + 1
      PROVE  Base(t)' = Base(t) + timer[t].time
  <2>1. Base(t)' = since[t] + (fires[t] + 1) * timer[t].time
    BY <1>4 DEF Base
  <2>2. since[t] + (fires[t] + 1) * timer[t].time
          = (since[t] + fires[t] * timer[t].time) + timer[t].time
    BY <1>1, <1>2
  <2> QED BY <2>1, <2>2 DEF Base
<1>5. ASSUME timer'[t].time = timer[t].time, since'[t] = since[t], fires'[t] = fires[t]
      PROVE  Base(t)' = Base(t)
  BY <1>5 DEF Base
<1> QED BY <1>1, <1>3, <1>4, <1>5

\* Where the handler's count stands for the timers the walk has passed and for
\* those ahead of it.
LEMMA CountedRange ==
  ASSUME TypeOK, WalkInv, NEW t, Systick
  PROVE  CountedFor(t) \in Nat /\ CountedFor(t) <= last_tick
BY NowGrows DEF CountedFor, WalkInv

\* Leaving a node counts the ticks for its timer only.
LEMMA CountGoesOn ==
  ASSUME TypeOK, ListInv, WalkInv, cursor # NoId, StandOn(NextNode(cursor), arg),
         UNCHANGED last_tick, NEW t \in Id, Listed(t)
  PROVE  /\ Stage(t)' = "away" /\ ~Serving(t)'
         /\ CountedFor(t)' = IF t = cursor THEN last_tick ELSE CountedFor(t)
<1>1. /\ cursor \in Id /\ Listed(cursor) /\ cursor \in Nat /\ t \in Nat /\ t # NoId
      /\ timer_lst \in Seq(Id) /\ Ascending(timer_lst)
  BY NextNodeListed, ListedFields DEF TypeOK, ListInv
<1>2. /\ cursor' # NoId => cursor' \in Nat /\ cursor' > cursor
      /\ t > cursor => cursor' # NoId /\ t >= cursor'
      /\ cursor' # NoId => arg' = arg /\ phase' = "node"
      /\ cursor' = NoId => t # cursor'
  <2>1. NextNode(cursor) # NoId => NextNode(cursor) \in Nat
    BY NextNodeListed, ListedFields
  <2> QED BY <1>1, <2>1, NextNodeIs DEF StandOn, Listed
<1>3. Stage(t)' = "away" /\ ~Serving(t)'
  BY <1>2 DEF Stage, Serving
<1>4. CountedFor(t) = IF t > cursor \/ (t = cursor /\ phase \in {"node", "count"})
                      THEN last_tick - arg ELSE last_tick
  BY <1>1, WalkInv DEF CountedFor, WalkInv
<1>5. CountedFor(t)' = IF t > cursor THEN last_tick - arg ELSE last_tick
  BY <1>1, <1>2 DEF CountedFor
<1> QED BY <1>1, <1>3, <1>4, <1>5

\* A step that leaves a timer and its history alone, while the handler's count
\* and the clock go on.
LEMMA Untouched ==
  ASSUME TypeOK, WalkInv, NEW t \in Id, Listed(t), HistoryAt(t),
         timer'[t] = timer[t], since'[t] = since[t], fires'[t] = fires[t],
         Starting(t)' => Starting(t), Stage(t)' = Stage(t), Serving(t)' = Serving(t),
         Stage(t) \in {"count", "call"} => arg' = arg /\ left' = left,
         UNCHANGED handler, now' \in Nat, now <= now', last_tick' \in Nat, last_tick <= last_tick',
         Systick => CountedFor(t)' \in Int /\ CountedFor(t) <= CountedFor(t)'
  PROVE  HistoryAt(t)'
<1>1. /\ Base(t) \in Nat /\ timer[t].time \in Nat /\ timer[t].countdown \in Nat
      /\ Base(t)' = Base(t)
  BY BaseIs, ListedFields
<1>2. now \in Nat /\ last_tick \in Nat /\ Systick' = Systick
  BY NowGrows DEF Systick
<1>3. WillFire(t)' => WillFire(t)
  BY DEF WillFire
<1>4. /\ timer'[t].mode = "ONESHOT" /\ ~Serving(t)' => fires'[t] = 0
      /\ timer'[t].mode = "ONESHOT" => Stage(t)' # "reload"
      /\ Starting(t)' => fires'[t] = 0
  BY DEF HistoryAt
<1>5. now' >= Base(t)'
  <2>1. now >= Base(t)
    BY DEF HistoryAt
  <2> QED BY <1>1, <1>2, <2>1
<1>6. CASE Systick
  <2>1. /\ timer[t].countdown <= timer[t].time
        /\ Base(t) <= last_tick
        /\ WillFire(t) => Base(t) + (timer[t].time - timer[t].countdown) <= CountedFor(t)
        /\ Stage(t) = "count" =>
             left = IF timer[t].countdown <= arg THEN 0 ELSE timer[t].countdown - arg
        /\ Stage(t) = "call" => timer[t].countdown = 0
    BY <1>6 DEF HistoryAt, TickAt
  <2>2. CountedFor(t) \in Nat /\ CountedFor(t)' \in Int /\ CountedFor(t) <= CountedFor(t)'
    BY <1>6, CountedRange
  <2>3. WillFire(t)' => Base(t)' + (timer'[t].time - timer'[t].countdown) <= CountedFor(t)'
    BY <1>1, <1>3, <2>1, <2>2
  <2>4. Base(t)' <= last_tick'
    BY <1>1, <1>2, <2>1
  <2>5. Stage(t)' = "count" =>
          left' = IF timer'[t].countdown <= arg' THEN 0 ELSE timer'[t].countdown - arg'
    BY <2>1
  <2>6. TickAt(t)'
    BY <2>1, <2>3, <2>4, <2>5 DEF TickAt
  <2> QED BY <1>2, <1>4, <1>5, <1>6, <2>6 DEF HistoryAt
<1>7. CASE ~Systick
  <2>1. /\ WillFire(t) => timer[t].timecmp = Base(t) + timer[t].time
        /\ Serving(t) => timer[t].timecmp = Base(t)
        /\ Stage(t) = "call" => timer[t].timecmp < arg
    BY <1>7 DEF HistoryAt, UptimeAt
  <2>2. UptimeAt(t)'
    BY <1>1, <1>3, <2>1 DEF UptimeAt
  <2> QED BY <1>2, <1>4, <1>5, <1>7, <2>2 DEF HistoryAt
<1> QED BY <1>6, <1>7

\* The history of a timer after a start the handler does not meet.
LEMMA StartHistory ==
  ASSUME TypeOK, WalkInv, NEW t \in Id, Listed(t), NEW uptime \in Nat, uptime <= now,
         Restarted(t, uptime), t \notin mixed',
         timer'[t].time = timer[t].time, timer'[t].countdown = timer[t].time,
         timer'[t].timecmp = uptime + timer[t].time,
         UNCHANGED <<handler, now, cursor, phase, arg, left, last_tick>>
  PROVE  HistoryAt(t)'
<1> DEFINE T == timer[t].time
           base == IF Systick THEN CountedFor(t) ELSE uptime
<1>1. now \in Nat /\ last_tick \in Nat /\ last_tick <= now /\ T \in Nat
  BY NowGrows, ListedFields
<1>2. Stage(t) = "away"
  <2>1. ~InVisit(t)
    BY DEF Restarted
  <2> QED BY <2>1, StageIs
<1>3. Stage(t)' = "away" /\ ~Serving(t)' /\ Systick' = Systick /\ CountedFor(t)' = CountedFor(t)
  <2>1. ~Serving(t)
    BY <1>2 DEF Stage, Serving
  <2> QED BY <1>2, <2>1 DEF Stage, Serving, Systick, CountedFor
<1>4. since'[t] = base /\ fires'[t] = 0
  BY DEF Restarted, TypeOK
<1>5. base \in Nat /\ base <= now /\ (Systick => base <= last_tick)
  BY <1>1, CountedRange
<1>6. Base(t)' = base
  <2>1. base + 0 * T = base
    BY <1>1, <1>5
  <2> QED BY <1>4, <2>1 DEF Base
<1>7. Systick => TickAt(t)'
  <2> SUFFICES ASSUME Systick PROVE TickAt(t)'
    OBVIOUS
  <2>1. base = CountedFor(t)
    OBVIOUS
  <2> HIDE DEF base
  <2>2. Base(t)' + (timer'[t].time - timer'[t].countdown) <= CountedFor(t)'
    BY <1>1, <1>3, <1>5, <1>6, <2>1
  <2> QED BY <1>1, <1>3, <1>5, <1>6, <2>2 DEF TickAt
<1>8. ~Systick => UptimeAt(t)'
  BY <1>3, <1>6 DEF UptimeAt
<1> QED BY <1>3, <1>4, <1>5, <1>6, <1>7, <1>8 DEF HistoryAt

\* The last store of a start, and a cancel.
LEMMA ModeHistory ==
  ASSUME TypeOK, WalkInv, NEW t \in Id, Listed(t), HistoryAt(t), NEW m \in Modes,
         timer' = [timer EXCEPT ![t] = [timer[t] EXCEPT !.mode = m]],
         m = "DISABLED" \/ (Starting(t) /\ ~InVisit(t)),
         Starting(t)' => Starting(t), UNCHANGED <<since, fires>>,
         UNCHANGED <<handler, now, cursor, phase, arg, left, last_tick>>
  PROVE  HistoryAt(t)'
<1>1. timer[t] \in Fields /\ t \in DOMAIN timer /\ now \in Nat /\ last_tick \in Nat
  BY ListedFields, NowGrows
<1>2. /\ timer'[t].time = timer[t].time /\ timer'[t].countdown = timer[t].countdown
      /\ timer'[t].timecmp = timer[t].timecmp /\ timer'[t].mode = m
  BY <1>1, ModeFields
<1>3. Base(t)' = Base(t)
  BY <1>2, BaseIs
<1>4. /\ Stage(t)' = Stage(t) /\ Serving(t)' = Serving(t) /\ CountedFor(t)' = CountedFor(t)
      /\ Systick' = Systick
  BY DEF Stage, Serving, CountedFor, Systick
<1>5. WillFire(t)' => WillFire(t)
  <2>1. CASE m = "DISABLED"
    BY <1>2, <1>4, <2>1 DEF WillFire
  <2>2. CASE Starting(t)
    BY <1>4, <2>2 DEF WillFire
  <2> QED BY <2>1, <2>2
<1>6. m = "ONESHOT" => fires'[t] = 0 /\ Stage(t)' # "reload"
  <2> SUFFICES ASSUME m = "ONESHOT" PROVE fires'[t] = 0 /\ Stage(t)' # "reload"
    OBVIOUS
  <2>1. Starting(t) /\ Stage(t) = "away"
    BY StageIs
  <2> QED BY <1>4, <2>1 DEF HistoryAt
<1>7. Starting(t)' => fires'[t] = 0
  BY DEF HistoryAt
<1>8. now' >= Base(t)'
  BY <1>3 DEF HistoryAt
<1>9. CASE Systick
  <2>1. TickAt(t)
    BY <1>9 DEF HistoryAt
  <2>2. TickAt(t)'
    BY <1>2, <1>3, <1>4, <1>5, <2>1 DEF TickAt
  <2> QED BY <1>2, <1>4, <1>6, <1>7, <1>8, <1>9, <2>2 DEF HistoryAt
<1>10. CASE ~Systick
  <2>1. UptimeAt(t)
    BY <1>10 DEF HistoryAt
  <2>2. UptimeAt(t)'
    BY <1>2, <1>3, <1>4, <1>5, <2>1 DEF UptimeAt
  <2> QED BY <1>2, <1>4, <1>6, <1>7, <1>8, <1>10, <2>2 DEF HistoryAt
<1> QED BY <1>9, <1>10

\* The handler takes a timer up.
LEMMA CountHistory ==
  ASSUME TypeOK, ListInv, WalkInv, Count, NEW t \in Id, t = cursor, Listed(t), HistoryAt(t)
  PROVE  HistoryAt(t)'
<1>1. /\ phase = "node" /\ phase' = "count" /\ Systick /\ timer[t].mode # "DISABLED"
      /\ left' = IF timer[t].countdown <= arg THEN 0 ELSE timer[t].countdown - arg
      /\ UNCHANGED <<handler, now, last_tick, timer, cursor, arg, starting, since, fires>>
  BY DEF Count, TakeUp
<1>2. /\ Stage(t)' = "count" /\ ~Serving(t)' /\ ~Serving(t) /\ Systick' = Systick
      /\ CountedFor(t)' = CountedFor(t) /\ Starting(t)' = Starting(t) /\ Base(t)' = Base(t)
  BY <1>1 DEF Stage, Serving, Systick, CountedFor, Starting, Base
<1>3. WillFire(t) /\ TickAt(t)
  BY <1>1, <1>2 DEF WillFire, HistoryAt
<1>4. TickAt(t)'
  BY <1>1, <1>2, <1>3 DEF TickAt
<1> QED BY <1>1, <1>2, <1>4 DEF HistoryAt

LEMMA DueHistory ==
  ASSUME TypeOK, ListInv, WalkInv, Due, NEW t \in Id, t = cursor, Listed(t), HistoryAt(t)
  PROVE  HistoryAt(t)'
<1>1. /\ phase = "node" /\ phase' = "call" /\ ~Systick /\ timer[t].mode # "DISABLED"
      /\ arg > timer[t].timecmp
      /\ UNCHANGED <<handler, now, last_tick, timer, cursor, arg, starting, since, fires>>
  BY DEF Due, TakeUp, Expired
<1>2. /\ Stage(t)' = "call" /\ ~Serving(t)' /\ ~Serving(t) /\ Systick' = Systick
      /\ Starting(t)' = Starting(t) /\ Base(t)' = Base(t)
  BY <1>1 DEF Stage, Serving, Systick, Starting, Base
<1>3. WillFire(t) /\ UptimeAt(t)
  BY <1>1, <1>2 DEF WillFire, HistoryAt
<1>4. timer[t].timecmp \in Nat /\ arg \in Nat
  BY ListedFields, NowGrows
<1>5. UptimeAt(t)'
  BY <1>1, <1>2, <1>3, <1>4 DEF UptimeAt
<1> QED BY <1>1, <1>2, <1>5 DEF HistoryAt

\* The ticks of this pass are counted for the timer.
LEMMA CountStoreHistory ==
  ASSUME TypeOK, ListInv, WalkInv, CountStore, NEW t \in Id, t = cursor, Listed(t), HistoryAt(t)
  PROVE  HistoryAt(t)'
<1> DEFINE T == timer[t].time
           c == timer[t].countdown
           b == Base(t)
<1>1. /\ phase = "count" /\ Systick
      /\ timer' = [timer EXCEPT ![t] = [timer[t] EXCEPT !.countdown = left]]
      /\ UNCHANGED <<handler, now, last_tick, starting, since, fires>>
  BY DEF CountStore, history, WalkInv
<1>2. /\ timer[t] \in Fields /\ t \in DOMAIN timer /\ T \in Nat /\ c \in Nat /\ left \in Nat
      /\ arg \in Nat /\ last_tick \in Nat /\ t # NoId /\ t \in Nat /\ b \in Nat
  BY ListedFields, NowGrows, BaseIs DEF TypeOK
<1>3. timer'[t].time = T /\ timer'[t].countdown = left /\ timer'[t].mode = timer[t].mode
  BY <1>1, <1>2, CountdownFields
<1>4. Base(t)' = b
  BY <1>1, <1>3, BaseIs
<1>5. Stage(t) = "count" /\ ~Serving(t) /\ CountedFor(t) = last_tick - arg
  BY <1>1, <1>2 DEF Stage, Serving, CountedFor
<1>6. /\ c <= T /\ b <= last_tick /\ b + (T - c) <= last_tick - arg
      /\ left = IF c <= arg THEN 0 ELSE c - arg
  <2>1. TickAt(t) /\ WillFire(t)
    BY <1>1, <1>5 DEF HistoryAt, WillFire
  <2> QED BY <1>5, <2>1 DEF TickAt
<1>7. /\ CountedFor(t)' = last_tick /\ ~Serving(t)'
      /\ Stage(t)' = IF left = 0 THEN "call" ELSE "away"
  <2>1. CASE left = 0
    <3>1. phase' = "call" /\ cursor' = cursor
      BY <2>1 DEF CountStore
    <3>2. CountedFor(t)' = last_tick /\ ~Serving(t)'
      BY <1>1, <1>2, <3>1 DEF CountedFor, Serving
    <3>3. Stage(t)' = "call"
      BY <3>1 DEF Stage
    <3> QED BY <2>1, <3>2, <3>3
  <2>2. CASE left # 0
    <3>1. StandOn(NextNode(cursor), arg)
      BY <2>2 DEF CountStore
    <3> QED BY <1>1, <1>2, <2>2, <3>1, CountGoesOn
  <2> QED BY <2>1, <2>2
<1>8. TickAt(t)'
  <2> HIDE DEF T, c, b
  <2>1. left <= T /\ b + (T - left) <= last_tick
    BY <1>2, <1>6
  <2> QED BY <1>1, <1>2, <1>3, <1>4, <1>6, <1>7, <2>1 DEF TickAt
<1>9. Starting(t)' = Starting(t) /\ Systick'
  BY <1>1 DEF Starting, Systick
<1> QED BY <1>1, <1>3, <1>4, <1>5, <1>7, <1>8, <1>9 DEF HistoryAt

\* The timer is called back one firing further, and not before the time of
\* that firing.
LEMMA FireHistory ==
  ASSUME TypeOK, ListInv, WalkInv, Fire, NEW t \in Id, t = cursor, Listed(t), HistoryAt(t),
         ~Starting(t)
  PROVE  HistoryAt(t)'
<1> DEFINE T == timer[t].time
           b == Base(t)
<1>1. /\ phase = "call" /\ phase' = "callback"
      /\ UNCHANGED <<handler, now, last_tick, timer, cursor, arg, left, starting, since>>
      /\ fires' = [fires EXCEPT ![t] = @ + 1]
  BY DEF Fire
<1>2. /\ T \in Nat /\ timer[t].countdown \in Nat /\ timer[t].timecmp \in Nat /\ t # NoId
      /\ b \in Nat /\ now \in Nat /\ last_tick \in Nat /\ last_tick <= now
      /\ arg \in Nat /\ arg <= now
  BY ListedFields, NowGrows, BaseIs
<1>3. fires'[t] = fires[t] + 1
  BY <1>1 DEF TypeOK
<1>4. Base(t)' = b + T
  BY <1>1, <1>3, BaseIs
<1>5. /\ Stage(t) = "call" /\ ~Serving(t) /\ WillFire(t)
      /\ Stage(t)' = "callback" /\ Serving(t)' /\ ~WillFire(t)'
      /\ Systick' = Systick /\ ~Starting(t)'
  BY <1>1 DEF Stage, Serving, WillFire, Systick, Starting
<1>6. CASE Systick
  <2>1. timer[t].countdown = 0 /\ b + (T - 0) <= CountedFor(t)
    BY <1>5, <1>6 DEF HistoryAt, TickAt
  <2>2. CountedFor(t) = last_tick
    <3>1. t \in Nat
      BY ListedFields
    <3> QED BY <1>1, <3>1 DEF CountedFor
  <2> HIDE DEF T, b
  <2>3. b + T <= last_tick /\ b + T <= now
    BY <1>2, <2>1, <2>2
  <2>4. timer'[t].countdown <= timer'[t].time
    BY <1>1, <1>2, <2>1 DEF T
  <2>5. TickAt(t)'
    BY <1>1, <1>4, <1>5, <2>3, <2>4 DEF TickAt
  <2>6. now' >= Base(t)'
    BY <1>1, <1>2, <1>4, <2>3
  <2> QED BY <1>5, <1>6, <2>5, <2>6 DEF HistoryAt
<1>7. CASE ~Systick
  <2>1. timer[t].timecmp = b + T /\ timer[t].timecmp < arg
    BY <1>5, <1>7 DEF HistoryAt, UptimeAt
  <2> HIDE DEF T, b
  <2>2. UptimeAt(t)'
    BY <1>1, <1>4, <1>5, <2>1 DEF UptimeAt
  <2>3. now' >= Base(t)'
    BY <1>1, <1>2, <1>4, <2>1
  <2> QED BY <1>5, <1>7, <2>2, <2>3 DEF HistoryAt
<1> QED BY <1>6, <1>7

LEMMA ReturnHistory ==
  ASSUME TypeOK, ListInv, WalkInv, Return, NEW t \in Id, t = cursor, Listed(t), HistoryAt(t)
  PROVE  HistoryAt(t)'
<1>1. /\ phase = "callback"
      /\ phase' = IF timer[t].mode = "AUTORELOAD" THEN "reload" ELSE "disable"
      /\ UNCHANGED <<handler, now, last_tick, timer, cursor, arg, left, starting, since, fires>>
  BY DEF Return, history
<1>2. /\ Serving(t) /\ Serving(t)' /\ Stage(t)' = phase' /\ ~WillFire(t)'
      /\ Systick' = Systick /\ Starting(t)' = Starting(t) /\ Base(t)' = Base(t)
  BY <1>1 DEF Stage, Serving, WillFire, Systick, Starting, Base
<1>3. CASE Systick
  <2>1. TickAt(t)'
    BY <1>1, <1>2, <1>3 DEF HistoryAt, TickAt
  <2> QED BY <1>1, <1>2, <1>3, <2>1 DEF HistoryAt
<1>4. CASE ~Systick
  <2>1. UptimeAt(t)'
    BY <1>1, <1>2, <1>4 DEF HistoryAt, UptimeAt
  <2> QED BY <1>1, <1>2, <1>4, <2>1 DEF HistoryAt
<1> QED BY <1>3, <1>4

\* A reload sets the timer up for its next firing.
LEMMA SettleHistory ==
  ASSUME TypeOK, ListInv, WalkInv, Settle, NEW t \in Id, t = cursor, Listed(t), HistoryAt(t),
         ~Starting(t)
  PROVE  HistoryAt(t)'
<1> DEFINE T == timer[t].time
           b == Base(t)
<1>1. /\ phase \in {"reload", "disable"} /\ StandOn(NextNode(cursor), arg)
      /\ timer' = [timer EXCEPT ![t] = IF phase = "reload" THEN Reload(timer[t])
                                       ELSE [timer[t] EXCEPT !.mode = "DISABLED"]]
      /\ UNCHANGED <<handler, now, last_tick, starting, since, fires>>
  BY DEF Settle, Leave, history
<1>2. /\ timer[t] \in Fields /\ t \in DOMAIN timer /\ T \in Nat /\ timer[t].countdown \in Nat
      /\ t # NoId /\ b \in Nat /\ now \in Nat /\ last_tick \in Nat
  BY ListedFields, NowGrows, BaseIs
<1>3. Serving(t) /\ Stage(t) = phase
  BY <1>1 DEF Serving, Stage
<1>4. Stage(t)' = "away" /\ ~Serving(t)' /\ CountedFor(t)' = last_tick
  BY <1>1, <1>2, CountGoesOn
<1>5. Systick' = Systick /\ ~Starting(t)'
  BY <1>1 DEF Systick, Starting
<1>6. CASE phase = "reload"
  <2>1. /\ timer'[t].time = T /\ timer'[t].mode = timer[t].mode
        /\ timer'[t].countdown = IF Systick THEN T ELSE timer[t].countdown
        /\ timer'[t].timecmp = IF Systick THEN timer[t].timecmp ELSE timer[t].timecmp + T
    BY <1>1, <1>2, <1>6, ReloadFields
  <2>2. Base(t)' = b
    BY <1>1, <2>1, BaseIs
  <2>3. timer'[t].mode # "ONESHOT"
    BY <1>3, <1>6, <2>1 DEF HistoryAt
  <2>4. now' >= Base(t)'
    BY <1>1, <2>2 DEF HistoryAt
  <2>5. CASE Systick
    <3>1. b <= last_tick
      BY <2>5 DEF HistoryAt, TickAt
    <3> HIDE DEF T, b
    <3>2. Base(t)' + (timer'[t].time - timer'[t].countdown) <= CountedFor(t)'
      BY <1>2, <1>4, <2>1, <2>2, <2>5, <3>1
    <3>3. timer'[t].countdown <= timer'[t].time
      BY <1>2, <2>1, <2>5
    <3>4. TickAt(t)'
      BY <1>1, <1>4, <2>2, <3>1, <3>2, <3>3 DEF TickAt
    <3> QED BY <1>4, <1>5, <2>3, <2>4, <2>5, <3>4 DEF HistoryAt
  <2>6. CASE ~Systick
    <3>1. timer[t].timecmp = b
      BY <1>3, <2>6 DEF HistoryAt, UptimeAt
    <3>2. UptimeAt(t)'
      BY <1>4, <2>1, <2>2, <2>6, <3>1 DEF UptimeAt
    <3> QED BY <1>4, <1>5, <2>3, <2>4, <2>6, <3>2 DEF HistoryAt
  <2> QED BY <2>5, <2>6
<1>7. CASE phase = "disable"
  <2>1. /\ timer'[t].time = T /\ timer'[t].mode = "DISABLED"
        /\ timer'[t].countdown = timer[t].countdown
    BY <1>1, <1>2, <1>7, ModeFields DEF Modes
  <2>2. Base(t)' = b
    BY <1>1, <2>1, BaseIs
  <2>3. now' >= Base(t)'
    BY <1>1, <2>2 DEF HistoryAt
  <2>4. ~WillFire(t)'
    BY <1>4, <1>5, <2>1 DEF WillFire
  <2>5. Systick => TickAt(t)'
    <3> SUFFICES ASSUME Systick PROVE TickAt(t)'
      OBVIOUS
    <3>1. timer[t].countdown <= T /\ b <= last_tick
      BY DEF HistoryAt, TickAt
    <3> QED BY <1>1, <1>4, <2>1, <2>2, <2>4, <3>1 DEF TickAt
  <2>6. UptimeAt(t)'
    BY <1>4, <2>4 DEF UptimeAt
  <2> QED BY <1>4, <1>5, <2>1, <2>3, <2>5, <2>6 DEF HistoryAt
<1> QED BY <1>1, <1>6, <1>7


LEMMA HistoryStep ==
  TimerInv /\ [Next]_vars => \A t \in Id : Listed(t)' /\ t \notin mixed' => HistoryAt(t)'
<1> SUFFICES ASSUME TypeOK, ListInv, WalkInv, MixInv,
                    \A t \in Id : Listed(t) /\ t \notin mixed => HistoryAt(t),
                    [Next]_vars, NEW t \in Id, Listed(t)', t \notin mixed'
             PROVE  HistoryAt(t)'
  BY DEF TimerInv
<1>1. /\ now \in Nat /\ last_tick \in Nat /\ arg \in Nat /\ last_tick <= now
      /\ t \in Nat /\ t # NoId /\ timer_lst \in Seq(Id)
  BY NowGrows, TimerAssumption DEF Id, NoId, TypeOK
<1>2. ASSUME Listed(t), t \notin mixed PROVE HistoryAt(t)
  BY <1>2
\* A step that leaves the walk and the timer alone.
<1>3. ASSUME Listed(t), t \notin mixed, timer'[t] = timer[t], since'[t] = since[t],
             fires'[t] = fires[t], Starting(t)' => Starting(t),
             UNCHANGED <<handler, cursor, phase, arg, left, last_tick>>,
             now' \in Nat, now <= now'
      PROVE  HistoryAt(t)'
  <2>1. Stage(t)' = Stage(t) /\ Serving(t)' = Serving(t) /\ CountedFor(t)' = CountedFor(t)
    BY <1>3 DEF Stage, Serving, CountedFor
  <2>2. Systick => CountedFor(t) \in Nat
    BY CountedRange
  <2>3. Systick => CountedFor(t)' \in Int /\ CountedFor(t) <= CountedFor(t)'
    BY <2>1, <2>2
  <2>4. last_tick' \in Nat /\ last_tick <= last_tick'
    BY <1>1, <1>3
  <2>5. HistoryAt(t)
    BY <1>2, <1>3
  <2> QED BY <1>3, <2>1, <2>3, <2>4, <2>5, Untouched
\* A step of the walk away from the timer.
<1>4. ASSUME Listed(t), t \notin mixed, timer'[t] = timer[t], Stage(t) = "away",
             Stage(t)' = "away", ~Serving(t)', UNCHANGED <<handler, now, starting, since, fires>>,
             last_tick' \in Nat, last_tick <= last_tick',
             Systick => CountedFor(t)' \in Int /\ CountedFor(t) <= CountedFor(t)'
      PROVE  HistoryAt(t)'
  <2>1. ~Serving(t) /\ (Starting(t)' => Starting(t))
    BY <1>4 DEF Stage, Serving, Starting
  <2>2. HistoryAt(t)
    BY <1>2, <1>4
  <2>3. Stage(t)' = Stage(t) /\ Serving(t)' = Serving(t) /\ Stage(t) \notin {"count", "call"}
    BY <1>4, <2>1 DEF Serving
  <2>4. since'[t] = since[t] /\ fires'[t] = fires[t] /\ now' \in Nat /\ now <= now'
    BY <1>1, <1>4
  <2> QED BY <1>4, <2>1, <2>2, <2>3, <2>4, Untouched
<1>5. ASSUME Listed(t), t \notin mixed, t # cursor, timer'[t] = timer[t],
             UNCHANGED <<handler, now, last_tick, cursor, arg, starting>>,
             since'[t] = since[t], fires'[t] = fires[t]
      PROVE  HistoryAt(t)'
  <2>1. /\ Stage(t)' = Stage(t) /\ Serving(t)' = Serving(t) /\ CountedFor(t)' = CountedFor(t)
        /\ Stage(t) = "away" /\ (Starting(t)' => Starting(t))
    BY <1>5 DEF Stage, Serving, CountedFor, Starting
  <2>2. Systick => CountedFor(t) \in Nat
    BY CountedRange
  <2>3. Systick => CountedFor(t)' \in Int /\ CountedFor(t) <= CountedFor(t)'
    BY <2>1, <2>2
  <2>4. HistoryAt(t)
    BY <1>2, <1>5
  <2>5. /\ now' \in Nat /\ now <= now' /\ last_tick' \in Nat /\ last_tick <= last_tick'
        /\ Stage(t) \notin {"count", "call"}
    BY <1>1, <1>5, <2>1
  <2> QED BY <1>5, <2>1, <2>3, <2>4, <2>5, Untouched
<1>6. ASSUME NEW period \in Period, Create(period) PROVE HistoryAt(t)'
  <2>1. /\ UNCHANGED <<handler, now, walk, starting, history>>
        /\ ToSet(timer_lst') = ToSet(timer_lst) \cup {timer_id}
        /\ timer_id \notin ToSet(timer_lst)
        /\ timer'[timer_id] = Created(period)
        /\ \A u \in ToSet(timer_lst) : timer'[u] = timer[u]
    BY <1>6, CreateList DEF Create
  <2>2. CASE Listed(t)
    BY <1>1, <1>3, <2>1, <2>2 DEF walk, history, Listed, Starting
  <2>3. CASE ~Listed(t)
    <3>1. t = timer_id /\ since[t] = 0 /\ fires[t] = 0
      <4>1. t = timer_id
        BY <2>1, <2>3 DEF Listed
      <4> QED BY <1>1, <4>1 DEF ListInv
    <3>2. t # cursor /\ ~Starting(t)
      BY <1>1, <2>3 DEF TypeOK, Starting, Listed, NoStart
    <3>3. Stage(t)' = "away" /\ ~Serving(t)' /\ ~Starting(t)'
      BY <2>1, <3>2 DEF walk, Stage, Serving, Starting
    <3>4. /\ timer'[t].time = period /\ timer'[t].countdown = period
          /\ timer'[t].mode = "DISABLED" /\ period \in Nat
      BY <2>1, <3>1, TimerAssumption DEF Created
    <3>5. Base(t)' = 0
      <4>1. 0 + 0 * period = 0
        BY <3>4
      <4> QED BY <2>1, <3>1, <3>4, <4>1 DEF Base, history
    <3>6. ~WillFire(t)'
      BY <3>3, <3>4 DEF WillFire
    <3>7. TickAt(t)' /\ UptimeAt(t)'
      BY <1>1, <2>1, <3>3, <3>4, <3>5, <3>6 DEF walk, TickAt, UptimeAt
    <3> QED BY <1>1, <2>1, <3>3, <3>4, <3>5, <3>7 DEF HistoryAt
  <2> QED BY <2>2, <2>3
<1>7. ASSUME NEW u \in Id, Destroy(u) PROVE HistoryAt(t)'
  <2>1. Listed(t) /\ t # u /\ timer'[t] = timer[t]
    BY <1>7, DestroyList DEF Listed
  <2>2. /\ since'[t] = since[t] /\ fires'[t] = fires[t] /\ t \notin mixed
        /\ Starting(t)' = Starting(t) /\ UNCHANGED <<handler, now, walk>>
    BY <1>7, <2>1 DEF Destroy, Starting, TypeOK
  <2> QED BY <1>1, <1>3, <2>1, <2>2 DEF walk, Destroy
<1>8. ASSUME NEW u \in Id, Cancel(u) PROVE HistoryAt(t)'
  <2>1. /\ UNCHANGED <<handler, now, timer_lst, walk, starting, since, fires, mixed>>
        /\ timer' = [timer EXCEPT ![u] = [timer[u] EXCEPT !.mode = "DISABLED"]]
    BY <1>8 DEF Cancel, list
  <2>2. Listed(t) /\ t \notin mixed /\ Starting(t)' = Starting(t) /\ t \in DOMAIN timer
    BY <2>1 DEF Listed, Starting, TypeOK
  <2>3. CASE t = u
    <3>1. "DISABLED" \in Modes
      BY DEF Modes
    <3>2. timer' = [timer EXCEPT ![t] = [timer[t] EXCEPT !.mode = "DISABLED"]]
      BY <2>1, <2>3
    <3> QED BY <1>2, <2>1, <2>2, <3>1, <3>2, ModeHistory DEF walk
  <2>4. CASE t # u
    <3>1. timer'[t] = timer[t]
      BY <2>1, <2>2, <2>4
    <3> QED BY <1>1, <1>3, <2>1, <2>2, <3>1 DEF walk
  <2> QED BY <2>3, <2>4
<1>9. ASSUME NEW u \in Id, Listed(u), NEW f, timer' = [timer EXCEPT ![u] = f],
             UNCHANGED <<handler, now, list, walk>>, t # u, NEW uptime, Restarted(u, uptime),
             Starting(t)' => Starting(t)
      PROVE  HistoryAt(t)'
  <2>1. Listed(t) /\ t \in DOMAIN timer
    BY <1>9 DEF Listed, list, TypeOK
  <2>2. /\ timer'[t] = timer[t] /\ since'[t] = since[t] /\ fires'[t] = fires[t]
        /\ t \notin mixed
    BY <1>9, <2>1 DEF Restarted, TypeOK
  <2> QED BY <1>1, <1>3, <1>9, <2>1, <2>2 DEF walk
<1>10. ASSUME NEW u \in Id, NEW mode \in {"ONESHOT", "AUTORELOAD"}, Start(u, mode)
       PROVE  HistoryAt(t)'
  <2>1. /\ Listed(u) /\ Restarted(u, now) /\ UNCHANGED <<handler, now, list, walk, starting>>
        /\ timer' = [timer EXCEPT ![u] = [Armed(timer[u], now) EXCEPT !.mode = mode]]
        /\ Starting(t)' = Starting(t)
    BY <1>10 DEF Start, Starting
  <2>2. CASE t = u
    <3>1. timer[t] \in Fields /\ t \in DOMAIN timer /\ Armed(timer[t], now) \in Fields
      BY <1>1, <2>1, <2>2, ListedFields, ArmedFields
    <3>2. mode \in Modes
      BY DEF Modes
    <3>3. timer'[t] = [Armed(timer[t], now) EXCEPT !.mode = mode]
      BY <2>1, <2>2, <3>1
    <3>4. /\ timer'[t].time = timer[t].time /\ timer'[t].countdown = timer[t].time
          /\ timer'[t].timecmp = now + timer[t].time
      <4>1. timer'[t].time = Armed(timer[t], now).time
        BY <3>1, <3>2, <3>3, ModeFields
      <4>2. timer'[t].countdown = Armed(timer[t], now).countdown
        BY <3>1, <3>2, <3>3, ModeFields
      <4>3. timer'[t].timecmp = Armed(timer[t], now).timecmp
        BY <3>1, <3>2, <3>3, ModeFields
      <4> QED BY <1>1, <3>1, <4>1, <4>2, <4>3, ArmedFields
    <3>5. now <= now
      BY <1>1
    <3> QED BY <1>1, <2>1, <2>2, <3>4, <3>5, StartHistory DEF walk
  <2>3. CASE t # u
    BY <1>9, <2>1, <2>3
  <2> QED BY <2>2, <2>3
<1>11. ASSUME NEW c \in Client, NEW u \in Id, NEW mode \in {"ONESHOT", "AUTORELOAD"},
              StartTimes(c, u, mode)
       PROVE  HistoryAt(t)'
  <2>1. PICK uptime \in Nat : /\ uptime <= now /\ Restarted(u, uptime)
                              /\ timer' = [timer EXCEPT ![u] = Armed(timer[u], uptime)]
    BY <1>1, <1>11, StartTimesIs
  <2>2. /\ Listed(u) /\ UNCHANGED <<handler, now, list, walk>>
        /\ starting' = [starting EXCEPT ![c] = [on |-> u, mode |-> mode]]
    BY <1>11 DEF StartTimes
  <2>3. CASE t = u
    <3>1. timer[t] \in Fields /\ t \in DOMAIN timer
      BY <2>2, <2>3, ListedFields
    <3>2. timer'[t] = Armed(timer[t], uptime)
      BY <2>1, <2>3, <3>1
    <3>3. /\ timer'[t].time = timer[t].time /\ timer'[t].countdown = timer[t].time
          /\ timer'[t].timecmp = uptime + timer[t].time
      BY <3>1, <3>2, ArmedFields
    <3> QED BY <2>1, <2>2, <2>3, <3>3, StartHistory DEF walk
  <2>4. CASE t # u
    <3>1. Starting(t)' => Starting(t)
      BY <2>2, <2>4 DEF Starting, TypeOK
    <3> QED BY <1>9, <2>1, <2>2, <2>4, <3>1
  <2> QED BY <2>3, <2>4
<1>12. ASSUME NEW c \in Client, StartMode(c) PROVE HistoryAt(t)'
  <2>1. PICK u \in Id : u = starting[c].on
    BY <1>12, StartingIs DEF StartMode
  <2>2. Listed(u) /\ Starting(u) /\ starting[c].mode \in Modes
    BY <1>12, <2>1, StartingIs DEF StartMode, Modes
  <2>3. /\ UNCHANGED <<handler, now, list, walk, history>>
        /\ timer' = [timer EXCEPT ![u] = [timer[u] EXCEPT !.mode = starting[c].mode]]
        /\ starting' = [starting EXCEPT ![c] = NoStart]
    BY <1>12, <2>1 DEF StartMode
  <2>4. Listed(t) /\ t \notin mixed /\ t \in DOMAIN timer
    BY <2>3 DEF Listed, list, history, TypeOK
  <2>5. Starting(t)' => Starting(t)
    BY <1>1, <2>3 DEF Starting, TypeOK, NoStart
  <2>6. CASE t = u
    <3>1. ~InVisit(t) /\ Starting(t)
      BY <2>2, <2>4, <2>6 DEF MixInv
    <3>2. timer' = [timer EXCEPT ![t] = [timer[t] EXCEPT !.mode = starting[c].mode]]
      BY <2>3, <2>6
    <3>3. HistoryAt(t)
      BY <1>2, <2>4
    <3>4. UNCHANGED <<since, fires>> /\ UNCHANGED <<handler, now, cursor, phase, arg, left, last_tick>>
      BY <2>3 DEF walk, history
    <3> QED BY <2>2, <2>4, <2>5, <3>1, <3>2, <3>3, <3>4, ModeHistory
  <2>7. CASE t # u
    <3>1. timer'[t] = timer[t]
      BY <2>3, <2>4, <2>7
    <3> QED BY <1>1, <1>3, <2>3, <2>4, <2>5, <3>1 DEF walk, history
  <2> QED BY <2>6, <2>7
<1>13. CASE HandlerSystick
  <2>1. /\ phase = "idle" /\ UNCHANGED <<handler, now, timer_lst, timer, cursor, left, starting>>
        /\ UNCHANGED <<since, fires, mixed>> /\ last_tick' \in {last_tick, now}
    BY <1>13 DEF HandlerSystick, history, list
  <2>2. Listed(t) /\ t \notin mixed /\ cursor = NoId
    BY <2>1 DEF Listed, WalkInv
  <2>3. /\ Stage(t) = "away" /\ Stage(t)' = "away" /\ ~Serving(t)'
        /\ CountedFor(t) = last_tick /\ CountedFor(t)' = last_tick'
    BY <1>1, <2>1, <2>2 DEF Stage, Serving, CountedFor
  <2>4. last_tick' \in Nat /\ last_tick <= last_tick'
    BY <1>1, <2>1
  <2> QED BY <1>4, <2>1, <2>2, <2>3, <2>4
\* The walk begins.
<1>14. ASSUME NEW a \in Nat, Walk(a), cursor = NoId, UNCHANGED timer_lst
       PROVE  /\ Stage(t) = "away" /\ Stage(t)' = "away" /\ ~Serving(t)'
              /\ CountedFor(t) = last_tick
              /\ CountedFor(t)' = last_tick' \/ CountedFor(t)' = last_tick' - a
  <2>1. /\ cursor' # NoId => phase' = "node" /\ arg' = a
    BY <1>14 DEF Walk, StandOn
  <2> QED BY <1>1, <1>14, <2>1 DEF Stage, Serving, CountedFor
<1>15. CASE HandlerLast
  <2>1. /\ phase = "diff" /\ Walk(arg) /\ last_tick' = now
        /\ UNCHANGED <<handler, now, timer_lst, timer, starting, since, fires, mixed>>
    BY <1>15 DEF HandlerLast, list
  <2>2. Listed(t) /\ t \notin mixed /\ cursor = NoId /\ last_tick + arg <= now
    BY <2>1 DEF Listed, WalkInv
  <2>3. /\ Stage(t) = "away" /\ Stage(t)' = "away" /\ ~Serving(t)'
        /\ CountedFor(t) = last_tick
        /\ CountedFor(t)' = now \/ CountedFor(t)' = now - arg
    BY <1>1, <1>14, <2>1, <2>2
  <2>4. CountedFor(t)' \in Int /\ CountedFor(t) <= CountedFor(t)'
    BY <1>1, <2>2, <2>3
  <2> QED BY <1>1, <1>4, <2>1, <2>2, <2>3, <2>4
<1>16. CASE HandlerUptime
  <2>1. /\ phase = "idle" /\ Walk(now) /\ ~Systick
        /\ UNCHANGED <<handler, now, last_tick, timer_lst, timer, starting, since, fires, mixed>>
    BY <1>16 DEF HandlerUptime, list
  <2>2. Listed(t) /\ t \notin mixed /\ cursor = NoId
    BY <2>1 DEF Listed, WalkInv
  <2>3. Stage(t) = "away" /\ Stage(t)' = "away" /\ ~Serving(t)'
    BY <1>1, <1>14, <2>1, <2>2
  <2> QED BY <1>1, <1>4, <2>1, <2>2, <2>3
\* The walk leaves another timer, or this one at once.
<1>17. ASSUME StandOn(NextNode(cursor), arg), cursor # NoId, t # cursor \/ phase = "node",
              UNCHANGED <<handler, now, last_tick, timer_lst, starting, since, fires, mixed>>,
              timer'[t] = timer[t]
       PROVE  HistoryAt(t)'
  <2>1. Listed(t) /\ t \notin mixed
    BY <1>17 DEF Listed
  <2>2. /\ Stage(t)' = "away" /\ ~Serving(t)'
        /\ CountedFor(t)' = IF t = cursor THEN last_tick ELSE CountedFor(t)
    BY <1>17, <2>1, CountGoesOn
  <2>3. Stage(t) = "away"
    BY <1>17 DEF Stage
  <2>4. Systick => CountedFor(t) \in Nat /\ CountedFor(t) <= last_tick
    BY CountedRange
  <2>5. Systick => CountedFor(t)' \in Int /\ CountedFor(t) <= CountedFor(t)'
    BY <1>1, <2>2, <2>4
  <2> QED BY <1>1, <1>4, <1>17, <2>1, <2>2, <2>3, <2>5
<1>18. CASE Skip
  <2>1. /\ phase = "node" /\ StandOn(NextNode(cursor), arg)
        /\ UNCHANGED <<handler, now, last_tick, timer_lst, timer, starting, since, fires, mixed>>
    BY <1>18 DEF Skip, history, list
  <2>2. cursor # NoId
    BY <2>1 DEF WalkInv
  <2> QED BY <1>17, <2>1, <2>2
<1>19. CASE Count \/ Due
  <2>1. /\ UNCHANGED <<handler, now, last_tick, timer_lst, timer, cursor, arg, starting, since, fires>>
        /\ t \notin mixed
    BY <1>19 DEF Count, Due, TakeUp, list
  <2>2. Listed(t) /\ HistoryAt(t)
    BY <1>2, <2>1 DEF Listed
  <2>3. CASE t = cursor
    BY <1>19, <2>2, <2>3, CountHistory, DueHistory
  <2>4. CASE t # cursor
    BY <1>5, <2>1, <2>2, <2>4
  <2> QED BY <2>3, <2>4
<1>20. CASE CountStore
  <2>1. /\ phase = "count" /\ timer' = [timer EXCEPT ![cursor].countdown = left]
        /\ UNCHANGED <<handler, now, last_tick, timer_lst, starting, since, fires, mixed>>
        /\ \/ UNCHANGED <<cursor, arg>>
           \/ StandOn(NextNode(cursor), arg)
    BY <1>20 DEF CountStore, history, list
  <2>2. Listed(t) /\ t \notin mixed /\ HistoryAt(t) /\ cursor # NoId
    BY <1>2, <2>1 DEF Listed, WalkInv
  <2>3. CASE t = cursor
    BY <1>20, <2>2, <2>3, CountStoreHistory
  <2>4. CASE t # cursor
    <3>1. timer'[t] = timer[t]
      BY <2>1, <2>2, <2>4 DEF TypeOK, Listed
    <3>2. CASE UNCHANGED <<cursor, arg>>
      BY <1>5, <2>1, <2>2, <2>4, <3>1, <3>2
    <3>3. CASE StandOn(NextNode(cursor), arg)
      BY <1>17, <2>1, <2>2, <2>4, <3>1, <3>3
    <3> QED BY <2>1, <3>2, <3>3
  <2> QED BY <2>3, <2>4
<1>21. CASE Fire \/ Return
  <2>1. /\ phase \in {"call", "callback"} /\ t \notin mixed
        /\ UNCHANGED <<handler, now, last_tick, timer_lst, timer, cursor, arg, starting, since>>
        /\ fires' = fires \/ fires' = [fires EXCEPT ![cursor] = @ + 1]
    BY <1>21 DEF Fire, Return, history, list
  <2>2. Listed(t) /\ HistoryAt(t)
    BY <1>2, <2>1 DEF Listed
  <2>3. CASE t = cursor
    <3>1. ~Starting(t)
      BY <2>1, <2>3 DEF MixInv, InVisit
    <3> QED BY <1>21, <2>2, <2>3, <3>1, FireHistory, ReturnHistory
  <2>4. CASE t # cursor
    <3>1. fires'[t] = fires[t]
      BY <2>1, <2>4 DEF TypeOK
    <3> QED BY <1>5, <2>1, <2>2, <2>4, <3>1
  <2> QED BY <2>3, <2>4
<1>22. CASE Settle
  <2>1. /\ phase \in {"reload", "disable"} /\ StandOn(NextNode(cursor), arg)
        /\ UNCHANGED <<handler, now, last_tick, timer_lst, starting, since, fires, mixed>>
        /\ timer' = [timer EXCEPT ![cursor] =
                       IF phase = "reload" THEN Reload(@) ELSE [@ EXCEPT !.mode = "DISABLED"]]
    BY <1>22 DEF Settle, Leave, history, list
  <2>2. Listed(t) /\ t \notin mixed /\ HistoryAt(t) /\ cursor # NoId
    BY <1>2, <2>1 DEF Listed, WalkInv
  <2>3. CASE t = cursor
    <3>1. ~Starting(t)
      BY <2>1, <2>2, <2>3 DEF MixInv, InVisit
    <3> QED BY <1>22, <2>2, <2>3, <3>1, SettleHistory
  <2>4. CASE t # cursor
    <3>1. timer'[t] = timer[t]
      BY <2>1, <2>2, <2>4 DEF TypeOK, Listed
    <3> QED BY <1>17, <2>1, <2>2, <2>4, <3>1
  <2> QED BY <2>3, <2>4
<1>23. CASE Clock \/ UNCHANGED vars
  <2>1. /\ UNCHANGED <<handler, timer_lst, timer, cursor, phase, arg, left, last_tick>>
        /\ UNCHANGED <<starting, since, fires, mixed>>
        /\ now' = now \/ now' = now + 1
    BY <1>23 DEF Clock, vars, list, walk, history
  <2>2. Listed(t) /\ t \notin mixed /\ now' \in Nat /\ now <= now' /\ (Starting(t)' => Starting(t))
    BY <1>1, <2>1 DEF Listed, Starting
  <2> QED BY <1>3, <2>1, <2>2
<1> QED
  BY <1>6, <1>7, <1>8, <1>10, <1>11, <1>12, <1>13, <1>15, <1>16, <1>18, <1>19, <1>20, <1>21,
     <1>22, <1>23 DEF Next

LEMMA TimerInvariant == Spec => []TimerInv
<1>1. TimerInv /\ [Next]_vars => TimerInv'
  <2> SUFFICES ASSUME TimerInv, [Next]_vars
               PROVE  TimerInv'
    OBVIOUS
  <2>1. TypeOK' /\ ListInv' /\ WalkInv' /\ MixInv'
    BY TypeStep, ListStep, WalkStep, MixStep DEF TimerInv
  <2>2. \A t \in Id : Listed(t)' /\ t \notin mixed' => HistoryAt(t)'
    BY HistoryStep
  <2> QED BY <2>1, <2>2 DEF TimerInv
<1> QED BY <1>1, TimerInit, PTL DEF Spec

\* Timer.TypeOK: the list holds known ids, every timer of the list has its
\* fields, every start under way is one of a listed timer, and the walk of
\* list_foreach stands on a node of the list or on none, whatever the callbacks
\* create and destroy under it.
THEOREM TimerTypes == Spec => []TypeOK
<1>1. TimerInv => TypeOK
  BY DEF TimerInv
<1> QED BY <1>1, TimerInvariant, PTL

\* No callback comes before its time: for any number of timers and of other
\* tasks, any periods and any interleaving of starts and cancels with the single
\* steps of either handler, the n-th firing of a timer comes at least n periods
\* after ucx_timer_start; only a timer whose start and whose visit by the
\* handler overlapped may be early.
THEOREM TimerNeverEarly == Spec => []NeverEarly
<1>1. TimerInv => NeverEarly
  BY DEF TimerInv, NeverEarly, Mixed, HistoryAt, Base
<1> QED BY <1>1, TimerInvariant, PTL

\* An auto-reload timer of the uptime handler keeps its phase: timer_update
\* adds the period to the compare value and never to the time of the call. The
\* exception is again the timer whose start and visit overlapped.
THEOREM TimerKeepsPhase == Spec => []KeepsPhase
<1>1. TimerInv => KeepsPhase
  <2> SUFFICES ASSUME TimerInv, NEW t \in Id, ~Systick, Listed(t), t \notin mixed,
                      timer[t].mode = "AUTORELOAD", ~Serving(t)
               PROVE  timer[t].timecmp = since[t] + (fires[t] + 1) * timer[t].time
    BY DEF KeepsPhase, Mixed
  <2>1. TypeOK /\ UptimeAt(t) /\ WillFire(t)
    BY DEF TimerInv, HistoryAt, WillFire
  <2>2. timer[t].timecmp = (since[t] + fires[t] * timer[t].time) + timer[t].time
    BY <2>1 DEF UptimeAt, Base
  <2>3. since[t] \in Nat /\ fires[t] \in Nat /\ timer[t].time \in Nat
    BY <2>1, ListedFields
  <2>4. \A a, b, c \in Nat : a + (b + 1) * c = (a + b * c) + c
    OBVIOUS
  <2> QED BY <2>2, <2>3, <2>4
<1> QED BY <1>1, TimerInvariant, PTL

\* One pass of a handler calls back every timer that was due when it began and
\* was left alone since, and a single shot is called back once: the walk loses
\* no node to a callback that destroys or creates timers, nor to a task that
\* starts or cancels them under it.
THEOREM TimerPassServesAll == Spec => []PassServesAll
<1>1. TimerInv => PassServesAll
  BY DEF TimerInv, PassServesAll, Mixed, WalkInv, HistoryAt
<1> QED BY <1>1, TimerInvariant, PTL
=============================================================================
