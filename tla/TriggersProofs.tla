---------------------------- MODULE TriggersProofs ----------------------------
(***************************************************************************)
(* The safety properties of Triggers, for any triggers, crons, ceilings    *)
(* and clock: no trigger has more live runs than its overlap policy        *)
(* allows, and cron creates at most one run for the slots it missed.       *)
(***************************************************************************)
EXTENDS Triggers, WellFoundedInduction, TLAPS

(***************************************************************************)
(* The next slot                                                           *)
(***************************************************************************)
\* A set of numbers that is not empty has a least one.
LEMMA HasLeast ==
  ASSUME NEW S \in SUBSET Nat, S # {}
  PROVE  \E s \in S : \A u \in S : s <= u
<1> DEFINE R == {ss \in Nat \X Nat : ss[1] < ss[2]}
<1>1. IsWellFoundedOn(R, Nat)
  BY NatLessThanWellFounded DEF OpToRel
<1>2. \E s \in S : \A u \in S : ~(<<u, s>> \in R)
  <2> HIDE DEF R
  <2> QED
    BY <1>1, WFMin
<1>3. PICK s \in S : \A u \in S : ~(u < s)
  BY <1>2
<1> QED
  BY <1>3

\* The next fire is a slot of the cron, or never, and always ahead.
LEMMA NextFireType ==
  ASSUME NEW row \in Rows, NEW now \in Time
  PROVE  /\ NextFire(row, now) \in SlotsOf[row.cron] \cup {Never}
         /\ NextFire(row, now) \in Time \cup {Never}
         /\ NextFire(row, now) > now
<1> DEFINE S == {s \in SlotsOf[row.cron] \cup {Never} : s > now}
<1> USE TriggersAssumption
<1>1. SlotsOf[row.cron] \subseteq Slots
  BY DEF Rows
<1>2. Never \in Nat /\ Never > now
  BY DEF Never, Time
<1>3. S \in SUBSET Nat /\ S # {}
  <2>1. Never \in S
    BY <1>2
  <2> QED
    BY <1>1, <1>2, <2>1 DEF Slots
<1>4. \E s \in S : \A u \in S : s <= u
  <2> HIDE DEF S
  <2> QED
    BY <1>3, HasLeast
<1>5. \E s \in SlotsOf[row.cron] \cup {Never} :
        s > now /\ \A u \in SlotsOf[row.cron] : u > now => s <= u
  BY <1>4
<1>6. NextFire(row, now) \in SlotsOf[row.cron] \cup {Never} /\ NextFire(row, now) > now
  BY <1>5 DEF NextFire
<1> QED
  BY <1>1, <1>6 DEF Slots, Time

\* A trigger is created with the first slot of its cron.
LEMMA CreatedType ==
  ASSUME NEW t \in Triggers
  PROVE  /\ Created(t) \in Rows /\ Created(t).here /\ Created(t).cron = CronOf[t]
         /\ Created(t).ceiling = CeilingOf[t]
         /\ Created(t).next \in SlotsOf[CronOf[t]] \cup {Never} /\ Created(t).next > 0
<1> DEFINE row == [here |-> TRUE, enabled |-> TRUE, cron |-> CronOf[t], next |-> 0,
                   pipeline |-> PipelineOf[t], ceiling |-> CeilingOf[t]]
<1>1. row \in Rows /\ row.cron = CronOf[t] /\ 0 \in Time
  BY TriggersAssumption DEF Rows, Time
<1>2. /\ NextFire(row, 0) \in SlotsOf[CronOf[t]] \cup {Never}
      /\ NextFire(row, 0) \in Time \cup {Never} /\ NextFire(row, 0) > 0
  <2> HIDE DEF row
  <2> QED
    BY <1>1, NextFireType
<1>3. Created(t) = [row EXCEPT !.next = NextFire(row, 0)]
  BY DEF Created
<1> QED
  BY <1>1, <1>2, <1>3 DEF Rows

\* A task at rest is one.
LEMMA IdleType ==
  ASSUME NEW t \in Triggers
  PROVE  /\ Idle(t) \in TaskStates /\ Idle(t).step = "idle"
         /\ Idle(t).of = t /\ Idle(t).row.ceiling = CeilingOf[t]
  BY CreatedType, TriggersAssumption DEF Idle, TaskStates, Steps, Time

\* A trigger exists for the tick to rest on.
LEMMA RestType ==
  /\ SomeTrigger \in Triggers
  /\ Rest \in [Tasks -> TaskStates]
  /\ \A k \in Tasks : Rest[k].step = "idle" /\ Rest[k].row.ceiling = CeilingOf[Rest[k].of]
<1>1. SomeTrigger \in Triggers
  BY TriggersAssumption DEF SomeTrigger
<1> QED
  BY <1>1, IdleType DEF Rest, Tasks

(***************************************************************************)
(* The inductive invariant                                                 *)
(***************************************************************************)
\* A task that has counted and is to create a run still finds room for it.
Admitted ==
  \A k \in Tasks :
    task[k].of \in Bounded
    /\ (task[k].step = "create" \/ (task[k].step = "guard" /\ ~task[k].over)) =>
      live[task[k].of] < CeilingOf[task[k].of]

\* A trigger nobody edits has its ceiling in its row and wherever it was read.
Rated ==
  \A t \in Triggers \ Edited :
    /\ rows[t].ceiling = CeilingOf[t] /\ seen[t].ceiling = CeilingOf[t]
    /\ \A k \in Tasks : task[k].of = t => task[k].row.ceiling = CeilingOf[t]

\* A slot of the trigger's cron that no run was created for.
Pending(t, row) ==
  /\ row.cron = CronOf[t]
  /\ row.next \in SlotsOf[CronOf[t]] \cup {Never}
  /\ last[t] < row.next

\* A trigger nobody edits waits for a slot it was not run for.
Scheduled == \A t \in Steady : rows[t].here /\ Pending(t, rows[t])

\* So does every trigger the tick has listed, and the slot is due.
Listed ==
  /\ task[Tick].step = "idle" => due = {}
  /\ \A t \in due \cap Steady : Pending(t, seen[t]) /\ seen[t].next <= task[Tick].now

\* And the one it is at, whose next slot is ahead once it is decided on.
Firing ==
  task[Tick].step \in {"count", "guard", "create"} =>
    LET t == task[Tick].of
    IN  /\ t \notin due
        /\ t \in Steady =>
             /\ Pending(t, task[Tick].row) /\ task[Tick].row.next <= task[Tick].now
             /\ task[Tick].step = "create" => task[Tick].now < rows[t].next

\* A request is for the trigger it is named after.
Own == \A t \in Triggers : task[t].of = t

Inv == TypeOK /\ Own /\ CeilingHolds /\ Admitted /\ Rated /\ Scheduled /\ Listed /\ Firing

\* Everything is at rest when the daemon first starts.
LEMMA InitInv == Init => Inv
<1> SUFFICES ASSUME Init PROVE Inv
  OBVIOUS
<1> USE TriggersAssumption, NoTaskAssumption
<1>1. TypeOK
  <2>1. rows \in [Triggers -> Rows] /\ seen = rows
    BY CreatedType DEF Init
  <2>2. clock \in Time /\ crashes \in 0..MaxCrashes /\ 0 \in Time
    BY DEF Init, Time
  <2>3. live \in [Triggers -> Nat] /\ last \in [Triggers -> Time]
    BY <2>2 DEF Init
  <2>4. task \in [Tasks -> TaskStates] /\ \A k \in Tasks : task[k].step = "idle"
    BY RestType DEF Init
  <2> QED
    BY <2>1, <2>2, <2>3, <2>4 DEF Init, TypeOK
<1>2. Own /\ CeilingHolds /\ Admitted /\ Rated
  <2>1. \A t \in Triggers : live[t] = 0 /\ CeilingOf[t] \in Nat
    BY DEF Init
  <2>2. \A k \in Tasks : task[k].step = "idle" /\ task[k].row.ceiling = CeilingOf[task[k].of]
    BY RestType DEF Init
  <2>3. Rated
    BY <2>2, CreatedType DEF Init, Rated
  <2>4. Own
    BY IdleType DEF Init, Rest, Own, Tasks
  <2> QED
    BY <2>1, <2>2, <2>3, <2>4 DEF CeilingHolds, Admitted, Bounded
<1>3. Scheduled
  BY CreatedType DEF Init, Scheduled, Pending, Steady
<1>4. Listed /\ Firing
  <2>1. task[Tick].step = "idle" /\ due = {}
    BY RestType DEF Init, Tasks
  <2> QED
    BY <2>1 DEF Listed, Firing
<1> QED
  BY <1>1, <1>2, <1>3, <1>4 DEF Inv

(***************************************************************************)
(* Each step keeps the invariant                                           *)
(***************************************************************************)
\* The tick takes the lock and notes the time.
LEMMA TickStartInv == Inv /\ TickStart => Inv'
<1> SUFFICES ASSUME Inv, TickStart PROVE Inv'
  OBVIOUS
<1> DEFINE T == task[Tick]
<1>1. UNCHANGED <<world, due, seen, crashes>> /\ Tick \in Tasks /\ T \in TaskStates
  BY DEF TickStart, Tasks, Inv, TypeOK
<1>2. /\ task' = [task EXCEPT ![Tick] = [T EXCEPT !.step = "list", !.now = clock]]
      /\ T.step = "idle" /\ lock = NoTask /\ lock' = Tick /\ due = {}
  BY DEF TickStart, Inv, Listed
<1>3. /\ task' \in [Tasks -> TaskStates] /\ task'[Tick].step = "list"
      /\ task'[Tick].of = T.of /\ task'[Tick].row = T.row
  BY <1>1, <1>2 DEF Inv, TypeOK, TaskStates, Steps
<1>4. \A k \in Tasks \ {Tick} : task'[k] = task[k] /\ task[k].step \in {"idle", "asked"}
  BY <1>1, <1>2, NoTaskAssumption DEF Inv, TypeOK
<1>5. TypeOK'
  BY <1>1, <1>2, <1>3, <1>4 DEF Inv, TypeOK, world
<1>6. CeilingHolds' /\ Admitted' /\ Rated' /\ Own'
  BY <1>1, <1>3, <1>4, TriggersAssumption DEF Inv, CeilingHolds, Admitted, Rated, Own, Tasks, world
<1>7. Scheduled' /\ Listed' /\ Firing'
  BY <1>1, <1>2, <1>3 DEF Inv, Scheduled, Listed, Firing, Pending, world
<1> QED
  BY <1>5, <1>6, <1>7 DEF Inv

\* A tick that ends leaves nothing behind.
LEMMA EndTickInv ==
  ASSUME Inv, EndTick, UNCHANGED <<world, crashes>>, task[Tick].step \notin {"idle", "asked"}
  PROVE  Inv'
<1>1. task' = [task EXCEPT ![Tick] = Idle(SomeTrigger)] /\ Tick \in Tasks
  BY DEF EndTick, Tasks
<1>2. /\ task' \in [Tasks -> TaskStates] /\ task'[Tick].step = "idle"
      /\ task'[Tick].row.ceiling = CeilingOf[task'[Tick].of]
  BY <1>1, RestType, IdleType DEF Inv, TypeOK
<1>3. lock = Tick
  BY <1>1 DEF Inv, TypeOK
<1>4. \A k \in Tasks \ {Tick} : task'[k] = task[k] /\ task[k].step \in {"idle", "asked"}
  BY <1>1, <1>3 DEF Inv, TypeOK
<1>5. /\ due' = {} /\ lock' = NoTask /\ seen' \in [Triggers -> Rows]
      /\ \A t \in Triggers : seen'[t].ceiling = CeilingOf[t]
  BY CreatedType DEF EndTick
<1>6. TypeOK'
  BY <1>2, <1>4, <1>5 DEF Inv, TypeOK, world
<1>7. CeilingHolds' /\ Admitted' /\ Rated' /\ Own'
  <2>1. ASSUME NEW k \in Tasks
        PROVE  task'[k] = task[k] \/ task'[k].row.ceiling = CeilingOf[task'[k].of]
    <3>1. CASE k = Tick
      BY <1>2, <3>1
    <3>2. CASE k # Tick
      BY <1>4, <3>2
    <3> QED
      BY <3>1, <3>2
  <2>2. Rated'
    BY <1>5, <2>1 DEF Inv, Rated, world
  <2> QED
    BY <1>2, <1>4, <2>2, TriggersAssumption DEF Inv, CeilingHolds, Admitted, Own, Tasks, world
<1>8. Scheduled' /\ Listed' /\ Firing'
  BY <1>2, <1>5 DEF Inv, Scheduled, Listed, Firing, Pending, world
<1> QED
  BY <1>6, <1>7, <1>8 DEF Inv

\* The list is of the rows that are due.
LEMMA TickListInv == Inv /\ TickList => Inv'
<1> SUFFICES ASSUME Inv, TickList PROVE Inv'
  OBVIOUS
<1>1. CASE paused /\ EndTick
  BY <1>1, EndTickInv DEF TickList
<1>2. CASE ~paused /\ UNCHANGED lock
  <2>1. /\ task[Tick].step = "list" /\ Tick \in Tasks /\ UNCHANGED <<world, crashes, lock>>
        /\ task' = [task EXCEPT ![Tick].step = "next"]
        /\ due' = {t \in Triggers : rows[t].here /\ rows[t].enabled /\ rows[t].next <= task[Tick].now}
        /\ seen' = [t \in Triggers |-> IF t \in due' THEN rows[t] ELSE Created(t)]
    BY <1>2, NoTaskAssumption, EndTickInv DEF TickList, EndTick, Goto, Tasks, Inv, TypeOK
  <2>2. /\ task' \in [Tasks -> TaskStates] /\ task'[Tick].step = "next"
        /\ task'[Tick].now = task[Tick].now
        /\ task'[Tick].of = task[Tick].of /\ task'[Tick].row = task[Tick].row
        /\ \A k \in Tasks \ {Tick} : task'[k] = task[k]
    BY <2>1 DEF Inv, TypeOK, TaskStates, Steps
  <2>3. /\ due' \subseteq Triggers /\ seen' \in [Triggers -> Rows]
        /\ \A t \in Triggers \ Edited : seen'[t].ceiling = CeilingOf[t]
    BY <2>1, CreatedType DEF Inv, TypeOK, Rated
  <2>4. TypeOK'
    BY <2>1, <2>2, <2>3 DEF Inv, TypeOK, world
  <2>5. CeilingHolds' /\ Admitted' /\ Rated' /\ Own'
    BY <2>1, <2>2, <2>3, TriggersAssumption DEF Inv, CeilingHolds, Admitted, Rated, Own, Tasks, world
  <2>6. Scheduled'
    BY <2>1 DEF Inv, Scheduled, Pending, world
  <2>7. Listed' /\ Firing'
    BY <2>1, <2>2 DEF Inv, Scheduled, Listed, Firing, Pending, world
  <2> QED
    BY <2>4, <2>5, <2>6, <2>7 DEF Inv
<1> QED
  BY <1>1, <1>2 DEF TickList

\* A trigger is taken off the list before it is looked at; one that cannot be
\* loaded has no slot any more.
LEMMA TickNextInv == Inv /\ TickNext => Inv'
<1> SUFFICES ASSUME Inv, TickNext PROVE Inv'
  OBVIOUS
<1> DEFINE T == task[Tick]
<1>1. T.step = "next" /\ Tick \in Tasks /\ T \in TaskStates /\ crashes' = crashes
  BY DEF TickNext, Tasks, Inv, TypeOK
<1>2. CASE EndTick /\ UNCHANGED world
  BY <1>1, <1>2, EndTickInv
<1>3. ASSUME NEW t \in Triggers, t \in due, due' = due \ {t}, Dangling(seen[t]),
             SetNextFire(t, Never), UNCHANGED task,
             UNCHANGED <<clock, paused, broken, live, ended, revived, last, seen, lock>>
      PROVE  Inv'
  <2>1. rows' = [rows EXCEPT ![t].next = IF rows[t].here THEN Never ELSE @] \/ rows' = rows
    BY <1>3 DEF SetNextFire
  <2>2. rows' \in [Triggers -> Rows]
    BY <2>1 DEF Inv, TypeOK, Rows
  <2>3. TypeOK'
    BY <1>1, <1>3, <2>2 DEF Inv, TypeOK
  <2>4. CeilingHolds' /\ Admitted' /\ Rated' /\ Own'
    <3>1. \A u \in Triggers : rows'[u].ceiling = rows[u].ceiling
      BY <2>1 DEF Inv, TypeOK, Rows
    <3> QED
      BY <1>3, <3>1 DEF Inv, CeilingHolds, Admitted, Rated, Own
  <2>5. ASSUME NEW u \in Steady PROVE rows'[u].here /\ Pending(u, rows[u])'
    <3>1. rows[u].here /\ Pending(u, rows[u])
      BY DEF Inv, Scheduled
    <3>2. rows'[u] = rows[u] \/ rows'[u] = [rows[u] EXCEPT !.next = Never]
      BY <2>1, <3>1 DEF Inv, TypeOK, Steady
    <3>3. rows[u] \in Rows /\ last[u] \in Time /\ Never > last[u]
      BY TriggersAssumption DEF Inv, TypeOK, Time, Never, Steady
    <3> QED
      BY <1>3, <3>1, <3>2, <3>3 DEF Pending, Rows
  <2>6. Listed' /\ Firing'
    BY <1>1, <1>3 DEF Inv, Listed, Firing, Pending
  <2> QED
    BY <2>3, <2>4, <2>5, <2>6 DEF Inv, Scheduled
<1>4. ASSUME NEW t \in Triggers, t \in due, due' = due \ {t}, UNCHANGED rows,
             task' = [task EXCEPT ![Tick] = [T EXCEPT !.step = "count", !.of = t, !.row = seen[t]]],
             UNCHANGED <<clock, paused, broken, live, ended, revived, last, seen, lock>>
      PROVE  Inv'
  <2>1. /\ task' \in [Tasks -> TaskStates] /\ task'[Tick].step = "count"
        /\ task'[Tick].of = t /\ task'[Tick].row = seen[t] /\ task'[Tick].now = T.now
        /\ \A k \in Tasks \ {Tick} : task'[k] = task[k]
    BY <1>1, <1>4 DEF Inv, TypeOK, TaskStates, Steps
  <2>2. TypeOK'
    BY <1>1, <1>4, <2>1 DEF Inv, TypeOK
  <2>3. CeilingHolds' /\ Admitted' /\ Scheduled' /\ Own'
    BY <1>4, <2>1, TriggersAssumption
      DEF Inv, CeilingHolds, Admitted, Scheduled, Pending, Own, Tasks
  <2>5. Rated'
    BY <1>4, <2>1 DEF Inv, Rated
  <2>4. Listed' /\ Firing'
    BY <1>4, <2>1 DEF Inv, Listed, Firing, Pending
  <2> QED
    BY <2>2, <2>3, <2>4, <2>5 DEF Inv
<1> QED
  BY <1>2, <1>3, <1>4 DEF TickNext, Earliest

\* A request changes the state of its own task only.
LEMMA RequestInv ==
  ASSUME Inv, NEW t \in Triggers, Click(t) \/ ClickLock(t) \/ HangUp(t)
  PROVE  Inv'
<1>1. /\ UNCHANGED <<world, due, seen, crashes>> /\ t \in Tasks /\ t # Tick /\ Tick \in Tasks
      /\ task[t] \in TaskStates /\ rows[t] \in Rows
  BY TriggersAssumption DEF Click, ClickLock, HangUp, Tasks, Inv, TypeOK
<1>2. /\ task' \in [Tasks -> TaskStates] /\ task'[t].step \notin {"create", "guard"}
      /\ \A k \in Tasks \ {t} : task'[k] = task[k]
      /\ Click(t) => task'[t].step = "asked"
      /\ task'[t].of \notin Edited => task'[t].row.ceiling = CeilingOf[task'[t].of]
  <2>1. CASE Click(t)
    <3> DEFINE row == [task[t].row EXCEPT !.ceiling = rows[t].ceiling]
    <3>1. row \in Rows /\ row.ceiling = rows[t].ceiling
      BY <1>1 DEF TaskStates, Rows
    <3>2. task' = [task EXCEPT ![t] = [task[t] EXCEPT !.step = "asked", !.row = row]]
      BY <2>1 DEF Click
    <3> HIDE DEF row
    <3>3. [task[t] EXCEPT !.step = "asked", !.row = row] \in TaskStates
      BY <1>1, <3>1 DEF TaskStates, Steps
    <3>4. /\ task' \in [Tasks -> TaskStates] /\ task'[t].step = "asked"
          /\ task'[t].of = task[t].of /\ task'[t].row = row
          /\ \A k \in Tasks \ {t} : task'[k] = task[k]
      BY <1>1, <3>2, <3>3 DEF Inv, TypeOK, TaskStates
    <3>5. task[t].of = t
      BY <1>1 DEF Inv, Own
    <3>6. t \notin Edited => rows[t].ceiling = CeilingOf[t]
      BY DEF Inv, Rated
    <3> QED
      BY <3>1, <3>4, <3>5, <3>6
  <2>2. CASE ClickLock(t)
    <3>1. /\ task' \in [Tasks -> TaskStates] /\ task'[t].step = "count"
          /\ task'[t].of = task[t].of /\ task'[t].row = task[t].row
          /\ \A k \in Tasks \ {t} : task'[k] = task[k]
      BY <1>1, <2>2 DEF ClickLock, Goto, Inv, TypeOK, TaskStates, Steps
    <3>2. task[t].of \in Triggers
      BY <1>1 DEF TaskStates
    <3>3. ~Click(t)
      BY <2>2 DEF Click, ClickLock
    <3> QED
      BY <1>1, <3>1, <3>2, <3>3 DEF Inv, Rated
  <2>3. CASE HangUp(t)
    BY <1>1, <2>3, IdleType DEF HangUp, Click, Inv, TypeOK
  <2> QED
    BY <2>1, <2>2, <2>3
<1>3. /\ lock' \in Tasks \cup {NoTask}
      /\ \A k \in Tasks : task'[k].step \notin {"idle", "asked"} => lock' = k
  <2>1. CASE Click(t)
    <3>1. task'[t].step = "asked" /\ lock' = lock
      BY <1>2, <2>1 DEF Click
    <3> QED
      BY <1>2, <3>1 DEF Inv, TypeOK
  <2>2. CASE ClickLock(t)
    <3>1. lock = NoTask /\ lock' = t
      BY <2>2 DEF ClickLock
    <3> QED
      BY <1>1, <1>2, <3>1, NoTaskAssumption DEF Inv, TypeOK
  <2>3. CASE HangUp(t)
    <3>1. task'[t].step = "idle" /\ lock' = IF lock = t THEN NoTask ELSE lock
      BY <1>1, <2>3, IdleType DEF HangUp, Inv, TypeOK
    <3> QED
      BY <1>2, <3>1 DEF Inv, TypeOK
  <2> QED
    BY <2>1, <2>2, <2>3
<1>4. TypeOK'
  BY <1>1, <1>2, <1>3 DEF Inv, TypeOK, world
<1>5. CeilingHolds' /\ Admitted' /\ Scheduled' /\ Own'
  <2>1. task \in [Tasks -> TaskStates] /\ task[t].of = t
    BY <1>1 DEF Inv, TypeOK, Own
  <2>2. task'[t].of = t
    <3>1. CASE Click(t)
      BY <1>1, <2>1, <3>1 DEF Click, TaskStates
    <3>2. CASE ClickLock(t)
      BY <1>1, <2>1, <3>2 DEF ClickLock, Goto, TaskStates
    <3>3. CASE HangUp(t)
      BY <1>1, <2>1, <3>3, IdleType DEF HangUp
    <3> QED
      BY <3>1, <3>2, <3>3
  <2>3. Own'
    <3>1. ASSUME NEW u \in Triggers PROVE task'[u].of = u
      <4>1. CASE u = t
        BY <2>2, <4>1
      <4>2. CASE u # t
        <5>1. task'[u] = task[u]
          BY <1>2, <4>2 DEF Tasks
        <5> QED
          BY <5>1 DEF Inv, Own
      <4> QED
        BY <4>1, <4>2
    <3> QED
      BY <3>1 DEF Own
  <2>4. Admitted'
    <3>1. ASSUME NEW k \in Tasks, task'[k].step \in {"create", "guard"} PROVE task'[k] = task[k]
      BY <1>2, <3>1
    <3> QED
      BY <1>1, <3>1 DEF Inv, Admitted, world
  <2> QED
    BY <1>1, <2>3, <2>4 DEF Inv, CeilingHolds, Scheduled, Pending, world
<1>7. Rated'
  <2> SUFFICES ASSUME NEW u \in Triggers \ Edited, NEW k \in Tasks, task'[k].of = u
               PROVE  task'[k].row.ceiling = CeilingOf[u]
    BY <1>1 DEF Inv, Rated, world
  <2>1. CASE k = t
    BY <1>2, <2>1
  <2>2. CASE k # t
    BY <1>2, <2>2 DEF Inv, Rated
  <2> QED
    BY <2>1, <2>2
<1>6. Listed' /\ Firing'
  BY <1>1, <1>2 DEF Inv, Listed, Firing, Pending, world
<1> QED
  BY <1>4, <1>5, <1>6, <1>7 DEF Inv

\* What changes the world only: live runs may end, and the rows of edited
\* triggers change.
LEMMA WorldInv ==
  ASSUME Inv, UNCHANGED <<task, due, seen, lock, last>>,
         clock' \in Time, crashes' \in 0..MaxCrashes, paused' \in BOOLEAN,
         broken' \subseteq Pipelines, rows' \in [Triggers -> Rows], live' \in [Triggers -> Nat],
         ended' \subseteq Triggers, revived' \subseteq Triggers,
         \A t \in Triggers : live'[t] <= live[t],
         \A t \in Triggers \ Edited : rows'[t] = rows[t]
  PROVE  Inv'
<1>1. TypeOK'
  BY DEF Inv, TypeOK
<1>2. \A t \in Triggers : live[t] \in Nat /\ live'[t] \in Nat /\ CeilingOf[t] \in Nat
  BY TriggersAssumption DEF Inv, TypeOK
<1>3. CeilingHolds'
  BY <1>2 DEF Inv, CeilingHolds, Bounded
<1>4. Admitted'
  <2>1. ASSUME NEW k \in Tasks, live[task[k].of] < CeilingOf[task[k].of]
        PROVE  live'[task[k].of] < CeilingOf[task[k].of]
    <3>1. task[k].of \in Triggers
      BY DEF Inv, TypeOK, TaskStates
    <3> QED
      BY <1>2, <2>1, <3>1
  <2> QED
    BY <2>1 DEF Inv, Admitted
<1>5. Scheduled' /\ Listed' /\ Rated' /\ Own'
  BY DEF Inv, Scheduled, Listed, Pending, Rated, Own, Steady
<1>6. Firing'
  <2>1. task[Tick].of \in Triggers
    BY DEF Inv, TypeOK, TaskStates, Tasks
  <2> QED
    BY <2>1 DEF Inv, Firing, Pending, Steady
<1> QED
  BY <1>1, <1>3, <1>4, <1>5, <1>6 DEF Inv

\* An edit writes a row whose next slot is ahead.
LEMMA AdvanceType ==
  ASSUME Inv, NEW t \in Triggers, NEW row \in Rows, Advance(t, row)
  PROVE  rows' \in [Triggers -> Rows] /\ \A u \in Triggers \ {t} : rows'[u] = rows[u]
<1>1. NextFire(row, clock) \in Time \cup {Never}
  BY NextFireType DEF Inv, TypeOK
<1>2. [row EXCEPT !.next = NextFire(row, clock)] \in Rows
  BY <1>1 DEF Rows
<1> QED
  BY <1>2 DEF Advance, Inv, TypeOK

\* What people and pipelines do beside the scheduler.
LEMMA EnvironmentInv == Inv /\ Environment => Inv'
<1> SUFFICES ASSUME Inv, Environment PROVE Inv'
  OBVIOUS
<1> USE TriggersAssumption
<1>0. /\ clock \in Time /\ crashes \in 0..MaxCrashes /\ paused \in BOOLEAN
      /\ broken \subseteq Pipelines /\ rows \in [Triggers -> Rows] /\ live \in [Triggers -> Nat]
      /\ ended \subseteq Triggers /\ revived \subseteq Triggers
      /\ \A t \in Triggers : live[t] <= live[t]
  BY DEF Inv, TypeOK
<1>1. ASSUME NEW t \in Triggers, Patch(t) PROVE Inv'
  <2>1. /\ UNCHANGED <<clock, paused, broken, live, ended, revived, last, task, due, seen, lock, crashes>>
        /\ t \in Edited /\ rows[t] \in Rows
    BY <1>0, <1>1 DEF Patch
  <2>2. (\E row \in Rows : Advance(t, row)) \/ \E c \in Ceilings : EditCeiling(t, c)
    <3>1. ASSUME NEW c \in Crons, EditCron(t, c) PROVE \E row \in Rows : Advance(t, row)
      <4>1. [rows[t] EXCEPT !.cron = c] \in Rows
        BY <2>1 DEF Rows
      <4> QED
        BY <3>1, <4>1 DEF EditCron
    <3>2. ASSUME NEW p \in Pipelines, Repoint(t, p) PROVE \E row \in Rows : Advance(t, row)
      <4>1. [rows[t] EXCEPT !.pipeline = p] \in Rows
        BY <2>1 DEF Rows
      <4> QED
        BY <3>2, <4>1 DEF Repoint
    <3>3. ASSUME Enable(t) PROVE \E row \in Rows : Advance(t, row)
      <4>1. [rows[t] EXCEPT !.enabled = TRUE] \in Rows
        BY <2>1 DEF Rows
      <4> QED
        BY <3>3, <4>1 DEF Enable
    <3> QED
      BY <1>1, <3>1, <3>2, <3>3 DEF Patch
  <2>3. rows' \in [Triggers -> Rows] /\ \A u \in Triggers \ {t} : rows'[u] = rows[u]
    <3>1. ASSUME NEW c \in Ceilings, EditCeiling(t, c)
          PROVE  rows' \in [Triggers -> Rows] /\ \A u \in Triggers \ {t} : rows'[u] = rows[u]
      <4>1. [rows[t] EXCEPT !.ceiling = c] \in Rows
        BY <2>1 DEF Rows
      <4> QED
        BY <1>0, <3>1, <4>1 DEF EditCeiling
    <3> QED
      BY <2>2, <3>1, AdvanceType
  <2> QED
    BY <1>0, <2>1, <2>3, WorldInv
<1>2. ASSUME NEW t \in Triggers, Disable(t) \/ Delete(t) PROVE Inv'
  <2>1. /\ UNCHANGED <<clock, paused, broken, live, ended, revived, last, task, due, seen, lock, crashes>>
        /\ t \in Edited
    BY <1>2 DEF Disable, Delete
  <2>2. \A row \in Rows : [row EXCEPT !.enabled = FALSE] \in Rows /\ [row EXCEPT !.here = FALSE] \in Rows
    BY DEF Rows
  <2>3. rows' \in [Triggers -> Rows] /\ \A u \in Triggers \ {t} : rows'[u] = rows[u]
    <3>1. CASE Disable(t)
      BY <1>0, <2>2, <3>1 DEF Disable
    <3>2. CASE Delete(t)
      BY <1>0, <2>2, <3>2, CreatedType DEF Delete
    <3> QED
      BY <1>2, <3>1, <3>2
  <2> QED
    BY <1>0, <2>1, <2>3, WorldInv
<1>3. ASSUME NEW t \in Triggers, EndRun(t) PROVE Inv'
  <2>1. /\ UNCHANGED <<clock, rows, paused, broken, last, task, due, seen, lock, crashes>>
        /\ ended' \subseteq Triggers /\ revived' \subseteq Triggers
        /\ live' = live \/ (live[t] > 0 /\ live' = [live EXCEPT ![t] = @ - 1])
    BY <1>0, <1>3 DEF EndRun
  <2>2. live[t] > 0 => live[t] - 1 \in Nat /\ live[t] - 1 <= live[t]
    BY <1>0
  <2>3. live' \in [Triggers -> Nat] /\ \A u \in Triggers : live'[u] <= live[u]
    BY <1>0, <2>1, <2>2
  <2> QED
    BY <1>0, <2>1, <2>3, WorldInv
<1>8. ASSUME NEW t \in Triggers, Reopen(t) PROVE Inv'
  <2>1. /\ UNCHANGED <<clock, rows, paused, broken, live, ended, last, task, due, seen, lock, crashes>>
        /\ revived' \subseteq Triggers
    BY <1>0, <1>8 DEF Reopen
  <2> QED
    BY <1>0, <2>1, WorldInv
<1>4. ASSUME NEW p \in Pipelines, BreakOrMend(p) PROVE Inv'
  <2>1. UNCHANGED <<clock, rows, paused, live, ended, revived, last, task, due, seen, lock, crashes>>
    BY <1>4 DEF BreakOrMend
  <2>2. broken' \subseteq Pipelines
    BY <1>0, <1>4 DEF BreakOrMend
  <2> QED
    BY <1>0, <2>1, <2>2, WorldInv
<1>5. CASE SetPaused
  <2>1. UNCHANGED <<clock, rows, broken, live, ended, revived, last, task, due, seen, lock, crashes>> /\ paused' \in BOOLEAN
    BY <1>5 DEF SetPaused
  <2> QED
    BY <1>0, <2>1, WorldInv
<1>6. CASE Pass
  <2>1. UNCHANGED <<rows, paused, broken, live, ended, revived, last, task, due, seen, lock, crashes>> /\ clock' \in Time
    BY <1>0, <1>6 DEF Pass, Time
  <2> QED
    BY <1>0, <2>1, WorldInv
<1>7. CASE Crash
  <2>1. UNCHANGED world /\ task' = Rest /\ due' = {} /\ lock' = NoTask /\ crashes' \in 0..MaxCrashes
    BY <1>0, <1>7 DEF Crash
  <2>2. seen' \in [Triggers -> Rows]
    BY <1>7, CreatedType DEF Crash
  <2>3. TypeOK'
    BY <2>1, <2>2, RestType DEF Inv, TypeOK, world
  <2>4. /\ \A k \in Tasks : task'[k].step = "idle" /\ task'[k].row.ceiling = CeilingOf[task'[k].of]
        /\ task'[Tick].step = "idle" /\ \A t \in Triggers : task'[t].of = t
    BY <2>1, RestType, IdleType DEF Tasks, Rest
  <2>5. CeilingHolds' /\ Admitted' /\ Own'
    BY <2>1, <2>4 DEF Inv, CeilingHolds, Admitted, Own, world
  <2>8. Rated'
    <3>1. \A t \in Triggers : seen'[t].ceiling = CeilingOf[t]
      BY <1>7, CreatedType DEF Crash
    <3> QED
      BY <2>1, <2>4, <3>1 DEF Inv, Rated, world
  <2>6. Scheduled'
    BY <2>1 DEF Inv, Scheduled, Pending, world
  <2>7. Listed' /\ Firing'
    BY <2>1, <2>4 DEF Listed, Firing
  <2> QED
    BY <2>3, <2>5, <2>6, <2>7, <2>8 DEF Inv
<1> QED
  BY <1>1, <1>2, <1>3, <1>4, <1>5, <1>6, <1>7, <1>8 DEF Environment

\* A task that has counted or decided holds the lock, so the others are at rest
\* or wait for it.
LEMMA LockHeld ==
  ASSUME Inv, NEW k \in Tasks, task[k].step \notin {"idle", "asked"}
  PROVE  lock = k /\ \A l \in Tasks \ {k} : task[l].step \in {"idle", "asked"}
  BY DEF Inv, TypeOK

\* The count admits a task only when its trigger has room.
LEMMA CountInv == ASSUME Inv, NEW k \in Tasks, Count(k) PROVE Inv'
<1> DEFINE t == task[k].of
<1>0. PICK n \in Counted(t) :
        task' = [task EXCEPT ![k] = [@ EXCEPT !.step = "guard", !.over = Full(task[k].row, n)]]
  BY DEF Count
<1> DEFINE full == Full(task[k].row, n)
<1>1. /\ UNCHANGED <<world, due, seen, lock, crashes>> /\ task[k] \in TaskStates
      /\ task[k].step = "count"
      /\ task' = [task EXCEPT ![k] = [@ EXCEPT !.step = "guard", !.over = full]]
  BY <1>0 DEF Count, Inv, TypeOK
<1>2. /\ task' \in [Tasks -> TaskStates]
      /\ task'[k].step = "guard" /\ task'[k].over = full
      /\ task'[k].of = t /\ task'[k].row = task[k].row /\ task'[k].now = task[k].now
      /\ \A l \in Tasks \ {k} : task'[l] = task[l]
  <2>1. full \in BOOLEAN
    BY DEF Full
  <2> HIDE DEF full
  <2>2. [task[k] EXCEPT !.step = "guard", !.over = full] \in TaskStates
    BY <1>1, <2>1 DEF TaskStates, Steps
  <2>3. task \in [Tasks -> TaskStates]
    BY DEF Inv, TypeOK
  <2> QED
    BY <1>1, <2>2, <2>3 DEF TaskStates
<1>3. lock = k /\ \A l \in Tasks \ {k} : task'[l].step \in {"idle", "asked"}
  BY <1>1, <1>2, LockHeld
<1>4. TypeOK'
  <2> HIDE DEF full
  <2>1. \A l \in Tasks : task'[l].step \notin {"idle", "asked"} => lock' = l
    BY <1>1, <1>3
  <2> QED
    BY <1>1, <1>2, <2>1 DEF Inv, TypeOK, world
<1>5. t \in Triggers /\ live[t] \in Nat /\ CeilingOf[t] \in Nat
  BY <1>1, TriggersAssumption DEF Inv, TypeOK, TaskStates
<1>6. ASSUME t \in Bounded, ~full PROVE live[t] < CeilingOf[t]
  <2>1. t \notin Unreadable /\ t \in Triggers \ Edited /\ CeilingOf[t] # Unbounded
    BY <1>6 DEF Bounded
  <2>2. n = LiveRuns(t)
    BY <2>1 DEF Counted
  <2>3. n \in Nat /\ n >= live[t]
    BY <1>5, <2>2 DEF LiveRuns
  <2>4. task[k].row.ceiling = CeilingOf[t]
    BY <2>1 DEF Inv, Rated
  <2> QED
    BY <1>5, <1>6, <2>1, <2>3, <2>4 DEF Full
<1> HIDE DEF full
<1>9. CeilingHolds' /\ Admitted'
  <2>1. ASSUME NEW l \in Tasks, task'[l].of \in Bounded,
               task'[l].step \in {"create", "guard"}, ~task'[l].over
        PROVE  live[task'[l].of] < CeilingOf[task'[l].of]
    <3>1. l = k
      BY <1>3, <2>1
    <3> QED
      BY <1>2, <1>6, <2>1, <3>1
  <2>2. \A l \in Tasks : task'[l].step # "create"
    BY <1>2, <1>3
  <2> QED
    BY <1>1, <2>1, <2>2 DEF Inv, CeilingHolds, Admitted, world
<1>10. Rated' /\ Own'
  <2>1. \A l \in Tasks : task'[l].of = task[l].of /\ task'[l].row = task[l].row
    BY <1>2
  <2> QED
    BY <1>1, <2>1 DEF Inv, Rated, Own, Tasks, world
<1>7. Scheduled' /\ Listed'
  BY <1>1, <1>2 DEF Inv, Scheduled, Listed, Pending, world, Tasks
<1>8. Firing'
  <2>1. CASE k = Tick
    BY <1>1, <1>2, <2>1 DEF Inv, Firing, Pending, world
  <2>2. CASE k # Tick
    BY <1>1, <1>2, <2>2 DEF Inv, Firing, Pending, world, Tasks
  <2> QED
    BY <2>1, <2>2
<1> QED
  BY <1>4, <1>7, <1>8, <1>9, <1>10 DEF Inv

\* What a task that finishes leaves: the tick goes on, a request is over.
LEMMA FinishType ==
  ASSUME Inv, NEW k \in Tasks, Finish(k), task[k].step \notin {"idle", "asked"}
  PROVE  /\ task' \in [Tasks -> TaskStates]
         /\ \A l \in Tasks \ {k} : task'[l] = task[l] /\ task[l].step \in {"idle", "asked"}
         /\ task'[k].step = IF k = Tick THEN "next" ELSE "idle"
         /\ k = Tick => task'[k].now = task[k].now
         /\ lock' = IF k = Tick THEN k ELSE NoTask
         /\ task'[k].of = task[k].of
         /\ task[k].of \notin Edited => task'[k].row.ceiling = CeilingOf[task[k].of]
<1>1. lock = k /\ \A l \in Tasks \ {k} : task[l].step \in {"idle", "asked"}
  BY LockHeld
<1>2. task[k] \in TaskStates
  BY DEF Inv, TypeOK
<1>5. task[k].of \in Triggers
  BY <1>2 DEF TaskStates
<1>3. CASE k = Tick
  <2>1. task[k].of \notin Edited => task[k].row.ceiling = CeilingOf[task[k].of]
    BY <1>5 DEF Inv, Rated
  <2> QED
    BY <1>1, <1>2, <1>3, <2>1 DEF Finish, Goto, Inv, TypeOK, TaskStates, Steps
<1>4. CASE k # Tick
  <2>1. task' = [task EXCEPT ![k] = Idle(k)] /\ lock' = NoTask /\ k \in Triggers
    BY <1>4 DEF Finish, Tasks
  <2>2. task[k].of = k
    BY <2>1 DEF Inv, Own
  <2> QED
    BY <1>1, <1>4, <2>1, <2>2, IdleType DEF Inv, TypeOK
<1> QED
  BY <1>3, <1>4

\* What a task that is evaluating leaves of what it knows of its trigger.
LEMMA KnownInv ==
  ASSUME Inv, NEW k \in Tasks, UNCHANGED seen,
         \A l \in Tasks \ {k} : task'[l] = task[l],
         task'[k].of = task[k].of,
         task[k].of \notin Edited => task'[k].row.ceiling = CeilingOf[task[k].of],
         \A u \in Triggers : rows'[u].ceiling = rows[u].ceiling
  PROVE  Rated' /\ Own'
<1>1. Own'
  BY DEF Inv, Own, Tasks
<1>2. ASSUME NEW u \in Triggers \ Edited, NEW l \in Tasks, task'[l].of = u
      PROVE  task'[l].row.ceiling = CeilingOf[u]
  <2>1. CASE l = k
    BY <1>2, <2>1
  <2>2. CASE l # k
    BY <1>2, <2>2 DEF Inv, Rated
  <2> QED
    BY <2>1, <2>2
<1> QED
  BY <1>1, <1>2 DEF Inv, Rated

\* The decision moves the schedule past the present, or goes on to create with
\* room for a run.
LEMMA DecideInv == ASSUME Inv, NEW k \in Tasks, Decide(k) PROVE Inv'
<1> DEFINE t == task[k].of
           next == NextFire(task[k].row, task[k].now)
<1>1. /\ task[k].step = "guard" /\ task[k] \in TaskStates
      /\ UNCHANGED <<clock, paused, broken, live, ended, revived, last, due, seen, crashes>>
  BY DEF Decide, Inv, TypeOK
<1>2. t \in Triggers /\ task[k].row \in Rows /\ task[k].now \in Time
  BY <1>1 DEF TaskStates
<1>3. next \in SlotsOf[task[k].row.cron] \cup {Never} /\ next \in Time \cup {Never} /\ next > task[k].now
  BY <1>2, NextFireType
<1>4. /\ k = Tick => \/ rows' = [rows EXCEPT ![t].next = IF rows[t].here THEN next ELSE @]
                     \/ t \in Unwritable /\ rows' = rows
      /\ k # Tick => rows' = rows
  BY DEF Decide, SetNextFire
<1>5. rows' \in [Triggers -> Rows]
  <2>1. [rows[t] EXCEPT !.next = next] \in Rows /\ [rows[t] EXCEPT !.next = rows[t].next] \in Rows
    BY <1>2, <1>3 DEF Inv, TypeOK, Rows
  <2> QED
    BY <1>2, <1>4, <2>1 DEF Inv, TypeOK
<1>6. /\ task' \in [Tasks -> TaskStates]
      /\ \A l \in Tasks \ {k} : task'[l] = task[l] /\ task[l].step \in {"idle", "asked"}
      /\ \/ /\ task'[k].step = "create" /\ ~task[k].over /\ lock' = k
            /\ task'[k].of = t /\ task'[k].row = task[k].row /\ task'[k].now = task[k].now
         \/ /\ task'[k].step = IF k = Tick THEN "next" ELSE "idle"
            /\ lock' = IF k = Tick THEN k ELSE NoTask
            /\ k = Tick => task'[k].now = task[k].now
      /\ task'[k].of = t
      /\ t \notin Edited => task'[k].row.ceiling = CeilingOf[t]
  <2>0. t \notin Edited => task[k].row.ceiling = CeilingOf[t]
    BY <1>2 DEF Inv, Rated
  <2>1. CASE Finish(k)
    BY <1>1, <2>1, FinishType
  <2>2. CASE Goto(k, "create") /\ UNCHANGED lock /\ ~task[k].over
    BY <2>0, <1>1, <2>2, LockHeld DEF Goto, Inv, TypeOK, TaskStates, Steps
  <2> QED
    BY <2>1, <2>2 DEF Decide
<1>7. TypeOK'
  <2>1. lock' \in Tasks \cup {NoTask} /\ \A l \in Tasks : task'[l].step \notin {"idle", "asked"} => lock' = l
    BY <1>6
  <2> QED
    BY <1>1, <1>5, <1>6, <2>1 DEF Inv, TypeOK
<1>8. task'[k].step = "create" =>
        /\ task'[k].of = t /\ task'[k].row = task[k].row /\ task'[k].now = task[k].now
        /\ ~task[k].over
  BY <1>6
<1>9. CeilingHolds' /\ Admitted'
  <2>1. ASSUME NEW l \in Tasks, task'[l].step \in {"create", "guard"}, task'[l].of \in Bounded
        PROVE  live[task'[l].of] < CeilingOf[task'[l].of]
    <3>1. l = k /\ task'[k].step = "create"
      BY <1>1, <1>6, <2>1
    <3> QED
      BY <1>1, <1>8, <2>1, <3>1 DEF Inv, Admitted
  <2> QED
    BY <1>1, <2>1 DEF Inv, CeilingHolds, Admitted
<1>10. \A u \in Triggers : rows'[u] = rows[u] \/
         (k = Tick /\ u = t /\ rows[t].here /\ rows'[u] = [rows[u] EXCEPT !.next = next])
  <2>1. rows \in [Triggers -> Rows]
    BY DEF Inv, TypeOK
  <2>2. \A row \in Rows : [row EXCEPT !.next = row.next] = row
    BY DEF Rows
  <2> HIDE DEF next
  <2> QED
    BY <1>2, <1>4, <2>1, <2>2
<1>11. k = Tick => /\ t \notin due
                   /\ t \in Steady => Pending(t, task[k].row) /\ task[k].row.next <= task[k].now
  BY <1>1 DEF Inv, Firing
<1>12. Scheduled'
  <2> SUFFICES ASSUME NEW u \in Steady PROVE rows'[u].here /\ Pending(u, rows[u])'
    BY DEF Scheduled
  <2>1. rows[u].here /\ Pending(u, rows[u]) /\ rows[u] \in Rows
    BY DEF Inv, Scheduled, TypeOK, Steady
  <2>2. CASE rows'[u] = rows[u]
    BY <1>1, <2>1, <2>2 DEF Pending
  <2>3. CASE k = Tick /\ u = t /\ rows'[u] = [rows[u] EXCEPT !.next = next]
    <3>1. rows'[u].here /\ rows'[u].cron = CronOf[u] /\ rows'[u].next = next
      BY <2>1, <2>3 DEF Pending, Rows
    <3>2. task[k].row.cron = CronOf[u] /\ last[u] < task[k].row.next /\ task[k].row.next <= task[k].now
      BY <1>11, <2>3 DEF Pending
    <3>3. last[u] < next
      <4>1. last[u] \in Nat /\ task[k].row.next \in Nat /\ task[k].now \in Nat /\ next \in Nat
        BY <1>2, <1>3, TriggersAssumption DEF Inv, TypeOK, Rows, Time, Never, Steady
      <4> HIDE DEF next
      <4> QED
        BY <1>3, <3>2, <4>1
    <3> QED
      BY <1>1, <1>3, <3>1, <3>2, <3>3 DEF Pending
  <2> QED
    BY <1>10, <2>2, <2>3 DEF Steady
<1>13. Listed'
  <2>1. CASE k = Tick
    <3>1. task'[k].step # "idle" /\ task'[k].now = task[k].now
      BY <1>6, <1>8, <2>1
    <3> QED
      BY <1>1, <2>1, <3>1 DEF Inv, Listed, Pending
  <2>2. CASE k # Tick
    <3>1. task'[Tick] = task[Tick]
      BY <1>6, <2>2 DEF Tasks
    <3> QED
      BY <1>1, <3>1 DEF Inv, Listed, Pending
  <2> QED
    BY <2>1, <2>2
<1>14. Firing'
  <2>1. CASE k # Tick
    BY <1>6, <2>1 DEF Firing, Tasks
  <2>2. CASE k = Tick /\ task'[k].step = "create"
    <3>1. t \in Steady => task[k].now < rows'[t].next
      <4>1. t \in Steady => rows[t].here /\ t \notin Unwritable
        BY <1>2 DEF Inv, Scheduled, Steady
      <4>2. t \in Steady => rows'[t].next = next
        BY <1>2, <1>4, <2>2, <4>1 DEF Inv, TypeOK, Rows
      <4>3. task[k].now \in Nat /\ next \in Nat
        BY <1>2, <1>3, TriggersAssumption DEF Time, Never
      <4> HIDE DEF next
      <4> QED
        BY <1>3, <4>2, <4>3
    <3> QED
      BY <1>1, <1>8, <1>11, <2>2, <3>1 DEF Firing, Pending
  <2>3. CASE k = Tick /\ task'[k].step # "create"
    BY <1>6, <2>3 DEF Firing
  <2> QED
    BY <2>1, <2>2, <2>3
<1>15. Rated' /\ Own'
  <2>1. ASSUME NEW u \in Triggers PROVE rows'[u].ceiling = rows[u].ceiling
    <3>1. rows[u] \in Rows
      BY DEF Inv, TypeOK
    <3> HIDE DEF next
    <3> QED
      BY <1>10, <3>1 DEF Rows
  <2> QED
    BY <1>1, <1>6, <2>1, KnownInv
<1> QED
  BY <1>7, <1>9, <1>12, <1>13, <1>14, <1>15 DEF Inv

\* A run is created in a trigger that has room, for a slot that is spent with
\* it.
LEMMA CreateInv == ASSUME Inv, NEW k \in Tasks, Create(k) PROVE Inv'
<1> DEFINE t == task[k].of
<1>1. /\ task[k].step = "create" /\ task[k] \in TaskStates /\ Finish(k)
      /\ UNCHANGED <<clock, rows, paused, broken, ended, revived, due, seen, crashes>>
  BY DEF Create, Inv, TypeOK
<1>2. /\ task' \in [Tasks -> TaskStates]
      /\ \A l \in Tasks \ {k} : task'[l] = task[l] /\ task[l].step \in {"idle", "asked"}
      /\ task'[k].step = IF k = Tick THEN "next" ELSE "idle"
      /\ k = Tick => task'[k].now = task[k].now
      /\ lock' = IF k = Tick THEN k ELSE NoTask
      /\ task'[k].of = t
      /\ t \notin Edited => task'[k].row.ceiling = CeilingOf[t]
  BY <1>1, FinishType
<1>3. t \in Triggers /\ task[k].now \in Time
  BY <1>1 DEF TaskStates
<1>4. live' = live \/ live' = [live EXCEPT ![t] = @ + 1]
  BY DEF Create
<1>5. last' = last \/ (k = Tick /\ t \in Steady /\ last' = [last EXCEPT ![t] = task[k].now])
  BY DEF Create
<1>6. live \in [Triggers -> Nat] /\ live' \in [Triggers -> Nat] /\ last' \in [Triggers -> Time]
  BY <1>3, <1>4, <1>5 DEF Inv, TypeOK
<1>7. TypeOK'
  <2>1. lock' \in Tasks \cup {NoTask} /\ \A l \in Tasks : task'[l].step \notin {"idle", "asked"} => lock' = l
    BY <1>2
  <2> QED
    BY <1>1, <1>2, <1>6, <2>1 DEF Inv, TypeOK
<1>8. CeilingHolds'
  <2>1. t \in Bounded => live[t] < CeilingOf[t] /\ CeilingOf[t] \in Nat
    BY <1>1, <1>3, TriggersAssumption DEF Inv, Admitted
  <2>2. ASSUME NEW u \in Bounded PROVE live'[u] <= CeilingOf[u]
    <3>1. live[u] <= CeilingOf[u] /\ live[u] \in Nat
      BY <1>6 DEF Inv, CeilingHolds, Bounded
    <3>2. live'[u] = live[u] \/ (u = t /\ live'[u] = live[u] + 1)
      BY <1>3, <1>4, <1>6 DEF Bounded
    <3> QED
      BY <2>1, <3>1, <3>2
  <2> QED
    BY <2>2 DEF CeilingHolds
<1>9. Admitted'
  BY <1>2 DEF Admitted
<1>10. \A u \in Steady :
         last'[u] = last[u] \/ (k = Tick /\ u = t /\ last'[u] = task[k].now)
  BY <1>3, <1>5 DEF Inv, TypeOK, Steady
<1>11. Scheduled'
  <2> SUFFICES ASSUME NEW u \in Steady PROVE rows'[u].here /\ Pending(u, rows[u])'
    BY DEF Scheduled
  <2>1. rows[u].here /\ Pending(u, rows[u])
    BY DEF Inv, Scheduled
  <2>2. k = Tick /\ u = t => task[k].now < rows[u].next
    BY <1>1 DEF Inv, Firing
  <2> QED
    BY <1>1, <1>10, <2>1, <2>2 DEF Pending
<1>12. Listed'
  <2>1. ASSUME NEW u \in due \cap Steady PROVE last'[u] = last[u] /\ u \in Triggers
    <3>1. u \in Triggers
      BY DEF Inv, TypeOK
    <3>2. ~(k = Tick /\ u = t)
      BY <1>1 DEF Inv, Firing
    <3> QED
      BY <1>10, <3>1, <3>2
  <2>2. task'[Tick].now = task[Tick].now /\ (task'[Tick].step = "idle" => task[Tick].step = "idle")
    BY <1>2 DEF Tasks
  <2> QED
    BY <1>1, <2>1, <2>2 DEF Inv, Listed, Pending
<1>13. Firing'
  BY <1>2 DEF Firing, Tasks
<1>14. Rated' /\ Own'
  BY <1>1, <1>2, KnownInv
<1> QED
  BY <1>7, <1>8, <1>9, <1>11, <1>12, <1>13, <1>14 DEF Inv

\* Every step keeps the invariant.
LEMMA StepInv == Inv /\ [Next]_vars => Inv'
<1> SUFFICES ASSUME Inv, [Next]_vars PROVE Inv'
  OBVIOUS
<1>1. CASE UNCHANGED vars
  <2>1. UNCHANGED <<clock, rows, paused, broken, live, ended, revived, last, task, due, seen, lock, crashes>>
    BY <1>1 DEF vars, world
  <2> QED
    BY <2>1 DEF Inv, TypeOK, Own, CeilingHolds, Admitted, Rated, Scheduled, Listed, Firing, Pending
<1>2. CASE TickStart \/ TickList \/ TickNext
  BY <1>2, TickStartInv, TickListInv, TickNextInv
<1>3. ASSUME NEW k \in Tasks, FireStep(k) PROVE Inv'
  BY <1>3, CountInv, DecideInv, CreateInv DEF FireStep
<1>4. ASSUME NEW t \in Triggers, Click(t) \/ ClickLock(t) \/ HangUp(t) PROVE Inv'
  BY <1>4, RequestInv
<1>5. CASE Environment
  BY <1>5, EnvironmentInv
<1> QED
  BY <1>1, <1>2, <1>3, <1>4, <1>5 DEF Next

\* The invariant holds in every behaviour.
LEMMA Invariant == Spec => []Inv
  BY InitInv, StepInv, PTL DEF Spec

(***************************************************************************)
(* The theorems                                                            *)
(***************************************************************************)
\* The tables, the tick's list and the lock keep their types, and only the
\* holder of the lock is past waiting for it.
THEOREM TriggersTypeOK == Spec => []TypeOK
<1>1. Inv => TypeOK
  BY DEF Inv
<1> QED
  BY <1>1, Invariant, PTL

\* A trigger nobody edits, with a bound and runs that can all be read, never has
\* more live runs than its overlap policy allows, those brought back to life
\* aside: what the count found is still there after the guard and the fetch.
THEOREM CeilingNeverExceeded == Spec => []CeilingHolds
<1>1. Inv => CeilingHolds
  BY DEF Inv
<1> QED
  BY <1>1, Invariant, PTL

\* Between two runs that cron creates for a trigger nobody edits and whose slots
\* are written, a slot of it has gone by: one run stands for all it missed.
THEOREM NothingIsBackfilled == Spec => NoBackfill
<1> DEFINE OneRunPerSlot ==
      \A t \in Steady :
        live'[t] > live[t] /\ task[Tick].step = "create" /\ task'[Tick].step = "next" =>
          \E s \in SlotsOf[CronOf[t]] : last[t] < s /\ s <= task[Tick].now
<1>1. ASSUME Inv, Inv', [Next]_vars PROVE OneRunPerSlot
  <2> SUFFICES ASSUME NEW t \in Steady, live'[t] > live[t],
                      task[Tick].step = "create", task'[Tick].step = "next"
               PROVE  \E s \in SlotsOf[CronOf[t]] : last[t] < s /\ s <= task[Tick].now
    OBVIOUS
  <2>1. Tick \in Tasks /\ task[Tick] \in TaskStates /\ live \in [Triggers -> Nat]
    BY <1>1 DEF Tasks, Inv, TypeOK
  <2>2. t = task[Tick].of
    <3>0. t \in Triggers
      BY DEF Steady
    <3>1. ~UNCHANGED live /\ ~UNCHANGED task
      BY <2>1, <3>0
    <3>2. ASSUME NEW u \in Triggers, EndRun(u) \/ Reopen(u) PROVE FALSE
      BY <3>1, <3>2 DEF EndRun, Reopen
    <3>3. PICK k \in Tasks : Create(k)
      BY <1>1, <3>1, <3>2 DEF Next, TickStart, TickList, TickNext, FireStep, Count, Decide, Click,
        ClickLock, HangUp, Environment, Patch, Disable, Delete, BreakOrMend, SetPaused, Pass, Crash,
        vars, world
    <3>4. k = Tick
      BY <1>1, <2>1, <3>3, LockHeld DEF Create
    <3>5. live' = [live EXCEPT ![task[Tick].of] = @ + 1]
      BY <3>1, <3>3, <3>4 DEF Create
    <3>6. task[Tick].of \in Triggers
      BY <2>1 DEF TaskStates
    <3> QED
      BY <2>1, <3>0, <3>5, <3>6
  <2>3. Pending(t, task[Tick].row) /\ task[Tick].row.next <= task[Tick].now
    BY <1>1, <2>2 DEF Inv, Firing
  <2>4. task[Tick].now < Never
    BY <2>1, TriggersAssumption DEF TaskStates, Time, Never
  <2>5. task[Tick].row.next # Never
    BY <2>1, <2>3, <2>4, TriggersAssumption DEF TaskStates, Rows, Time, Never
  <2> QED
    BY <2>3, <2>5 DEF Pending
<1>2. Inv /\ Inv' /\ [Next]_vars => [OneRunPerSlot]_vars
  BY <1>1
<1>3. [][OneRunPerSlot]_vars => NoBackfill
  BY PTL DEF NoBackfill
<1> QED
  BY <1>2, <1>3, Invariant, PTL DEF Spec

=============================================================================
