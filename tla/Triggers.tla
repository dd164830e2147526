------------------------------- MODULE Triggers -------------------------------
(***************************************************************************)
(* Triggers: the cron tick of the scheduler, "Run now", the edits of a     *)
(* trigger and the global pause.  Tick and "Run now" evaluate a trigger    *)
(* under `trigger_tick_lock': live runs are counted, a guard command may   *)
(* run for minutes, the next slot is written, the remotes are fetched and  *)
(* only then is a run created.  Edits and the pause do not take the lock,  *)
(* and the tick works on the rows it listed when it began.                 *)
(*                                                                         *)
(* Time is counted in units in which a cron has slots; prompts, the names  *)
(* of pipelines and what the audit row says are left out.                  *)
(***************************************************************************)
EXTENDS Naturals, FiniteSets

CONSTANTS
  Triggers, Crons, Pipelines,
  SlotsOf,     \* cron expression -> its slots
  CronOf, PipelineOf,  \* the configuration a trigger is created with
  CeilingOf,   \* trigger -> 1 for "skip", max_concurrent or Unbounded for "allow"
  Ceilings,    \* those an edit may choose
  Guarded,     \* triggers with a guard command
  Clicked,     \* triggers somebody runs by hand
  Edited,      \* triggers somebody edits
  Reopened,    \* triggers whose ended runs somebody re-opens, retries or restarts
  Unreadable,  \* triggers whose runs may fail to be listed or read
  Unwritable,  \* triggers whose slot may fail to be written
  Fragile,     \* pipelines that may be renamed away, and come back
  MaxLive,     \* bound on the live runs of a trigger
  MaxTime,     \* bound on the clock
  MaxCrashes,  \* bound on the daemon's crashes
  Tick         \* the scheduler's task; a trigger names its "Run now" request

Time == 0..MaxTime
Never == MaxTime + 1
Slots == 1..MaxTime

Unbounded == 0

\* Nobody edits these triggers, and their slots are written.
Steady == Triggers \ (Edited \cup Unwritable)
\* Nobody edits these either, all their runs can be read, and there is a bound.
Bounded == {t \in Triggers \ (Edited \cup Unreadable) : CeilingOf[t] # Unbounded}

ASSUME TriggersAssumption ==
  /\ MaxTime \in Nat /\ MaxCrashes \in Nat /\ Triggers # {}
  /\ SlotsOf \in [Crons -> SUBSET Slots]
  /\ CronOf \in [Triggers -> Crons] /\ PipelineOf \in [Triggers -> Pipelines]
  /\ CeilingOf \in [Triggers -> Nat] /\ Ceilings \subseteq Nat /\ MaxLive \in Nat
  /\ Guarded \subseteq Triggers /\ Clicked \subseteq Triggers /\ Edited \subseteq Triggers
  /\ Fragile \subseteq Pipelines
  /\ Tick \notin Triggers

Tasks == Triggers \cup {Tick}
NoTask == <<>>
ASSUME NoTaskAssumption == NoTask \notin Tasks

VARIABLES
  clock,
  rows,     \* the triggers table
  paused,   \* the global pause
  broken,   \* pipelines that cannot be loaded
  live,     \* trigger -> number of its runs that have not ended yet
  ended,    \* triggers one of whose runs has ended
  revived,  \* triggers one of whose ended runs was brought back and is live
  last,     \* trigger -> the tick in which cron last created a run for it (kept
            \* for NoBackfill, of the triggers nobody edits)
  task,     \* task -> what it is doing
  due, seen,  \* the tick's list: the triggers left and the rows it read
  lock,     \* who holds trigger_tick_lock
  crashes

world == <<clock, rows, paused, broken, live, ended, revived, last>>
vars == <<world, task, due, seen, lock, crashes>>

Rows == [here : BOOLEAN, enabled : BOOLEAN, cron : Crons, next : Time \cup {Never},
         pipeline : Pipelines, ceiling : Nat]

\* "asked": the request was accepted and waits for the lock.
Steps == {"idle", "list", "next", "asked", "count", "guard", "create"}
TaskStates == [step : Steps, of : Triggers, row : Rows, now : Time, over : BOOLEAN]

TypeOK ==
  /\ clock \in Time /\ crashes \in 0..MaxCrashes
  /\ rows \in [Triggers -> Rows] /\ seen \in [Triggers -> Rows]
  /\ paused \in BOOLEAN /\ broken \subseteq Pipelines
  /\ live \in [Triggers -> Nat] /\ ended \subseteq Triggers /\ revived \subseteq Triggers
  /\ last \in [Triggers -> Time]
  /\ task \in [Tasks -> TaskStates]
  /\ due \subseteq Triggers
  /\ lock \in Tasks \cup {NoTask}
  /\ \A k \in Tasks : task[k].step \notin {"idle", "asked"} => lock = k

\* Mutated form: the slot after the one that was due, whatever the time is.
NextFireBackfills(row, now) ==
  CHOOSE s \in SlotsOf[row.cron] \cup {Never} :
    /\ s > row.next \/ s = Never
    /\ \A u \in SlotsOf[row.cron] : u > row.next => s <= u

\* The first slot of the row's cron after `now': every transition that advances
\* the schedule goes forward from the present.
NextFire(row, now) ==
  CHOOSE s \in SlotsOf[row.cron] \cup {Never} :
    /\ s > now
    /\ \A u \in SlotsOf[row.cron] : u > now => s <= u

Created(t) ==
  LET row == [here |-> TRUE, enabled |-> TRUE, cron |-> CronOf[t], next |-> 0,
              pipeline |-> PipelineOf[t], ceiling |-> CeilingOf[t]]
  IN  [row EXCEPT !.next = NextFire(row, 0)]

Idle(t) == [step |-> "idle", of |-> t, row |-> Created(t), now |-> 0, over |-> FALSE]
SomeTrigger == CHOOSE t \in Triggers : TRUE
Rest == [k \in Tasks |-> IF k = Tick THEN Idle(SomeTrigger) ELSE Idle(k)]

Init ==
  /\ clock = 0 /\ crashes = 0
  /\ rows = [t \in Triggers |-> Created(t)]
  /\ seen = rows
  /\ paused = FALSE /\ broken = {}
  /\ live = [t \in Triggers |-> 0] /\ ended = {} /\ revived = {}
  /\ last = [t \in Triggers |-> 0]
  /\ task = Rest /\ due = {} /\ lock = NoTask

Goto(k, s) == task' = [task EXCEPT ![k].step = s]
Dangling(row) == row.pipeline \in broken

-----------------------------------------------------------------------------
\* The tick.

TickStart ==
  /\ task[Tick].step = "idle" /\ lock = NoTask
  /\ lock' = Tick
  /\ task' = [task EXCEPT ![Tick] = [@ EXCEPT !.step = "list", !.now = clock]]
  /\ UNCHANGED <<world, due, seen, crashes>>

EndTick ==
  /\ lock' = NoTask
  /\ task' = [task EXCEPT ![Tick] = Idle(SomeTrigger)]
  /\ due' = {}
  /\ seen' = [t \in Triggers |-> Created(t)]

TickList ==
  /\ task[Tick].step = "list"
  /\ \/ paused /\ EndTick
     \/ /\ ~paused
        /\ due' = {t \in Triggers : /\ rows[t].here /\ rows[t].enabled
                                    /\ rows[t].next <= task[Tick].now}
        /\ seen' = [t \in Triggers |-> IF t \in due' THEN rows[t] ELSE Created(t)]
        /\ Goto(Tick, "next")
        /\ UNCHANGED lock
  /\ UNCHANGED <<world, crashes>>

\* A failure to write is logged, and the tick goes on.
SetNextFire(t, s) ==
  \/ rows' = [rows EXCEPT ![t].next = IF rows[t].here THEN s ELSE @]
  \/ t \in Unwritable /\ UNCHANGED rows

Earliest(t) == t \in due /\ \A u \in due : seen[t].next <= seen[u].next

\* The pause is read again before each trigger.
TickNext ==
  /\ task[Tick].step = "next"
  /\ \/ /\ paused \/ due = {}
        /\ EndTick
        /\ UNCHANGED world
     \/ \E t \in Triggers :
          /\ ~paused /\ Earliest(t)
          /\ due' = due \ {t}
          /\ IF Dangling(seen[t])
             THEN UNCHANGED task /\ SetNextFire(t, Never)
             ELSE /\ task' = [task EXCEPT ![Tick] = [@ EXCEPT !.step = "count", !.of = t,
                                                              !.row = seen[t]]]
                  /\ UNCHANGED rows
          /\ UNCHANGED <<clock, paused, broken, live, ended, revived, last, seen, lock>>
  /\ UNCHANGED crashes

-----------------------------------------------------------------------------
\* "Run now": the schedule is left alone, so the request's own `now' decides
\* nothing, and of the row it read before it asked for the lock only the ceiling.

Click(t) ==
  /\ t \in Clicked /\ task[t].step = "idle"
  /\ rows[t].here /\ rows[t].enabled /\ ~Dangling(rows[t])
  /\ task' = [task EXCEPT ![t] = [@ EXCEPT !.step = "asked", !.row.ceiling = rows[t].ceiling]]
  /\ UNCHANGED <<world, due, seen, lock, crashes>>

\* Mutated form: the request does not wait for the tick.
ClickLockAnyway(t) ==
  /\ task[t].step = "asked"
  /\ Goto(t, "count")
  /\ UNCHANGED <<world, due, seen, lock, crashes>>

ClickLock(t) ==
  /\ task[t].step = "asked" /\ lock = NoTask
  /\ lock' = t
  /\ Goto(t, "count")
  /\ UNCHANGED <<world, due, seen, crashes>>

\* The client goes away, and the request with it, at whichever await it is.
HangUp(t) ==
  /\ task[t].step # "idle"
  /\ task' = [task EXCEPT ![t] = Idle(t)]
  /\ lock' = IF lock = t THEN NoTask ELSE lock
  /\ UNCHANGED <<world, due, seen, crashes>>

-----------------------------------------------------------------------------
\* fire_one_trigger, under the lock, for either task.

Finish(k) ==
  IF k = Tick THEN Goto(Tick, "next") /\ UNCHANGED lock
  ELSE task' = [task EXCEPT ![k] = Idle(k)] /\ lock' = NoTask

LiveRuns(t) == live[t] + IF t \in revived THEN 1 ELSE 0

\* A run that cannot be read is not counted, and none is when the list fails.
Counted(t) == IF t \in Unreadable THEN 0..LiveRuns(t) ELSE {LiveRuns(t)}

Full(row, n) == row.ceiling # Unbounded /\ n >= row.ceiling

Count(k) ==
  /\ task[k].step = "count"
  /\ \E n \in Counted(task[k].of) :
       task' = [task EXCEPT ![k] = [@ EXCEPT !.step = "guard", !.over = Full(task[k].row, n)]]
  /\ UNCHANGED <<world, due, seen, lock, crashes>>

\* Mutated form: a trigger that is skipped keeps its slot.
DecideKeepsSlot(k) ==
  /\ task[k].step = "guard"
  /\ \E pass \in (IF task[k].of \in Guarded THEN BOOLEAN ELSE {TRUE}) :
       IF pass /\ ~task[k].over
       THEN /\ Goto(k, "create") /\ UNCHANGED lock
            /\ IF k = Tick THEN SetNextFire(task[k].of, NextFire(task[k].row, task[k].now))
               ELSE UNCHANGED rows
       ELSE Finish(k) /\ UNCHANGED rows
  /\ UNCHANGED <<clock, paused, broken, live, ended, revived, last, due, seen, crashes>>

\* The guard has answered (or was not run): cron writes the next slot, whatever
\* was decided, and before anything is created.
Decide(k) ==
  /\ task[k].step = "guard"
  /\ \E pass \in (IF task[k].of \in Guarded THEN BOOLEAN ELSE {TRUE}) :
       IF pass /\ ~task[k].over THEN Goto(k, "create") /\ UNCHANGED lock ELSE Finish(k)
  /\ IF k = Tick THEN SetNextFire(task[k].of, NextFire(task[k].row, task[k].now))
     ELSE UNCHANGED rows
  /\ UNCHANGED <<clock, paused, broken, live, ended, revived, last, due, seen, crashes>>

\* After the fetch: a run, or an error row when it could not be created.
Create(k) ==
  /\ task[k].step = "create"
  /\ \/ /\ live[task[k].of] < MaxLive
        /\ live' = [live EXCEPT ![task[k].of] = @ + 1]
        /\ last' = IF k = Tick /\ task[k].of \in Steady
                   THEN [last EXCEPT ![task[k].of] = task[k].now] ELSE last
     \/ UNCHANGED <<live, last>>
  /\ Finish(k)
  /\ UNCHANGED <<clock, rows, paused, broken, ended, revived, due, seen, crashes>>

-----------------------------------------------------------------------------
\* Edits, none of which waits for a tick, and the world.

\* One UPDATE writes the new value and the slot that follows from it.
Advance(t, row) == rows' = [rows EXCEPT ![t] = [row EXCEPT !.next = NextFire(row, clock)]]

EditCron(t, c) == Advance(t, [rows[t] EXCEPT !.cron = c])

Repoint(t, p) ==
  /\ p \notin broken /\ p # rows[t].pipeline
  /\ Advance(t, [rows[t] EXCEPT !.pipeline = p])

Enable(t) == ~rows[t].enabled /\ Advance(t, [rows[t] EXCEPT !.enabled = TRUE])

\* The overlap policy and its bound; the slot stays.
EditCeiling(t, c) == rows' = [rows EXCEPT ![t].ceiling = c]

Patch(t) ==
  /\ t \in Edited /\ rows[t].here
  /\ \/ \E c \in Crons : EditCron(t, c)
     \/ \E p \in Pipelines : Repoint(t, p)
     \/ Enable(t)
     \/ \E c \in Ceilings : EditCeiling(t, c)
  /\ UNCHANGED <<clock, paused, broken, live, ended, revived, last, task, due, seen, lock, crashes>>

Disable(t) ==
  /\ t \in Edited /\ rows[t].here /\ rows[t].enabled
  /\ rows' = [rows EXCEPT ![t].enabled = FALSE]
  /\ UNCHANGED <<clock, paused, broken, live, ended, revived, last, task, due, seen, lock, crashes>>

Delete(t) ==
  /\ t \in Edited /\ rows[t].here
  /\ rows' = [rows EXCEPT ![t] = [Created(t) EXCEPT !.here = FALSE]]
  /\ UNCHANGED <<clock, paused, broken, live, ended, revived, last, task, due, seen, lock, crashes>>

SetPaused ==
  /\ paused' = ~paused
  /\ UNCHANGED <<clock, rows, broken, live, ended, revived, last, task, due, seen, lock, crashes>>

Pass ==
  /\ clock < MaxTime /\ clock' = clock + 1
  /\ UNCHANGED <<rows, paused, broken, live, ended, revived, last, task, due, seen, lock, crashes>>

BreakOrMend(p) ==
  /\ p \in Fragile
  /\ broken' = IF p \in broken THEN broken \ {p} ELSE broken \cup {p}
  /\ UNCHANGED <<clock, rows, paused, live, ended, revived, last, task, due, seen, lock, crashes>>

EndRun(t) ==
  /\ \/ /\ live[t] > 0 /\ live' = [live EXCEPT ![t] = @ - 1]
        /\ ended' = (IF t \in Reopened THEN ended \cup {t} ELSE ended)
        /\ UNCHANGED revived
     \/ t \in revived /\ revived' = revived \ {t} /\ UNCHANGED <<live, ended>>
  /\ UNCHANGED <<clock, rows, paused, broken, last, task, due, seen, lock, crashes>>

\* A run that ended is re-opened, retried or restarted: no lock, and nobody asks
\* the trigger it is from.  Bound: one such run of a trigger at a time.
Reopen(t) ==
  /\ t \in ended \ revived /\ revived' = revived \cup {t}
  /\ UNCHANGED <<clock, rows, paused, broken, live, ended, last, task, due, seen, lock, crashes>>

\* The daemon dies and starts again; the tables stay.
Crash ==
  /\ crashes < MaxCrashes /\ crashes' = crashes + 1
  /\ task' = Rest /\ due' = {} /\ lock' = NoTask
  /\ seen' = [t \in Triggers |-> Created(t)]
  /\ UNCHANGED world

FireStep(k) == Count(k) \/ Decide(k) \/ Create(k)
Environment ==
  \/ \E t \in Triggers : Patch(t) \/ Disable(t) \/ Delete(t) \/ EndRun(t) \/ Reopen(t)
  \/ \E p \in Pipelines : BreakOrMend(p)
  \/ SetPaused \/ Pass \/ Crash

Next ==
  \/ TickStart \/ TickList \/ TickNext
  \/ \E k \in Tasks : FireStep(k)
  \/ \E t \in Triggers : Click(t) \/ ClickLock(t) \/ HangUp(t)
  \/ Environment

\* Guards and fetches are bounded by timeouts, and the lock is handed out in the
\* order it was asked for: clicks cannot keep it from the tick.
Fairness ==
  /\ SF_vars(TickStart) /\ WF_vars(TickList) /\ WF_vars(TickNext)
  /\ \A k \in Tasks : WF_vars(FireStep(k))

Spec == Init /\ [][Next]_vars /\ Fairness

-----------------------------------------------------------------------------
\* However ticks, clicks, crashes and ends of runs fall, a trigger never has
\* more live runs than its overlap policy allows, although the guard and the
\* fetch lie between the count and the run: runs that ended and were brought back
\* aside, and triggers whose policy is edited or whose runs cannot be read.
CeilingHolds == \A t \in Bounded : live[t] <= CeilingOf[t]

\* "A finished Run drops out of the count, which is what makes `max simultaneous
\* live' hold": of all the live runs of a trigger.  A run that is brought back
\* breaks it (README, "Not kept").
SimultaneousLive == \A t \in Bounded : LiveRuns(t) <= CeilingOf[t]

\* Cron creates at most one run per slot, and one run for all the slots it
\* missed: between two runs it creates for a trigger nobody edits and whose slots
\* are written, a slot of the trigger has gone by.
NoBackfill ==
  [][\A t \in Steady :
       live'[t] > live[t] /\ task[Tick].step = "create" /\ task'[Tick].step = "next" =>
         \E s \in SlotsOf[CronOf[t]] : last[t] < s /\ s <= task[Tick].now]_vars

\* Unless the triggers stay paused, a trigger that came due is looked at, and its
\* slot moves on: no pause, crash, click or other trigger makes it rot.
DueIsEvaluated ==
  <>[]~paused =>
    \A t \in Steady : rows[t].next <= clock ~> rows[t].next > clock

=============================================================================
