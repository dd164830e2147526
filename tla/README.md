# PDO daemon: TLA+ models, checks and proofs

PDO is a daemon (`crates/pdo-daemon`, Rust, tokio) that runs pipelines of coding agents. A
pipeline is a graph of nodes; a **Run** is one execution of it; each node of a Run goes through
**iterations** (laps), and the agent of an iteration works in a tmux session of its own. All state
is an append-only SQLite log of events; what a Run *is* at any moment is the fold of its events
(`event_log::project`). Handlers (HTTP calls of agents and of the user, the scheduler's tails, a
periodic sweep, boot recovery) read that projection, decide, and append more events, with awaits in
between. The models below are about what those handlers, in any order, can do to a Run, and about
four things around it: the session cap, the Runs a Run starts, the triggers that start Runs, and the
terminals people watch them in.

Everything is read from the code under `src/crates/pdo-daemon/src`; paths below are relative to it.

## Inventory

| Component | Code | State | Operations | Hard part | Correct when |
|---|---|---|---|---|---|
| Event log and projection | `event_log.rs` | `RunState`: run status and reason; per node a status, a current iteration, one row per iteration | one fold step per event kind; `finalize` on every read | three redundant views of a node; handlers that test the raw status, readers that see the finalized one | status, current iteration and rows agree |
| Transition guard | `transition_guard.rs` | none | verdicts on start, completion, failure, interruption | collections relax the one-live-iteration rule | no iteration redone, none started beside a live one |
| Node lifecycle | `lib.rs`, `run_command.rs`, `declared_wait.rs`, `node_primitives.rs` | the log, the tmux sessions | complete, fail, skip, wait, release, stop, kill, mark done, skip, restart, recover, start, retry, pause, resume, reopen, cleanup | late calls, gestures on older iterations, spawns that are throttled or fail half-way | settled work is kept; a dead verdict has no live agent |
| Admission | `admission.rs`, `node_spawn.rs`, `retry_waiting_nodes` | slots (projected), `admission_lock`, waiting nodes | spawn, throttle, re-drive | count and reservation are several awaits apart; no timer wakes a waiter | cap respected; a free slot is offered |
| Run advance | `run_advance.rs`, `scheduler.rs`, `graph_resolver.rs`, `edge_router.rs`, `scheduler_interpreter.rs` | node statuses, fired edges, detached tails | fire edges, propagate death, auto-skip, spawn ready nodes, complete the Run | tails of parallel completions work on different snapshots | nodes start when fed, nothing is dropped, the Run ends |
| Loop regions, collections, switches | `scheduler.rs`, `loop_region.rs`, `condition.rs`, `switch_router.rs` | lap counter, caps, budgets, forced route | re-entry, exhaustion, end of the region, new caps | a cap edited while a lap runs; laps counted by tasks on old snapshots | laps whole and within the cap; a closed region stays closed |
| Sweeps | `stale_detector.rs`, `run_stale_detection`, `run_orphan_sweep`, `reconcile_run_level_stall` | none of their own | interrupt nodes with no session, kill sessions with no work, park Runs nothing drives | probes race with spawns | work is spared, the dead are noticed |
| Boot recovery and restart | `boot_recovery.rs`, `restart_verdict.rs` | the log and the sessions found | reconcile after a crash; re-attach | a crash between any two steps | no node is left running for nobody |
| Run tree | `run_tree.rs`, `child_awaiting.rs`, `run_advance.rs` 495-807, `lib.rs` 21840-22238 | parent links, binding markers, tombstones | create a child, gate, watch children, archive cascade, forget | children are read one by one, the cascade works on one reading of the tree, the watcher lives in memory | a parent's node ends after its children; no Run is orphaned; a forgotten Run stays so |
| Triggers | `trigger_scheduler.rs`, `fire_decision.rs`, `trigger_store.rs`, `lib.rs` 6763-7190 | next slot, live runs, pause, tick lock | tick, manual fire, edit, pause | minutes of guard and fetch between the count of live runs and the next one | overlap ceiling; no backfill; no trigger rots |
| Shared terminal | `shared_terminal.rs`, `pty_bridge.rs` | connections, pilot, roles, tmux clients and their flag | join, resize, take control, leave, follow | what the registry decides under its mutex is applied outside it | one pilot, everybody told, tmux obeys |
| I/O and read side | worktrees, sandbox, tmux, harnesses, prompts, skills, stats, costs, importers, self-update, frontend | | | | not modelled, see the end |

Components call each other as functions inside one process. What they share is the event log, the
tmux server and a few mutexes. The lifecycle guard runs inside every append; the spawner is called
by the tails, the re-drive and the user's gestures; every end of a node detaches a *tail* that first
fires the edges of that node in its own Run and then re-drives the nodes that wait for a slot in
every Run. At boot the orphan sweep and boot recovery run, in that order, before a request is served.

`PROJECT.json` lists the hazards line by line, with the properties that would catch each of them, or
why none does.

## Modules

| Module | Models | State | Uses |
|---|---|---|---|
| `RunLog` | the projection: an operator per event kind, and `View`, which is `finalize` | | |
| `TransitionGuard` | the guard's verdicts on a projection | | `RunLog` |
| `NodeLifecycle` | one Run; every handler as one step, but for a forced start that others overtake | `log`, `alive`, `starting` | `TransitionGuard` |
| `SlotPool` | what admission promises, abstractly | `holders` | |
| `Admission` | spawners, ends, re-drives; awaits as step boundaries | `run`, `node`, `session`, `task`, `lock` | `SlotPool` (refinement) |
| `RunAdvance` | detached tails on an acyclic pipeline | `run`, `node`, `fired`, `task` | |
| `LoopRegion` | one bounded region, its tails and the operator's commands | `log`, `loop`, caps, `fired`, `task` | `TransitionGuard` |
| `Recovery` | sweeps, reaper, crash and boot against spawns and gestures | `log`, `session`, `task`, `reaper`, `sweep`, `up` | `TransitionGuard` |
| `Triggers` | the tick, "Run now", edits, the pause, crashes | `rows`, `live`, `ended`, `revived`, `task`, `lock`, `clock` | |
| `RunTree` | Runs that start Runs: gate, watchers, archive cascade, forgetting | `log`, `here`, `forgotten`, `parent`, `marked`, `session`, `making`, `try`, `tail`, `cascade` | `TransitionGuard` |
| `RunTreeHistory` | the same with what came to life behind an attempt or the cascade, or was hidden from it | `rose`, `hidden` | `RunTree` |
| `SharedTerminal` | presence, settle, bridges and followers of one session | `conns`, `pilot`, `spectator`, `ignores`, ... | |
| `MC...` | an instance of each, and the properties no theorem speaks of | | |
| `...Proofs` | the theorems about each; `SharedResourceProofs` holds those of `Admission` and of `SharedTerminal`, which share no state | | |

**RunLog.** The fold is incremental, so the log is represented by the value it has reached, the
*raw* run. Each operator (`NodeStarted`, `NodeFailed`, `RunReopened`, ...) is the arm of
`apply_node_event`, `apply_run_event` or `apply_command_event` of the same name. The distinction
between the raw run and `View` is kept because some arms test the raw status although the handler
that appended the event looked at the finalized one. Timestamps, costs, skills and artefact names
are dropped; a reason is one of none, incident, message.

**NodeLifecycle.** An action is a whole handler, with every event it appends and every session it
spawns or reaps, in order. `SpawnNode` returns a set of outcomes (started, throttled, aborted
before `NodeStarted`, failed after it), since that depends on other Runs and on I/O. `Proposed`
over-approximates what the scheduler asks for. `Calls` lets an agent's call arrive after its session
died. `Addressed` bounds the iterations a gesture names to those a client has seen. The forced start of
a node (`force_spawn_node`) comes in two forms: `StartNode` runs to its end, and for a node of
`Overtaken` `AskStart` probes the guard and `OpenStarted`, some other handlers later, appends
`NodeStarted`, or has it refused, and opens the session in either case.

**Admission.** `TaskStep` follows `spawn_node` from one await to the next: guard probe, lock, count,
reservation or throttling, release of the lock, tmux. A task is a launch or the tail of an end whose
`retry_waiting_nodes` visits the Runs one by one. A Run may end by the edges of a completed node: an
agent's completion fires them before its tail re-drives anybody (`EndRun`), one by hand after that
(`EndRunLast`), which is what `CompletionOrder` distinguishes. A node stands for one iteration. `Starves(n)` says
that a free slot is within reach of the waiting node `n`, `Offered(n)` that some task will offer it one.

**RunAdvance.** A task is the sequence of phases `complete_node` runs after a completion
(`CompletionFirst` or `SweepFirst`), the tick that launches the Run, or a re-evaluation after a
resume. Entering a phase reads the state and fixes the actions to do; the actions are then single
steps, and other tasks run between them. Which conditional edges of a node fire is chosen once, when
the node settles: the artefact they read does not change. `Dead` is the fixpoint of `is_node_dead`.

**LoopRegion.** The same tails on a graph with one region, over the real projection of `RunLog`, so
that a lap is an iteration and a member keeps the status of its last lap as it does in the code. The
scheduler's decisions (`ForwardIter`, `Reentry`, the exhaustion and end-of-region exits, the budget)
are operators. A task holds the set of decisions it made on its snapshot, each with its place in
the code's order, and carries them out one at a time from the first place on; where the code's order
says nothing to the model (the settled nodes of a re-evaluation) they come in any. The operator ends the region, sets its caps or forces its exit; each command is followed by the
re-evaluation of every settled node. The cost of a lap is one unit for each completion of a node of
`Charged`.

**Recovery.** The log and the tmux sessions survive the daemon; tasks, the reaper's pass and the
sweep's pass are its memory and are lost in `Crash`. Steps are cut where another handler can get in:
`NodeStarted` and `tmux new-session` (`Reserve`, `OpenSession`), a completion, the reaping of its
session and the spawns behind it (`AgentDone`, `Reap`, `Advance`), the inventory, the log read and
the kills of the reaper (`ListSessions`, `Judge`, `KillCondemned`), the snapshot of the sweep and its
probes (`Look`, `Probe`, `Reconcile`). Boot is the reaper's pass and then `RecoverRun`. Durations
are two flags: a completion is fresh or older than the reaper's TTL, and the reconciliation of a
stalled Run, which waits two minutes after the last event, finds no task at work (`Quiet`); at boot
it may or may not have waited that long.

**Triggers.** A tick lists the due triggers under `trigger_tick_lock` and evaluates them one by one;
"Run now" takes the same lock. Between the count of live Runs and the created Run lie a guard command
and a fetch, each a step boundary; edits, the pause and the end of Runs come in between. A slot is a
number; `NextFire` is `recompute_next_fire` over the slots of a cron. The client of "Run now" may go
away at any await, which drops the request and its lock. An ended Run may be re-opened, retried or
restarted, which asks nobody (`Reopen`); it then counts among the live ones again (`LiveRuns`). The
ceiling is a field of the row, which an edit changes, and of the copies that tick and request read
before. Runs that cannot be read are not counted (`Counted`), and a slot that cannot be written is
only logged (`SetNextFire`).

**RunTree.** A family of Runs, each with one node at one iteration. `here` are the Runs that have
events, `forgotten` the tombstones, `marked` the Runs with the `children_pending` marker. An attempt
to complete a node is an element of `try`: place 0 is the agent's request, the others are the
watchers' own calls. It goes from await to await: `Complete` reads the guard and lists the children,
`ReadChild` reads them one at a time, then `Pass` or `Refuse` (which appends the marker and posts a
watcher), then `Deliver`, which looks at the log again. A watcher sleeps, wakes, reads the children
and either attempts the completion or sleeps again (`Wake`, `ReadChild`, `Conclude`). A creation is
claimed first and appended later (`Claim`, `StartRun`). `cascade` holds what one reading of the tree
decided to archive, and `ArchiveNext` takes it down one Run at a time. `ForgetRun` is one transaction.
Where a log, or the list of children, cannot be read (`Unreadable`), the code goes on with what it has: an attempt
or a watcher of that Run is over (`Lost`), the gate sees fewer children or none (`Readings`, `ReadChild`),
and the cascade passes over the Run and what is below it (`Below`, `CleanupRun`).
`CrashAndBoot` loses attempts, watchers, tails, creations and the cascade; boot keeps or interrupts
each node. `RunTreeHistory` adds two history variables. `rose` holds, for each attempt past its reading and
for the cascade, the Runs that came to life since it began; `hidden` the Runs the cascade may not have
seen when it did. What a handler decided before them it
cannot know, and the code does not look again. For the cascade a Run that a late fail tail takes out of
the archive counts too.

**SharedTerminal.** `Join`, `Resize`, `TakeControl` and `Leave` change the presence under the
registry's mutex; `Push` is the loop of `settle`, one connection at a time, because the bridges and
the followers read their role without the mutex. A follower applies the role to its tmux client with
`refresh-client`; a `Slow` client never answers it. In the middle of a settle there may be two
connections that type, or none: `RolesAgree` is stated between settles.

## Runs

| Run | Instance | Distinct states | Shows |
|---|---|---|---|
| `LifecycleLaps` | 1 interactive node in a region, 3 laps, latest iteration addressed | 72,856 | one live iteration, status and rows agree, settled work kept |
| `LifecycleCollection` | 1 node under a collection, 2 laps, any iteration addressed, its forced start overtaken | 46,089 | settled laps kept, no work starts in a closed Run |
| `AdmissionCap` | 2 nodes of 2 Runs, cap 1, one faulty; both paused, one archived | 141,852 | cap, exclusivity of the reservation, refinement of `SlotPool`, a freed slot is offered, spawns and the lock make progress |
| `AdvanceClassifier` | 4 nodes, 2 guarded branches, halting exit, pauses and re-openings | 727,652 | nothing starts unfed, is dropped, or is forgotten; no completion while a branch works |
| `LoopRegion` | planner, optional stage, two members, 3 laps, 2 commands | 31,011 | laps whole and within the cap, a closed region stays closed, a raised cap resumes, every Run ends or is parked |
| `Recovery` | 2 nodes, in a chain or side by side; 1 crash, 1 gesture | 192,484 | the reaper spares work, dead sessions are noticed, left ones reaped, a Run nothing drives is parked |
| `Triggers` | 2 triggers, 2 slots, one with a guard and Runs brought back, one edited and whose reads and writes fail, a pipeline that comes and goes, 1 crash | 441,240 | Runs created for a trigger stay within its ceiling, no backfill, a due trigger is evaluated |
| `SharedTerminal` | 3 sockets of 2 or 3 browsers | 874,562 | roles agree, the hand is only taken, the flag of each client follows |
| `TreeBinding` | a parent and its child, 1 watcher; 3 of restart, re-opening, archive | 246,069 | no attempt passes over a live or failed child; a parked node has a watcher, and is completed once no child holds it |
| `TreeFaults` | the same two, all seven gestures, failures, a crash, a refused delivery, logs that cannot be read | 1,374,413 | a forgotten Run stays forgotten |
| `TreeCascade` | a family of three in every shape; archive, re-opening, failing node and teardown, one log that cannot be read | 456,912 | nothing live the cascade saw is archived or orphaned, leaves go first |

`RecoveryReopen` states what a comment says and finds the code doing otherwise; the finding in
`PROJECT.json` quotes the line. It needs no race: one node is interrupted and nothing else happened to the Run. Its
status in the fold is then still *running*; only `finalize` makes it *awaiting*. `reopen_run` is
accepted on the finalized status and `apply_command_event` tests the raw one, so the request answers
200 and the Run stays where it is. The commands that embed a re-opening have the same gap, but
`restart_node` starts the node itself and so gets out of it.

### Not kept

Four more statements the code's comments make are in the modules and are not kept by the code. No run
has them; added to the configuration named, TLC finds each violated within a few minutes.

| Statement | Comment | Add it to | What happens |
|---|---|---|---|
| `SessionsAreStarted` | lib.rs:20485-20488, "a rejected append leaves no orphan session" | `LifecycleCollection` | a node is skipped, or its Run ends or is paused, while `force_spawn_node` awaits the settings and the admission lock; its `NodeStarted` is refused, which is logged (20479), and the session is opened |
| `EndedRunsSlotIsOffered` | run_command.rs:2373-2378, "the site that frees a slot must re-drive the queue" | `AdmissionCap` with `Nodes = {a, b, c}` | a node is completed by hand; its tail re-drives the queue, finds the node beside it still at work, and then fires the edge that ends the Run (run_advance.rs:448): a node of another Run waits beside a free slot |
| `SimultaneousLive` | lib.rs:6760-6762, "which is what makes "max simultaneous live" hold" | `Triggers` | a Run of a trigger that skips overlaps ends, the next slot starts another, and the first is re-opened (lib.rs:20012-20039) |
| `GateNeverWrong` | run_advance.rs:569-570, "plus lent, jamais faux" | `TreeCascade` | the log of a live child cannot be read (run_advance.rs:602), or the Runs cannot be listed (588-593): the parent completes above it |

### Bounds

* `MaxIter`: gestures compare an iteration with the latest one and with iteration 1; three
  iterations give one before, between and after. Two suffice for side-by-side laps; three laps and a
  declared cap of two give a region a lap beyond the cap to be raised to.
* One node in the lifecycle runs: handlers of different nodes meet only through the Run's status,
  which every gesture of the one node and `RouteToEnd` already drive through all its values. The
  theorems are for any number of nodes.
* Two spawners and a cap of one: one that fills the pool, one that races for it. The same safety
  properties were checked once with three nodes and a cap of two (1.56 million states), and the
  theorems are for any number.
* Pipelines of three and four nodes: a producer, two branches, a convergence, an exit is the
  smallest graph with multi-match, suppression and transitive death.
* In `Admission` a node that ends again waits for the tail of its previous end; in `RunAdvance` one
  resume is re-evaluated at a time and `ReconcileStall` only acts when no task is at work (its grace
  is two minutes against tails of milliseconds).
* `LoopRegion`: one region, in a graph that is acyclic but for its back-edges; `MaxCommands` commands,
  one at a time; `Prompt`, by which an agent is not done before the daemon has done what its start
  left to do. Interruptions are left to `Recovery`.
* `Recovery`: one Run, every node at its first iteration; one request of the operator at a time;
  `MaxCrashes` and `MaxGestures` (the safety property was also checked with three gestures); no
  failures, stops and retries, which are `NodeLifecycle`'s, so no blocker of `run_stall_reason`; the
  probe, the append and the reap of one node are one step; a tail that panics is left out.
* `Triggers`: the clock and the slots end at `MaxTime`; `Edited`, `Clicked`, `Guarded`, `Reopened`,
  `Unreadable`, `Unwritable` and `Fragile` say which trigger or pipeline an event may happen to, so that
  one trigger has a schedule nobody touches. The edited one has one pipeline and one ceiling to choose
  from: what else it may be edited to is its own affair, and the theorems are for any. Of each trigger
  `MaxLive` created Runs are live at a time, one above the ceiling, and one that was brought back.
* `RunTree`: `Family`, `MaxWatchers`, `MaxGestures`, `MaxCrashes`. A parent and a child suffice for the
  gate and the watcher: attempts of different parents share nothing but the log of a child, and of
  several children one that holds is enough (the gate was also checked once with two children). The
  cascade needs a grandchild, for which no watcher is needed. Two watchers of one node arise when a
  restart leaves the first one asleep: checked once with two gestures, and the theorem is for any number.
  `Parents`, `Failing`, `AutoFail`, `Undelivered` and `Unreadable` say which Runs create Runs, may fail,
  end with their failed node, may have a delivery refused, and may fail to be read.
* `SharedTerminal`: one session; `Resizers` and `Sizes`.
* `Resumable` lists the statuses in which the user issues a resume.
* `Overtaken`: the nodes whose forced start other handlers may overtake; starts of different iterations of
  one node may be under way at a time.
* Deadlock is not checked (`CHECK_DEADLOCK FALSE`) in the admission, advance and tree runs: Runs that
  ended with no task left really stop. The other runs check it.

### Fairness

* `Admission`: weak fairness of each task (tokio polls every ready task) and strong fairness of
  taking the lock (tokio's `Mutex` is FIFO, so a task that queues again and again gets it). Nothing
  is assumed of agents or of the user.
* `LoopRegion`: weak fairness of the daemon's tasks and of an agent at work being done: that agents
  finish is an assumption about the environment, without which no Run ends.
* `Recovery`: weak fairness of each task, of the reaper and of the sweep (interval timers), of boot
  after a crash (the service manager restarts the daemon) and of the passing of the TTL. No agent has
  to finish, no operator to come, and nothing has to fail or crash.
* `Triggers`: weak fairness of the tick and of the steps under its lock (guards and fetches have
  timeouts), strong fairness of taking the lock, for the same reason as above.
* `RunTree`: weak fairness of each attempt (handlers run on, watchers wake from a timer) and of each
  tail. No agent has to complete, no operator to come.
* `SharedTerminal`: weak fairness of settle, of the bridges and followers and of tmux listing a client
  that is not `Slow`.

## Theorems

| Theorem | Statement | Assumption |
|---|---|---|
| `LifecycleTypeOK` | `Spec => []TypeOK` | none |
| `NeverTwoLiveIterations` | `[]OneLiveIteration` | `Sequential` |
| `TheLiveIterationIsLatest` | `[]LiveIterationIsLatest` | `Sequential` |
| `StatusAndRowsAgree` | `[]BusyNodeOwnsLatestRow` | `Sequential` |
| `NoWorkBehindAnEndedNode` | `[]LiveRowKeepsNode` | `Sequential` |
| `FailureTakesTheSession` | `[]FailedHoldsNoSession` | `Sequential` |
| `SettledWorkKept` | `Spec => SettledSticks` | `Sequential` |
| `SettledLapsKept` | `Spec => SettledLapsStick` | none |
| `OpenRunsOnly` | `Spec => StartsOnlyInOpenRuns` | none |
| `AdmissionTypeOK` | `Spec => []TypeOK` | none |
| `ReservationIsExclusive` | `[]CountToReserveIsExclusive` | none |
| `SlotsNeverExceedCap` | `[]SlotsWithinCap` | `Reopens = {}` |
| `AdmissionImplementsPool` | `Spec => PoolSpec` | `Reopens = {}` |
| `FreedSlotsOffered` | `Spec => FreedSlotIsOffered` | `Reopens = {}` |
| `RecoveryTypeOK`, `TriggersTypeOK`, `TerminalTypes`, `TreeTypeOK`, `AdvanceTypeOK`, `LoopTypeOK` | `Spec => []TypeOK` of each module | none |
| `NoReadyNodeIsForgotten` | `[]NothingReadyIsLeft` | `Redriven` |
| `NothingStartsUnfed`, `NothingEndsUnfed` | `[][StartsOnWork]_vars`, `[][EndsOnWork]_vars` | none |
| `DeathIsWellDefined` | one set alone meets the definition of `Dead` | none |
| `ConvergencesWait` | `Spec => StartsAreFed` | `Shallow`, `Uniform` |
| `SkipsAreClean` | `Spec => SkipsDropNothing` | `Shallow`, `SoleInputs` |
| `CompletionIsWhole` | `[]CompletedMeansDone` | `Shallow`, `Uniform`, `SoleInputs`, `OneExit`, `AllLead` |
| `ClosedStaysClosed` | `Spec => ClosedForGood` | none |
| `LapsStayWithinCap` | `[]LapsWithinCap` | `[][cap' >= cap]_cap` |
| `LapsAreWhole` | `Spec => WholeLaps` | `Prompt`, `Whole(body)` |
| `RunsEndWhole` | `[]RunEndsWhole` | `Prompt`, `EndsRun(body)` |
| `ReaperSparesWork` | `Spec => SparesWork` | none |
| `CeilingNeverExceeded` | `[]CeilingHolds` | none |
| `NothingIsBackfilled` | `Spec => NoBackfill` | none |
| `RolesAlwaysAgree` | `[]RolesAgree` | none |
| `FlagsInSync` | `[]FlagInSync` | none |
| `HandIsOnlyTaken` | `Spec => HandIsTaken` | none |
| `ForgottenForever` | `[]ForgottenStaysGone` | none |
| `ParkedAlwaysWatched` | `[]ParkedIsWatched` | `Undisturbed` |
| `TheGateHolds` | `HistorySpec => GateHolds` | none |
| `LeavesFirst` | `HistorySpec => SubtreeFirst` | none |
| `NobodyOrphaned` | `HistorySpec => NoOrphan` | none |

Every invariant and every action property a passing run checks is stated by one of these, for every
value of the constants the assumptions allow.

Besides the assumptions named in the modules (node sets, caps in `Nat \ {0}`, acyclic pipelines, in
`LoopRegion` one region outside which no edge lies on a cycle), `Sequential` is
`LapNodes = {} /\ Routed = {} /\ LatestOnly /\ Overtaken = {}`: no collections, no exhaustion exits or
forced routes, gestures name the latest iteration, and nobody overtakes a forced start. With an older
iteration addressed the projection takes the node's status from whichever event came last, and an
overtaken start may leave a session nobody started; with either the statements fail.

Other statements are unconditional because they name what they leave out: `FreedSlotIsOffered` the slots
given back by a failing spawn, an archive or a late end, `CeilingHolds` the Runs that were brought back
and the triggers in `Edited` or `Unreadable`, `NoBackfill` those in `Edited` or `Unwritable`,
`GateHolds` parents and children in `Unreadable`, `NoOrphan` and `SubtreeFirst` what was `hidden`. What
happens there is under *Seen while modelling*.

**Lifecycle.** None of the four invariants is inductive alone: that a start is refused beside a live
iteration depends on the node's status being one the guard reads as live, which depends on the rows.
`CleanRun` says that a row an agent works on is its node's current and latest one and the node's
status one that can progress, that a status that holds a session has such a row, and that a failed
row has no session behind it (a completion is accepted on a failed row, so its agent must be gone).
One lemma per event kind shows the event keeps it under the guard's verdict (`StartedClean`,
`FailClean`, ...), `SpawnClean` and `RedriveClean` lift that to sets of outcomes, and one lemma per
group of handlers to the step. `RunLogProofs` holds what they rest on: types of every event, and
that `finalize` keeps statuses and rows and picks an existing maximum.

`SettledSticks` and `SettledLapsStick` have one argument. A handler forgets whole nodes (`Forgets`),
writes one row its guard has found unsettled (`Writes`), or does the one and then the other
(`ForgetThenWrite`); no guard is needed from the other handlers, so nothing is assumed of the laps.
`node_stop` writes without asking, to the row `finalize` names: `CleanRun` shows that row unsettled
where laps are sequential, and elsewhere it may be settled. `OpenRunsOnly` looks at where each handler
puts an iteration to work: a start the guard allows, a re-opening or a retry each leave a Run that accepts
node events, and everything else is `Quiet`, a row at work after it being at work before (`StartsInto`). It
speaks of the log, not of sessions: an overtaken forced start does open one in a closed Run, and that is
what `SessionsAreStarted` forbids (*Not kept*). The append asks the guard again (`AppendStarted`), so no
work starts there.

**Admission.** `SlotsWithinCap` is not inductive: that a reservation fits depends on what the count
found some steps earlier. `CapInv` adds that a task that is to be admitted still finds a free slot
besides its own (`AdmittedFits`), which survives other tasks' steps because nobody else is between
count and reservation (`ReservationIsExclusive`), and that steps outside the lock only give slots
back (`GivingBackFits`). Refinement follows: a reservation is `Acquire`, everything else gives back or
stutters.

A re-opened Run counts its still-running nodes again without asking admission, so `Reopens = {}`
cannot be dropped. `FreedSlotIsOffered` is about the one step that frees a slot: if the pool was full
before and is not after, a holder left, and the only steps by which a holder leaves are the end of a
node or of its Run, whose tail it leaves behind, and the excepted ones. The invariant it needs is that a task about
to throttle its node holds no slot through it (`ThrottledHoldsNone`): otherwise `NodeWaiting` would free
one.

**RunAdvance.** `HandOver` says what the edges that fired mean: they leave settled nodes, all unguarded
ones of a settled node are among them, and what a task is to start or to end was handed over by one
of them. With it nothing starts and nothing ends unfed, in whatever order tails, sweeps and
re-evaluations come. `NothingReadyIsLeft` needs more: while the Run goes on, every ready node has a task
that is to start it, or that has a look at the ready nodes or a re-evaluation still ahead
(`ReadyIsDriven`). A node becomes ready when a producer settles: a completion begins a tail with such a
look, and a skip comes from a sweep, which one follows (`PlanOK`). What was dropped while the Run was
paused is found again by the re-evaluation, if that sees as much as readiness does: `Redriven` is
`Resumable = {} \/ (OneRoot /\ Uniform)`. The re-evaluation looks at the fired edges of settled nodes,
so that a second root dropped in a pause is lost (`OneRoot`; the first one is there before anything
else, `RootFirst`); and it waits for all producers of a node while readiness asks for the unguarded ones
only (`Uniform`: no node waits for both kinds). Each was found necessary by TLC, and pipelines of one
root without mixed nodes, the checked instance among them, have both. That nobody is skipped before
somebody settled is where acyclicity comes in: `Dead` exists as the least set closed under death
(`DeadExists`) and is the only one that meets its definition (`DeadOnly`), so it is empty as long as no
node is settled.

What is promised of convergences is not true in every pipeline: a dead node whose producers are dead
themselves comes to life again when they are skipped (a dead branch of two nodes, below). `Shallow` asks
that every node in front of another is `Steady`: it always runs (`Sure`), or its producers always run,
so that it dies by guards that were decided. Such a node is `GoneForGood`: the only thing that can still
happen to it is its own skip (`GoneStays`). So a producer that is settled or gone stays so (`DoneStays`),
and so does an edge by which nothing comes (`LostStays`); what a task decided on its snapshot is still
right when it gets to it (`StartOK`, `SkipOK`, `EndOK`), and that is all `ConvergencesWait` and
`SkipsAreClean` need. `Uniform` is needed because readiness ignores the guarded producers of a node that
has unguarded ones, `SoleInputs` because a required input that died condemns a node whose other inputs
may have come. For `CompletionIsWhole` the producers of End are done when a task is to complete the Run;
that passes on to the producers of whoever is settled, running or gone (`FedOK`), and with every node in
front of End (`AllLead`) to all of them. `OneExit` allows the usual last node, which need not be `Steady`
if its edge is the only one that completes the Run. The instance the run checks is such a pipeline, which
`ClassifierAssumption` has TLC evaluate.

**LoopRegion.** What a task is to do was decided on an earlier state, so every invariant here says
what an action must meet as long as it waits, and every proof has the same three parts: a decision
meets it when it is made, waiting does not spoil it, and carrying it out keeps the rest. `NewDecision`
sums up the first for the types, the cap and the closing of the region: a step only takes decisions
away from a task or replaces them by ones made on what it finds, and those made then have a lap within
the cap, and none but the first once the region has ended (`Decided`). `LapsStayWithinCap` follows
with `PendingWithinCap`. A cap lowered in between would leave a decided lap beyond it, and does in the
code; so the theorem is about runs in which no command lowers it, as in the one that is checked.
`ClosedStaysClosed` assumes nothing: a closed region decides no more laps, by whatever way it was closed.

`LapsAreWhole` is about bodies that are a `Chain` of `Sure` members, whatever surrounds them. `LapInv`
has four parts: status and rows of a member tell the same laps (`TellsLaps`); no member is ahead of one
before it, nor the first more than a lap ahead of any (`InOrder`); a start that is decided may be
made at any later moment (`Pending`), because laps finished stay so; and a member whose tail is not over
has settled and is not started meanwhile (`Tails`), so that the tail speaks of the lap that ended. The
last needs `Prompt`, and is what fails without it. `Chain` bars a second back-edge and a convergence
inside the body, each of which breaks the property (*Seen while modelling*); that the members are `Sure`
keeps the sweep of the dead away from them, since a member skipped in its first lap never runs.

`RunsEndWhole` adds what becomes of the nodes around the region. `EndInv` says that those run once, that
all of them are settled or out of reach before the entry starts (`AllDone`), and that a Run completes
only by the exit of the last member (`Exited`), which does not go back as well. `EndsRun` is the shape
this takes: the last member's verdict is the only way out of the region and into `End`, and what is
outside comes before the region and feeds its entry. A node beside the loop that reaches `End` breaks the
property, as told below. `RunEndsWhole` itself speaks of Runs without a forced route. `Dead` is a least
fixpoint; that its members satisfy its rule (`DeadRule`) is all that is needed of it. The instance the
run checks is such a region: `ShapeAssumption` has TLC evaluate `EndsRun` on it.

**Recovery.** `SparesWork` speaks of a kill that comes two steps after the inventory. `Condemning`
carries the verdict across them: once the reaper is to kill, the Run is archived or every node on its
list is completed, and neither is taken back. `Good` says what a projection of this Run looks like
(one iteration a node; in a Run that completed or was parked no node is at work or interrupted), and
`Known` that a node that was ever listed never leaves the projection: the branch that condemns a
session because its node is not in the projection never bites on a node of this Run.

**Triggers.** A task that is to create a Run still finds room for it (`Admitted`), because outside
the lock Runs are only brought back, which `live` does not count, and end. What it compared with is the
trigger's own ceiling (`Rated`), whoever read it and when, as long as nobody edits it. `Scheduled` says
that the slot kept in the row of a `Steady` trigger is a slot of its cron after the last one it was run
for, `Listed` and `Firing` the same of the rows the tick holds a copy of. `NextFire` is a least element;
that it exists is `HasLeast`, from the library's theorem on well-founded orders.

**SharedTerminal.** `RolesAgree` holds between settles. Within one, the pilot is already right
(`Handed`) and every connection the loop is done with holds its role (`Told`). `Followed` ties the
flag of a client to the role: whoever holds another flag has a change it has not seen or is about to
apply one.

**RunTree.** `ForgottenStaysGone` follows from types: every append goes through `Append`, which looks for
the tombstone. `ParkedIsWatched` needs more. A node is parked by the marker alone, so a parked node is
marked (`TreeOK`); an attempt up to the gate knows exactly whether there is a marker, and a watcher
sleeps only above one (`TryOK`); at the gate of an unmarked Run the agent is still at work, so the
marker it appends parks a node that was running (`GateOK`); and every other append is harmless to a
parked node (`Harmless`). `Undisturbed` bars what does part the marker from its watcher: a pause, a
forced completion, a parent that fails, a refused delivery, a parent that cannot be read and a crash,
each told below.

What the gate and the cascade decide is compared with what came to life since (`rose`), so their
invariants speak of the parts of a snapshot. A child that is live or failed above whose parent an
attempt is at the gate is still to be read, or was read and holds, or rose (`GateKnows`), if both can be
read. Below a Run the cascade has yet to archive everything is to be archived too, is archived, rose or
is hidden (`CascadeKnows`): what `cleanup_run` did not find below a Run is unreadable or below what is
(`BelowSeen`).
Both need that the family is one: parents come before children, and nobody descends from itself
(`FamilyOK`). `Descendants` is the least set closed under children, so a lemma for each direction
(`DescendantsClosed`, `DescendantsLeast`) replaces the induction; a creation adds one leaf
(`BirthDescendants`), an archive and a deletion only take away. Nothing is assumed of the family, the
gestures or the crashes. `HistoryRecords` shows that the history variables only record:
`HistorySpec => Spec`.

## Only model-checked

* Everything under fairness (`LaunchConcludes`, `EveryRunEnds`, `RaisedCapResumes`, `NoGhost`, `NoLeak`,
  `NoSilentStall`, `DueIsEvaluated`, `FlagCatchesUp`, `ParkedIsFreed`), which is beyond the prover.
* What `LoopRegion` promises of regions that are no chain, of agents that are done before the daemon
  is (`Prompt = FALSE`), or of a Run with a way to `End` beside the loop. There it is not true (below);
  types, closing and, as long as it is not lowered, the cap hold in every region.
* What `RunAdvance` promises of convergences where optional branches are longer than one node. There it
  is not true (below); `NothingStartsUnfed` and `NothingEndsUnfed` hold in every acyclic pipeline.

## Seen while modelling

What follows is what the models do because the code does it, and no run states, with the document it
departs from where there is one.

Sessions and iterations

* A node whose session is being created can be declared dead: the sweep reads `NodeStarted`, probes
  before `tmux new-session` has run and interrupts the node; its agent then works in a session whose
  completion is refused, and the reaper never takes that session (`completed_at` is not set).
  CONTEXT.md:779 calls the verdict "exact par construction" and ADR-0032 §1 says "Aucun seuil, donc
  aucun faux positif possible". Six steps of `Recovery` without any crash reach it: `Advance`,
  `Reserve`, `Look`, `Probe`, `OpenSession`.
* A node that waits for its user and loses its session is noticed at boot only: `running_nodes` keeps
  `Running` nodes, CONTEXT.md:779 speaks of both statuses. `NoGhost` is about running nodes.
* A crash after the last `NodeCompleted` and before the tail's `RunCompleted` leaves a Run that is
  whole and running for ever: neither `run_stall_reason` nor boot completes it (CONTEXT.md:784 wants
  such a Run parked). `NoSilentStall` leaves whole Runs out.
* A re-attachment whose `tmux` call fails leaves `NodeStarted` without a session for the sweep.
* A re-attachment that the cap refuses appends nothing; the caller is told that the node "is queued — do
  not re-issue" (run_command.rs:459-473), but `reattach_node_session` has queued it nowhere
  (lib.rs:18181-18184), and nothing re-drives it.
* The session a refused forced start leaves behind (`SessionsAreStarted`, *Not kept*) works beside whatever the log says
  of the node: a completed or skipped row, or none, or the next start. A call it makes is judged by the
  log. The statements that tie sessions to rows, and those that rest on them, therefore ask for
  `Overtaken = {}`.
* An ordinary spawn opens its session after `NodeStarted` without a second look at the Run, several awaits
  later: a node skipped, stopped or completed by hand meanwhile, or whose Run was ended or archived, gets
  a session behind its settled row (`Reserve`, `OpenSession` in `Recovery`). The reaper takes it after its
  TTL, if the row has a time of completion.
* The reaper's `completed_at` is the node's, not the iteration's: a lap of a collection at work is
  condemned a TTL after a sibling lap completed (ADR-0038:174-177 accepts that).
* A verdict of the reaper and its kill are apart; a failed node whose own reap a crash took away, and
  that is restarted in between, would lose its new session (ADR-0038: "c'est toujours un TOCTOU").
* `mark_node_done`, `skip_node` and a retry's invalidation do not reap the session of the iteration
  they settle, although CONTEXT.md:781 wants at most one live iteration per node in tmux; a Run that
  fails or halts through one node leaves its siblings' sessions alive (`event_log.rs:284`).
* Re-opening drops an interrupted node with all its iterations, so that one interrupted in a later lap
  does its earlier ones again (`event_log.rs:3260-3262` and CONTEXT.md:433 say satisfied iterations
  stay). `SettledSticks` lets a node leave with all its rows.
* A late `NodeCompleted` of an older iteration sets the node's status; `NodeFailed` checks for that.
* `node_stop` on a collection may mark a settled lap stopped: it writes the row `finalize` names. The
  property `SettledLapsStick` leaves that step out.

Admission

* A throttled node may wait beside a free slot for ever. The spawner counts under the lock and finds
  none, a node of another Run ends and its tail re-drives the nodes that wait by then, and only then is
  `NodeWaiting` appended (node_spawn.rs:476). node_spawn.rs:441 says "`retry_waiting_nodes` re-drives it
  once a slot frees"; 448-449 note that it "has no timer".
* Admission counts nodes, so parallel laps of a collection share one slot; `waiting` owes the
  iteration it was throttled on, and `finalize` replaces it by the latest row.
* A spawn that fails after its reservation, and the resume of a paused Run with waiting nodes, free or
  reach slots without re-driving the queue. `FreedSlotIsOffered` leaves both out.
* Archiving a live Run frees its slots and re-drives nobody (`cleanup_run`, lib.rs:21874-22140), although
  run_command.rs:2375-2381 says that the site that frees a slot must re-drive the queue: a node of another
  Run waits on beside the free slot. `FreedSlotIsOffered` leaves that step out.
* A re-opened Run counts its still-running nodes again without asking admission.
* A completion by hand fires its edges after its re-drive (`SweepFirst`, run_advance.rs:448-452). If they
  end the Run, the slots of its other nodes are free and nobody offers them (`EndedRunsSlotIsOffered`, *Not kept*);
  run_command.rs:2373-2381 says what has to be done then, and the re-evaluation after a command does it.

Triggers

* A Run that is brought back does not ask the overlap policy of the trigger that created it
  (`SimultaneousLive`, *Not kept*); the next slot counts it, the Run that is live beside it stays.
* The count fails open: no live Run where the Runs cannot be listed, one less for every log that cannot
  be read (lib.rs:6766-6775), so the ceiling does not hold then.
* A slot that cannot be written is logged and the Run created (lib.rs:7081-7087): the next tick finds
  the same slot due and fires it again.
* "Run now" reads the trigger before it waits for the lock, and the tick lists all due rows when it
  begins: either may hold a trigger to a ceiling that was edited since.
* A trigger whose pipeline cannot be loaded at its slot loses the slot and sleeps until it is edited
  (lib.rs:6996-7011, deliberate). `DueIsEvaluated` holds of it.

Graphs

* A dead node may come to life again. On a dead branch of two nodes the sweep skips both, one by one;
  the skip of the first fires its unguarded edge into the second, which is then no longer dead but ready
  (scheduler.rs:1468-1552 calls a dead edge "permanently unable to deliver its artifact"; a skipped
  producer counts as settled in `ready_nodes`, graph_resolver.rs:9-95). A task that looks in between, the
  re-evaluation after a resume for one, starts it, and the skip that was still to come completes it
  under its agent or lets the Run complete while it works (`sweep_auto_skips`, run_advance.rs:128-222).
  The classifier's branches are one node deep in front of a convergence, where End waits behind it.
* Of two roots, one that a pause caught before its start is not started by the resume: the
  re-evaluation looks at the edges of settled nodes, and the launch tick is over
  (`re_evaluate_after_command`). Only the reconciliation parks such a Run.
* A node with guarded and unguarded incoming edges is ready once the unguarded producers settled, but the
  edges of those wait for the guarded producers, too: what a pause dropped, the resume does not start.
* A node fed by guarded edges only is not looked at again when its last branch is suppressed
  (ADR-0079:35; `scheduler.rs` 397 and 1218): `ready_nodes` looks at unconditional edges.
* A Run parked as unrouted is completed by the sweep of the same tail, which skips its way to `End`
  (ADR-0079:39-40, CONTEXT.md:342; `run_advance.rs:128`).
* A node with a dead required input is skipped by the sweep and started by the edges, whichever of the
  two comes first in the tail (`scheduler.rs` 1556-1564 against 1170; `run_advance.rs:310`); and a node
  skipped for that reason fires its edges, so one in front of `End` completes the Run while a branch
  that fed it is at work. The instance of `AdvanceClassifier` has required inputs at the branches,
  where none of this can happen.
* `should_complete_run` counts `Start` and `End` among the nodes that must have completed, and they
  never are in the projection: only an edge into `End` completes a Run, and `advance_run`'s own check
  counts all nodes of the edited pipeline.

Loop regions

* A region that exhausted its laps parks the Run, and the sweep of the same tail finds the node behind
  the loop unreachable (scheduler.rs:1484), skips it and fires its edges, which complete the Run.
  CONTEXT.md:168 wants an exhausted loop to block, "Pas d'auto-proceed implicite".
* A branch beside a loop that reaches `End` between two laps completes the Run over the lap that
  follows: a member keeps the status of its last lap (scheduler.rs:1208), and scheduler.rs:346 calls
  `End` "a CONVERGENCE BARRIER" against exactly that. `RunEndsWhole` holds in `LoopRegion`, where the
  loop is the only way to `End`.
* `LoopIterStarted` is applied from the snapshot that decided it: where an agent is done before the
  daemon has finished with its start (`Prompt = FALSE`), the counter goes back and the loop stalls.
* `complete_node` passes the node, not the iteration, to its tail: a slow tail that sweeps first fires
  the edges of the lap that is at work by then.
* Lowering the cap below a lap at work stalls the Run in silence: the next member is refused its lap,
  nothing parks the Run, and its open region keeps the reconciliation away.
* A member interrupted in its second lap and re-opened starts at iteration one, and the back-edge of
  its lap is dropped; two back-edges of different members let the slower one stall; in a body with a
  convergence, the join may start a lap on the output of the previous one. `Chain` leaves the last two out.
* `mark_node_done` before the first lap, or an entry fed by `Start`, never seeds the state of lap one
  (ADR-0025 §4).

Trees of Runs

* After a restart of the daemon nobody completes a parked node whose session survived: the watcher is
  a task whose only caller is the gate (run_advance.rs:675) and boot posts none. ADR-0064:3 says that
  the watcher completes the node, run_advance.rs:699-701 that re-adoption comes for free.
* The only child of a parked node is archived and forgotten: the watcher's verdict is `NoChildren` from
  then on, which is not `AllSettled`, and it sleeps for ever (run_advance.rs:751; 631-632 and
  tests/orchestrator_binding.rs:661 let forgotten children hold nothing).
* The node of a refused completion is restarted: iteration and marker are the same, so the watcher
  completes it under the new agent (run_advance.rs:794, against 743-745 "on ne lui arrache jamais la
  complétion").
* A marker lands on a node completed meanwhile: `NodeAwaitingUser` is not guarded, and `mark_node_done`
  may come while the gate reads the children (run_advance.rs:665, against transition_guard.rs:4-5).
* A child re-opened between the look of the cascade and its turn is archived while it runs
  (lib.rs:21942, against 21885-21889). `NoOrphan` leaves out what came to life behind the cascade.
* A child whose log cannot be read holds nobody, and nobody is held where the Runs cannot be listed
  (`GateNeverWrong`, *Not kept*): only the first of the two queries that list the children has a fallback. A child whose
  tombstone cannot be read holds its parent, so the same function fails closed there
  (run_advance.rs:613-620).
* A watcher ends on the first error of the database (run_advance.rs:720-728), and the node it stood for
  stays parked until somebody completes it again. `ParkedIsWatched` is about parents that can be read.
* The cascade passes over a Run whose log cannot be read and over what is below it (lib.rs:21858-21870,
  so that an unrelated log does not block it): live descendants may be orphaned.
* A child created after its parent's attempt has listed the children, or whose claim was verified
  before, does not hold the parent.
* A watcher that finds all children settled while the Run is paused has its completion refused and is
  gone; the node is parked and unwatched when the Run is resumed. A refused delivery ends the watcher in the same way, and a fail tail that comes after
  a restart and a new marker parks a node nobody watches.
* A fail tail that comes late appends `RunFailed` to a Run archived meanwhile.
* CONTEXT.md:541, ADR-0064:3 and run_advance.rs:506-508 say that archiving a parent touches no child;
  since the archive cascade (lib.rs 21885-21954) it archives the subtree.

## Not modelled

* Of the Run tree, the roll-up of costs (`tree_cost.rs`) and the list of waiting children
  (`child_awaiting.rs`), which only read, and more than one node in a Run.
* Several regions, nested ones, Loop and Switch nodes, the barrier of a collection over a list, and
  `bump_region`.
* Worktrees and merge-back (git), the sandbox's preparation, harness catalogues, prompts, skills,
  libraries, importers and migrations, statistics and costs, self-update and the frontend: I/O, text
  or read-side code with no protocol of its own.
* The gap between the guard's read and the insert of one append: validation and insertion are one step
  in every module.

Inside modelled components: see the notes in `PROJECT.json` (`components`).
