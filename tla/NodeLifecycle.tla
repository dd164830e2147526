---------------------------- MODULE NodeLifecycle ----------------------------
(***************************************************************************)
(* One Run under the gestures of its scheduler, its agents and its user,   *)
(* with every handler run to its end before the next one starts, save the  *)
(* forced start of a node of Overtaken.  The state is the raw run its      *)
(* event log folds to, the tmux sessions that are alive and the forced     *)
(* starts under way.  A handler's effect is a set of outcomes, records of  *)
(* log and sessions: spawning may be throttled by other runs or may fail.  *)
(*                                                                         *)
(* Abstracted: git worktrees, artefacts, output validation, the sandbox    *)
(* and parent/child runs; a handler they make refuse is an outcome that    *)
(* changes nothing more.                                                   *)
(***************************************************************************)
EXTENDS TransitionGuard

CONSTANTS
  Regions,     \* nodes that are members of a bounded loop region
  Routed,      \* targets of exhaustion exits and of forced routes
  Downstream,  \* node -> the nodes its retry invalidates
  LatestOnly,  \* gestures address the node's latest iteration only
  Overtaken    \* nodes whose forced start other handlers may overtake

ASSUME LifecycleAssumption ==
  /\ Regions \subseteq Nodes
  /\ Routed \subseteq Nodes
  /\ Downstream \in [Nodes -> SUBSET Nodes]
  /\ LatestOnly \in BOOLEAN
  /\ Overtaken \subseteq Nodes

VARIABLES
  log,    \* the raw run
  alive,  \* the live tmux sessions, as <<node, iteration>>
  starting \* the forced starts that have passed their probe of the guard

vars == <<log, alive, starting>>

Sessions == Nodes \X Iters

TypeOK == log \in Runs /\ alive \subseteq Sessions /\ starting \subseteq Sessions

Init == log = FreshRun /\ alive = {} /\ starting = {}

Outcome(r, a) == [log |-> r, alive |-> a]
Become(o) == log' = o.log /\ alive' = o.alive

(***************************************************************************)
(* Guarded appends and the pieces handlers share.                          *)
(***************************************************************************)
AppendFailed(r, n, i) ==
  IF ValidateFail(View(r), n, i) = "allow" THEN NodeFailed(r, n, i) ELSE r

AppendInterrupted(r, n, i) ==
  IF ValidateInterrupt(View(r), n, i) = "allow" THEN NodeInterrupted(r, n, i) ELSE r

\* Mutated form: the probe made before the awaits is taken at its word.
AppendStartedAsProbed(r, n, i) == NodeStarted(r, n, i)

AppendStarted(r, n, i) ==
  IF ValidateStart(View(r), n, i) = "allow" THEN NodeStarted(r, n, i) ELSE r

\* The iteration a gesture names: one its client has seen (the latest one, if
\* LatestOnly) or iteration 1, the default of a request that names none.
Addressed(n, i) ==
  IF LatestOnly THEN i = IF Rows(log, n) = {} THEN 1 ELSE LatestRow(log, n)
  ELSE i \in Rows(log, n) \cup {1}

\* An agent calls from its live session, or its call was in flight when the
\* session died.
Calls(n, i) == <<n, i>> \in alive \/ (i \in Rows(log, n) /\ Addressed(n, i))

NeedsReopen(v) ==
  \/ IsTerminal(v.status) /\ v.status # "archived"
  \/ v.status = "awaiting" /\ v.reason # "none" /\ ~IsDeclaredWait(v)

EmbedReopen(r) == IF NeedsReopen(View(r)) THEN RunReopened(r) ELSE r

SpawnRefused(r, a, n, i) ==
  \/ ValidateStart(View(r), n, i) = "reject"
  \/ i \in LiveIteration(View(r), n) /\ <<n, i>> \in a

\* spawn_node: started, throttled by the session cap, aborted before
\* NodeStarted, or failed after it.
SpawnNode(r, a, n, i) ==
  IF SpawnRefused(r, a, n, i) THEN {Outcome(r, a)}
  ELSE {Outcome(NodeStarted(r, n, i), a \cup {<<n, i>>}),
        Outcome(NodeWaiting(r, n, i), a),
        Outcome(AppendInterrupted(r, n, i), a),
        Outcome(AppendInterrupted(NodeStarted(r, n, i), n, i), a)}

(***************************************************************************)
(* The scheduler                                                           *)
(***************************************************************************)
\* What the scheduler may ask for: a node that is not in the projection, at
\* iteration 1; the next lap of a member of a bounded region once a member
\* completed; the laps of an open collection; iteration 1 of the target of
\* an exhaustion exit or of a forced route, whatever became of it before.
Proposed(v, n) ==
  {i \in Iters :
     \/ i = 1 /\ (v.nodes[n].st = "absent" \/ n \in Routed)
     \/ /\ n \in Regions /\ i = v.nodes[n].iter + 1
        /\ \E m \in Regions : SettledComplete(v.nodes[m].st)
     \/ IsOpenCollectionLap(n, i)}

Schedule(n) ==
  /\ RunAcceptsLifecycle(View(log))
  /\ \E i \in Proposed(View(log), n) : \E o \in SpawnNode(log, alive, n, i) : Become(o)

RetryWaiting(n) ==
  /\ RunAcceptsLifecycle(View(log))
  /\ log.nodes[n].st = "waiting"
  /\ \E o \in SpawnNode(log, alive, n, View(log).nodes[n].iter) : Become(o)

\* What firing a completed node's edges may emit when they lead to End: the
\* run completed (a forced or exhausted route waits for nobody), halted (an
\* edge with a reason), or parked (nothing routed, a region budget spent).
\* RunAdvance models which of them, and when.
RouteToEnd ==
  /\ RunAcceptsLifecycle(View(log))
  /\ \E n \in Nodes : SettledComplete(log.nodes[n].st)
  /\ log' \in {RunCompleted(log), RunHalted(log), RunInterrupted(log)}
  /\ UNCHANGED alive

\* re_evaluate_after_command: the spawns the projection calls for, less the
\* superfluous ones.  The handler awaits between two spawns; the second and
\* the following ones are steps of Schedule.
Redrive(r, a) ==
  {Outcome(r, a)} \cup
  UNION {SpawnNode(r, a, p[1], p[2]) :
           p \in {q \in Nodes \X Iters : /\ RunAcceptsLifecycle(View(r))
                                        /\ q[2] \in Proposed(View(r), q[1])
                                        /\ ~SpawnSuperfluous(View(r), q[1], q[2])}}

(***************************************************************************)
(* The agent of iteration i of node n                                      *)
(***************************************************************************)
AwaitsRelease(v, n, i) ==
  n \in Interactive /\ v.nodes[n].row[i] # "none" /\ i \notin v.nodes[n].released

CheckLiveSession(v, n, i) ==
  /\ IsLive(v.status)
  /\ HoldsSession(v.nodes[n].row[i])
  /\ i = v.nodes[n].iter
  /\ <<n, i>> \in alive

\* declare_wait; repeating the wait the node is already in appends nothing.
DeclareWait(n, i, said) ==
  /\ CheckLiveSession(View(log), n, i)
  /\ log' = NodeAwaitingUser(log, n, i, said)
  /\ UNCHANGED alive

WaitUser(n, i) == \E said \in BOOLEAN : DeclareWait(n, i, said)

\* `pdo complete', and the completion on a finished turn.  An interactive
\* iteration nobody released is refused and declares the wait instead.
Complete(n, i) ==
  LET v == View(log)
  IN  /\ ValidateCompletion(v, n, i, FALSE) = "allow"
      /\ IF AwaitsRelease(v, n, i) THEN DeclareWait(n, i, TRUE)
         ELSE /\ log' = NodeCompleted(log, n, i)
              /\ alive' = alive \ {<<n, i>>}

\* `pdo fail': the run event follows whatever the guard said of the node's.
Fail(n, i) ==
  /\ \E event \in {RunFailed(AppendFailed(log, n, i)),
                   RunInterrupted(AppendFailed(log, n, i))} : log' = event
  /\ alive' = alive \ {<<n, i>>}

\* `pdo skip': the graceful end of the whole run.
SkipRun(n, i) ==
  /\ ValidateCompletion(View(log), n, i, FALSE) = "allow"
  /\ log' = RunSkipped(NodeSkipped(log, n, i))
  /\ alive' = alive \ {<<n, i>>}

\* The agent process ends, or tmux loses the session.
SessionDies(n, i) ==
  /\ <<n, i>> \in alive
  /\ alive' = alive \ {<<n, i>>}
  /\ UNCHANGED log

(***************************************************************************)
(* The periodic sweep                                                      *)
(***************************************************************************)
SweepDeadSession(n) ==
  LET v == View(log)
      i == v.nodes[n].iter
  IN  /\ RunAcceptsLifecycle(v)
      /\ v.nodes[n].st = "running"
      /\ <<n, i>> \notin alive
      /\ log' = AppendInterrupted(log, n, i)
      /\ UNCHANGED alive

(***************************************************************************)
(* The user                                                                *)
(***************************************************************************)
Release(n, i) ==
  LET v == View(log)
  IN  /\ IsLive(v.status)
      /\ n \in Interactive
      /\ HoldsSession(v.nodes[n].row[i])
      /\ i \notin v.nodes[n].released
      /\ log' = NodeCompletionReleased(log, n, i)
      /\ UNCHANGED alive

\* Enter typed in the node's pane.
LiftWait(n, i) ==
  /\ View(log).nodes[n].iter = i
  /\ log.nodes[n].st = "awaiting"
  /\ log' = NodeResumed(log, n, i)
  /\ UNCHANGED alive

StopNode(n) ==
  LET i == View(log).nodes[n].iter
  IN  /\ log.nodes[n].st = "running"
      /\ log' = NodeStopped(log, n, i)
      /\ alive' = alive \ {<<n, i>>}

KillNode(n, i) ==
  /\ log' = AppendFailed(log, n, i)
  /\ alive' = alive \ {<<n, i>>}

\* mark_node_done and skip_node re-open first and do not reap the session;
\* what their tails fire is a step of Schedule or of RouteToEnd.
MarkNodeDone(n, i) ==
  LET r == EmbedReopen(log)
  IN  /\ log' \in {r} \cup IF ValidateCompletion(View(r), n, i, FALSE) = "allow"
                          THEN {NodeCompleted(r, n, i)} ELSE {}
      /\ UNCHANGED alive

SkipNode(n, i) ==
  LET r == EmbedReopen(log)
  IN  /\ log' \in {r} \cup IF ValidateCompletion(View(r), n, i, TRUE) = "allow"
                          THEN {NodeSkipped(r, n, i)} ELSE {}
      /\ UNCHANGED alive

\* restart_node: same iteration, fresh session.
RestartNode(n, i) ==
  LET r == EmbedReopen(log)
  IN  \E o \in {Outcome(r, alive)} \cup
               IF ValidateStart(View(r), n, i) = "allow"
               THEN SpawnNode(r, alive \ {<<n, i>>}, n, i) ELSE {} : Become(o)

\* recover_node of an agent that can resume: NodeStarted, then the session.
\* One that the cap refuses is answered "queued", and appends nothing.
RecoverNode(n, i) ==
  LET r == EmbedReopen(log)
      started == NodeStarted(r, n, i)
  IN  \E o \in {Outcome(r, alive)} \cup
               IF ValidateStart(View(r), n, i) = "allow"
               THEN {Outcome(started, alive \cup {<<n, i>>}), Outcome(started, alive)}
               ELSE {} : Become(o)

\* start_node: a node that is not running gets its next iteration.  The handler
\* here runs on to its end.
StartNode(n) ==
  LET r == EmbedReopen(log)
      v == View(r)
      i == v.nodes[n].iter + 1
      started == NodeStarted(r, n, i)
  IN  /\ i \in Iters
      /\ \E o \in {Outcome(r, alive)} \cup
                  IF v.nodes[n].st # "running" /\ ValidateStart(v, n, i) = "allow"
                  THEN {Outcome(started, alive \cup {<<n, i>>}), Outcome(started, alive)}
                  ELSE {} : Become(o)

\* The same handler overtaken by others: between its probe of the guard and its
\* NodeStarted it awaits the settings and the admission lock.
AskStart(n) ==
  LET r == EmbedReopen(log)
      v == View(r)
      i == v.nodes[n].iter + 1
  IN  /\ n \in Overtaken /\ i \in Iters
      /\ v.nodes[n].st # "running" /\ ValidateStart(v, n, i) = "allow"
      /\ log' = r
      /\ starting' = starting \cup {<<n, i>>}
      /\ UNCHANGED alive

\* A full pool ends it with no event.  A refusal of NodeStarted is logged and
\* the session opened all the same, unless tmux fails.
OpenStarted(n, i) ==
  /\ <<n, i>> \in starting
  /\ starting' = starting \ {<<n, i>>}
  /\ \E o \in {Outcome(log, alive), Outcome(AppendStarted(log, n, i), alive),
               Outcome(AppendStarted(log, n, i), alive \cup {<<n, i>>})} : Become(o)

\* One NodeInvalidated per node: its whole history leaves the projection.
Invalidate(r, ns) ==
  [r EXCEPT !.nodes = [n \in Nodes |-> IF n \in ns THEN AbsentNode ELSE @[n]]]

\* node_retry: only a running node is stopped; the node and everything
\* downstream leave the projection, then the node is spawned again.
RetryNode(n) ==
  LET node == View(log).nodes[n]
      current == IF Present(log, n) THEN node.iter ELSE 1
      next == IF n \in Regions THEN current ELSE current + 1
      r == EmbedReopen(log)
      running == r.nodes[n].st = "running"
      stopped == IF running THEN NodeStopped(r, n, current) ELSE r
      left == IF running THEN alive \ {<<n, current>>} ELSE alive
  IN  /\ next \in Iters
      /\ IF RunAcceptsLifecycle(View(r))
         THEN \E o \in SpawnNode(Invalidate(stopped, Downstream[n] \cup {n}), left, n, next) :
                Become(o)
         ELSE Become(Outcome(r, alive))

PauseRun ==
  /\ RunAcceptsLifecycle(View(log))
  /\ log' = RunPaused(log)
  /\ UNCHANGED alive

\* Any other status is left as it is and the run is only re-evaluated.
ResumeRun ==
  LET status == View(log).status
      r == IF status = "paused" THEN RunResumed(log)
           ELSE IF status \in {"halted", "failed"} THEN RunReopened(log) ELSE log
  IN  \E o \in Redrive(r, alive) : Become(o)

Reopenable(v) ==
  \/ IsTerminal(v.status) /\ v.status # "archived"
  \/ v.status = "awaiting" /\ v.reason # "none"

ReopenRun ==
  /\ Reopenable(View(log))
  /\ \E o \in Redrive(RunReopened(log), alive) : Become(o)

\* cleanup_run kills the session of each node's current iteration.
CleanupRun ==
  /\ View(log).status # "archived"
  /\ log' = RunArchived(log)
  /\ alive' = {s \in alive : ~Present(log, s[1]) \/ s[2] # View(log).nodes[s[1]].iter}

(***************************************************************************)
SchedulerStep ==
  RouteToEnd \/ \E n \in Nodes : Schedule(n) \/ RetryWaiting(n)

AgentStep(n, i) ==
  Complete(n, i) \/ WaitUser(n, i) \/ Fail(n, i) \/ SkipRun(n, i)

NodeGesture(n, i) ==
  \/ Release(n, i) \/ LiftWait(n, i) \/ KillNode(n, i) \/ MarkNodeDone(n, i)
  \/ SkipNode(n, i) \/ RestartNode(n, i) \/ RecoverNode(n, i)

UserStep ==
  \/ \E n \in Nodes : StopNode(n) \/ StartNode(n) \/ RetryNode(n)
  \/ PauseRun \/ ResumeRun \/ ReopenRun \/ CleanupRun

HandlerStep ==
  \/ SchedulerStep
  \/ \E n \in Nodes, i \in Iters : SessionDies(n, i)
  \/ \E n \in Nodes, i \in Iters : Calls(n, i) /\ AgentStep(n, i)
  \/ \E n \in Nodes, i \in Iters : Addressed(n, i) /\ NodeGesture(n, i)
  \/ \E n \in Nodes : SweepDeadSession(n)
  \/ UserStep

ForcedStart == \E n \in Nodes : AskStart(n) \/ \E i \in Iters : OpenStarted(n, i)

Next == (HandlerStep /\ UNCHANGED starting) \/ ForcedStart

Spec == Init /\ [][Next]_vars

(***************************************************************************)
(* Invariants                                                              *)
(***************************************************************************)
\* A node outside a collection has at most one iteration an agent is working
\* on, whatever mix of laps, restarts, retries, reopenings and throttled
\* spawns led there: the anti-duplication rule of validate_start.
OneLiveIteration ==
  \A n \in Nodes \ LapNodes : Cardinality(LiveRows(log, n)) <= 1

\* The admission count, the sweep and node_stop all read a node's own status
\* and current iteration: a node that counts as holding a session must have
\* an iteration that does, and its current one must be it.
BusyNodeOwnsLatestRow ==
  \A n \in Nodes \ LapNodes :
    HoldsSession(log.nodes[n].st) => HoldsSession(log.nodes[n].row[ViewNode(log, n).iter])

\* Conversely no iteration is being worked on behind a node whose status says
\* it is over: its session would escape the cap and the sweep.
LiveRowKeepsNode ==
  \A n \in Nodes : LiveRows(log, n) # {} => CanProgress(log.nodes[n].st)

\* The iteration being worked on is the node's current and latest one, whatever
\* row, marker or payload a reader takes it from.
LiveIterationIsLatest ==
  \A n \in Nodes \ LapNodes : \A i \in LiveRows(log, n) :
    log.nodes[n].iter = i /\ \A j \in Rows(log, n) : j <= i

\* A failed iteration has lost its session: a completion is accepted on a
\* failed row, and must not come from an agent that still runs behind it.
FailedHoldsNoSession ==
  \A n \in Nodes, i \in Iters : log.nodes[n].row[i] = "failed" => <<n, i>> \notin alive

(***************************************************************************)
(* Action properties                                                       *)
(***************************************************************************)
\* A settled iteration stays settled, or leaves the projection with its whole
\* node, which may have been started anew at one iteration since.
KeepsSettled(old, new) ==
  \A n \in Nodes, i \in Iters :
    SettledComplete(old.nodes[n].row[i]) =>
      \/ SettledComplete(new.nodes[n].row[i])
      \/ new.nodes[n].row[i] = "none"
      \/ \A j \in Iters \ {i} : new.nodes[n].row[j] = "none"

\* Satisfied work is never redone: a settled iteration changes only by
\* leaving the projection with its whole node (a retry, a reopening).
SettledSticks == [][KeepsSettled(log, log')]_vars

\* The same of the parallel laps of a collection, whose rows are read and
\* written while others of the node's are live.  Stopping the node is left
\* out: node_stop writes to the row `finalize' names, which may have settled.
SettledLapsStick == [][(~\E n \in Nodes : StopNode(n)) => KeepsSettled(log, log')]_vars

\* An iteration goes to work between two projections.
Wakes(old, new) ==
  \E n \in Nodes, i \in Iters :
    HoldsSession(new.nodes[n].row[i]) /\ ~HoldsSession(old.nodes[n].row[i])

\* No iteration goes to work in a run that is paused, ended or archived by then,
\* however long ago the guard was probed: the append asks it again.
StartsOnlyInOpenRuns == [][Wakes(log, log') => RunAcceptsLifecycle(View(log'))]_vars

\* "A rejected append leaves no orphan session": whoever opens a session has
\* its iteration at work in the log.  An overtaken forced start does not keep to
\* it (README, "Not kept").
SessionsAreStarted ==
  [][\A s \in alive' \ alive : HoldsSession(log'.nodes[s[1]].row[s[2]])]_vars
=============================================================================
