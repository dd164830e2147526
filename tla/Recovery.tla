------------------------------- MODULE Recovery -------------------------------
(***************************************************************************)
(* What survives a daemon that dies: the event log and the tmux sessions.  *)
(* Everything else is in the memory of its tasks, and four mechanisms put   *)
(* log and sessions together again: the orphan sweep (the reaper), the      *)
(* periodic sweep for dead sessions, boot recovery, and the reconciliation  *)
(* of a run nothing drives.  They run beside the tails of completions, the  *)
(* spawns and the operator's gestures.                                     *)
(*                                                                         *)
(* One run of a pipeline of forward edges, every node at iteration Lap;     *)
(* laps, retries and failures are NodeLifecycle's, the session cap is       *)
(* Admission's.  Time is two flags: a completion is fresh or older than the *)
(* reaper's TTL, and the run is quiet when no task of the daemon is at work.*)
(***************************************************************************)
EXTENDS TransitionGuard

CONSTANTS
  Wirings,      \* the pipelines, as sets of edges <<producer, target>>
  Flaky,        \* the nodes whose session tmux may refuse to create
  Asking,       \* the nodes whose agent may ask for the user
  Operator, NoNode,
  MaxCrashes,   \* bound on the crashes of the daemon
  MaxGestures   \* bound on the gestures of the operator

ASSUME RecoveryAssumption ==
  /\ LapNodes = {} /\ MaxIter = 1
  /\ \A w \in Wirings : w \subseteq Nodes \X Nodes
  /\ Flaky \subseteq Nodes /\ Asking \subseteq Nodes
  /\ Operator \notin Nodes /\ NoNode \notin Nodes
  /\ MaxCrashes \in Nat /\ MaxGestures \in Nat

Lap == 1
Tasks == Nodes \cup {Operator}

VARIABLES
  wiring,    \* the pipeline of the run
  log,       \* the raw run
  session,   \* the nodes whose tmux session is alive
  done,      \* node -> completed_at: none, fresh, or older than the reaper's TTL
  up,        \* the daemon is up, down, or booting: reaping, then reconciling
  task,      \* the tail of each node, and the operator's request
  reaper,    \* one pass of the orphan sweep
  sweep,     \* one pass of the sweep for dead sessions
  crashes, gestures

vars == <<wiring, log, session, done, up, task, reaper, sweep, crashes, gestures>>
memory == <<task, reaper, sweep>>
counts == <<wiring, crashes, gestures>>

Row(n) == log.nodes[n].row[Lap]
Idle == [at |-> "idle", todo |-> {}, node |-> NoNode]
Resting == [at |-> "idle", names |-> {}]

TypeOK ==
  /\ wiring \in Wirings
  /\ log \in Runs /\ session \subseteq Nodes
  /\ done \in [Nodes -> {"none", "fresh", "old"}]
  /\ up \in {"up", "down", "reaping", "reconciling"}
  /\ task \in [Tasks -> [at : {"idle", "reap", "advance", "spawn", "tmux", "resume"},
                         todo : SUBSET Nodes, node : Nodes \cup {NoNode}]]
  /\ reaper \in [at : {"idle", "judge", "kill"}, names : SUBSET Nodes]
  /\ sweep \in [at : {"idle", "probe"}, names : SUBSET Nodes]
  /\ crashes \in 0..MaxCrashes /\ gestures \in 0..MaxGestures
  \* A daemon that does not serve has no task at work.
  /\ up # "up" => \A t \in Tasks : task[t] = Idle
  /\ up # "up" => sweep = Resting
  /\ up \in {"down", "reconciling"} => reaper = Resting

Init ==
  /\ wiring \in Wirings
  /\ log = FreshRun /\ session = {} /\ up = "up"
  /\ done = [n \in Nodes |-> "none"]
  /\ task = [t \in Tasks |-> IF t = Operator THEN [Idle EXCEPT !.at = "advance"] ELSE Idle]
  /\ reaper = Resting /\ sweep = Resting
  /\ crashes = 0 /\ gestures = 0

(***************************************************************************)
(* The scheduler, as far as it reaches here                                *)
(***************************************************************************)
Ready(v) ==
  {n \in Nodes : /\ v.nodes[n].st = "absent"
                 /\ \A e \in wiring : e[2] = n => SettledComplete(v.nodes[e[1]].st)}

AllCompleted(v) == \A n \in Nodes : SettledComplete(v.nodes[n].st)

AppendInterrupted(r, n) ==
  IF ValidateInterrupt(View(r), n, Lap) = "allow" THEN NodeInterrupted(r, n, Lap) ELSE r

\* NodeStarted, and what it does to completed_at.
Start(n) == log' = NodeStarted(log, n, Lap) /\ done' = [done EXCEPT ![n] = "none"]

\* Interrupted nodes leave the projection with their completed_at.
Forget(r) == [n \in Nodes |-> IF Present(r, n) THEN done[n] ELSE "none"]

(***************************************************************************)
(* The tasks: a completion's tail, a request of the operator               *)
(***************************************************************************)
Goes(t, at, todo, n) == task' = [task EXCEPT ![t] = [at |-> at, todo |-> todo, node |-> n]]

\* Back to the spawns that are left.
Resumes(t) ==
  IF task[t].todo = {} THEN Goes(t, "idle", {}, NoNode)
  ELSE Goes(t, "spawn", task[t].todo, NoNode)

Reap(t) ==
  /\ task[t].at = "reap"
  /\ session' = session \ {t}
  /\ Goes(t, "advance", {}, NoNode)
  /\ UNCHANGED <<log, done, up, reaper, sweep, counts>>

\* advance_run: spawn what is ready, else complete the run if it is whole.
Advance(t) ==
  LET v == View(log)
      ready == IF RunAcceptsLifecycle(v) THEN Ready(v) ELSE {}
  IN  /\ task[t].at = "advance"
      /\ Goes(t, IF ready = {} THEN "idle" ELSE "spawn", ready, NoNode)
      /\ log' = IF v.status = "running" /\ AllCompleted(v) THEN RunCompleted(log) ELSE log
      /\ UNCHANGED <<session, done, up, reaper, sweep, counts>>

\* spawn_node up to the durable NodeStarted; a refused spawn is dropped.
Reserve(t) ==
  /\ task[t].at = "spawn"
  /\ \E n \in task[t].todo :
       LET v == View(log)
           left == task[t].todo \ {n}
           refused == \/ ValidateStart(v, n, Lap) = "reject"
                      \/ Lap \in LiveIteration(v, n) /\ n \in session
       IN  IF refused
           THEN /\ Goes(t, IF left = {} THEN "idle" ELSE "spawn", left, NoNode)
                /\ UNCHANGED <<log, done>>
           ELSE Start(n) /\ Goes(t, "tmux", left, n)
  /\ UNCHANGED <<session, up, reaper, sweep, counts>>

\* tmux new-session: the loser of a duplicate session leaves without a trace,
\* any other failure interrupts the node.
OpenSession(t) ==
  LET n == task[t].node
  IN  /\ task[t].at = "tmux"
      /\ Resumes(t)
      /\ \/ /\ session' = session \cup {n}
            /\ UNCHANGED log
         \/ /\ n \in Flaky \ session
            /\ log' = AppendInterrupted(log, n)
            /\ UNCHANGED session
      /\ UNCHANGED <<done, up, reaper, sweep, counts>>

\* The same of a re-attached session, whose failure leaves no event.
ResumeSession(t) ==
  LET n == task[t].node
  IN  /\ task[t].at = "resume"
      /\ Resumes(t)
      /\ session' \in {session \cup {n}} \cup (IF n \in Flaky THEN {session} ELSE {})
      /\ UNCHANGED <<log, done, up, reaper, sweep, counts>>

TaskStep(t) == Reap(t) \/ Advance(t) \/ Reserve(t) \/ OpenSession(t) \/ ResumeSession(t)

(***************************************************************************)
(* Agents                                                                  *)
(***************************************************************************)
\* The completion is durable; its session and its successors are the tail's.
AgentDone(n) ==
  /\ up = "up" /\ n \in session
  /\ ValidateCompletion(View(log), n, Lap, FALSE) = "allow"
  /\ log' = NodeCompleted(log, n, Lap)
  /\ done' = [done EXCEPT ![n] = "fresh"]
  /\ Goes(n, "reap", {}, NoNode)
  /\ UNCHANGED <<session, up, reaper, sweep, counts>>

AgentWaits(n) ==
  /\ up = "up" /\ n \in session \cap Asking
  /\ IsLive(View(log).status) /\ HoldsSession(Row(n))
  /\ log' = NodeAwaitingUser(log, n, Lap, TRUE)
  /\ UNCHANGED <<session, done, up, memory, counts>>

WaitLifted(n) ==
  /\ up = "up" /\ n \in session /\ log.nodes[n].st = "awaiting"
  /\ log' = NodeResumed(log, n, Lap)
  /\ UNCHANGED <<session, done, up, memory, counts>>

\* The agent's process ends, whether or not a daemon is there to see it.
AgentDies(n) ==
  /\ n \in session
  /\ session' = session \ {n}
  /\ UNCHANGED <<log, done, up, memory, counts>>

(***************************************************************************)
(* The operator, one request at a time                                     *)
(***************************************************************************)
Gesture ==
  /\ up = "up" /\ task[Operator] = Idle
  /\ gestures < MaxGestures /\ gestures' = gestures + 1
  /\ UNCHANGED <<wiring, up, reaper, sweep, crashes>>

NeedsReopen(v) ==
  \/ IsTerminal(v.status) /\ v.status # "archived"
  \/ v.status = "awaiting" /\ v.reason # "none" /\ ~IsDeclaredWait(v)

EmbedReopen(r) == IF NeedsReopen(View(r)) THEN RunReopened(r) ELSE r

\* restart_node: the old session is killed, then the iteration is spawned anew.
RestartNode(n) ==
  LET r == EmbedReopen(log)
  IN  /\ Gesture
      /\ log' = r /\ done' = Forget(r)
      /\ IF ValidateStart(View(r), n, Lap) = "allow"
         THEN session' = session \ {n} /\ Goes(Operator, "spawn", {n}, NoNode)
         ELSE UNCHANGED <<session, task>>

\* Looking at the pane of a node whose session is dead re-attaches it.
ViewPane(n) ==
  /\ Gesture
  /\ n \notin session /\ Present(log, n)
  /\ Row(n) \notin {"completed", "skipped", "failed", "stopped"}
  /\ ValidateStart(View(log), n, Lap) = "allow"
  /\ Start(n)
  /\ Goes(Operator, "resume", {}, n)
  /\ UNCHANGED session

ReopenRun ==
  LET v == View(log)
      r == RunReopened(log)
  IN  /\ Gesture
      /\ \/ IsTerminal(v.status) /\ v.status # "archived"
         \/ v.status = "awaiting" /\ v.reason # "none"
      /\ log' = r /\ done' = Forget(r)
      /\ Goes(Operator, "advance", {}, NoNode)
      /\ UNCHANGED session

CleanupRun ==
  /\ Gesture
  /\ View(log).status # "archived"
  /\ session' = {n \in session : ~Present(log, n)}
  /\ log' = RunArchived(log)
  /\ UNCHANGED <<done, task>>

(***************************************************************************)
(* The orphan sweep: the inventory first, the log second, then the kills.  *)
(***************************************************************************)
\* Mutated form: the list is taken when the kills are, after the log was read.
ListLate ==
  /\ up \in {"up", "reaping"} /\ reaper.at = "idle"
  /\ reaper' = [at |-> "judge", names |-> Nodes]
  /\ UNCHANGED <<log, session, done, up, task, sweep, counts>>

ListSessions ==
  /\ up \in {"up", "reaping"} /\ reaper.at = "idle"
  /\ reaper' = [at |-> "judge", names |-> session]
  /\ UNCHANGED <<log, session, done, up, task, sweep, counts>>

\* Mutated form: an archived run is taken for one that is still there.
CondemnedLiveOnly(n) == ~Present(log, n) \/ done[n] = "old"

Condemned(n) ==
  \/ ~Present(log, n)
  \/ log.status = "archived"
  \/ done[n] = "old"

Judge ==
  /\ reaper.at = "judge"
  /\ reaper' = [at |-> "kill", names |-> {n \in reaper.names : Condemned(n)}]
  /\ UNCHANGED <<log, session, done, up, task, sweep, counts>>

\* The pass at boot comes before the reconciliation.
KillCondemned ==
  /\ reaper.at = "kill"
  /\ session' = session \ reaper.names
  /\ reaper' = Resting
  /\ up' = IF up = "reaping" THEN "reconciling" ELSE up
  /\ UNCHANGED <<log, done, task, sweep, counts>>

TtlPasses(n) ==
  /\ done[n] = "fresh"
  /\ done' = [done EXCEPT ![n] = "old"]
  /\ UNCHANGED <<log, session, up, memory, counts>>

(***************************************************************************)
(* The sweep for dead sessions, and the run nothing drives                 *)
(***************************************************************************)
\* Mutated form: a run parked for the user is left alone.
WatchedRunning(v) == IF v.status = "running" THEN {n \in Nodes : v.nodes[n].st = "running"} ELSE {}

Watched(v) ==
  IF RunAcceptsLifecycle(v) THEN {n \in Nodes : v.nodes[n].st = "running"} ELSE {}

Look ==
  /\ up = "up" /\ sweep.at = "idle"
  /\ sweep' = [at |-> "probe", names |-> Watched(View(log))]
  /\ UNCHANGED <<log, session, done, up, task, reaper, counts>>

\* No grace: what the snapshot shows running and tmux does not list is dead.
\* The probe, the append and the reap of one node are one step.
Probe(n) ==
  /\ sweep.at = "probe" /\ n \in sweep.names
  /\ log' = IF n \in session THEN log ELSE AppendInterrupted(log, n)
  /\ sweep' = [sweep EXCEPT !.names = @ \ {n}]
  /\ UNCHANGED <<session, done, up, task, reaper, counts>>

\* SPAWN_STALL_GRACE_SECS after the last event no task is at work any more.
Quiet == \A t \in Tasks : task[t] = Idle

\* Mutated form: nodes the scheduler could spawn mean the run can go on.
StallOnReady(r) == r

\* run_stall_reason; a blocker needs a failed or a stopped node.
Stall(r) ==
  LET v == View(r)
  IN  IF /\ v.status = "running"
         /\ ~\E n \in Nodes : CanProgress(v.nodes[n].st)
         /\ Ready(v) # {} /\ Quiet
      THEN RunInterrupted(r) ELSE r

Reconcile ==
  /\ sweep = [at |-> "probe", names |-> {}]
  /\ log' = Stall(log)
  /\ sweep' = Resting
  /\ UNCHANGED <<session, done, up, task, reaper, counts>>

(***************************************************************************)
(* Crash and boot                                                          *)
(***************************************************************************)
LoseMemory == task' = [t \in Tasks |-> Idle] /\ reaper' = Resting /\ sweep' = Resting

\* The daemon dies and the sessions live on, unless they die too.
Crash ==
  /\ up # "down" /\ crashes < MaxCrashes
  /\ up' = "down" /\ crashes' = crashes + 1
  /\ LoseMemory
  /\ UNCHANGED <<wiring, log, session, done, gestures>>

Boot ==
  /\ up = "down"
  /\ up' = "reaping"
  /\ UNCHANGED <<log, session, done, memory, counts>>

\* An ended run's nodes hold nothing; a live run's have their session.
Dangling(v) ==
  {n \in Nodes : /\ HoldsSession(v.nodes[n].st)
                 /\ \/ v.status \in {"completed", "failed", "halted", "archived"}
                    \/ RunAcceptsLifecycle(v) /\ n \notin session}

\* run_boot_recovery, before any request is served; whether the run has been
\* idle for the grace depends on how long the daemon was down.
RecoverRun ==
  LET gone == Dangling(View(log))
      r == [log EXCEPT !.nodes = [n \in Nodes |-> IF n \in gone
                                                   THEN AppendInterrupted(log, n).nodes[n]
                                                   ELSE @[n]]]
  IN  /\ up = "reconciling"
      /\ log' \in {r, Stall(r)}
      /\ up' = "up"
      /\ UNCHANGED <<session, done, memory, counts>>

(***************************************************************************)
AgentStep(n) == AgentDone(n) \/ AgentWaits(n) \/ WaitLifted(n) \/ AgentDies(n)
OperatorStep == ReopenRun \/ CleanupRun \/ \E n \in Nodes : RestartNode(n) \/ ViewPane(n)
ReaperStep == ListSessions \/ Judge \/ KillCondemned
SweepStep == Look \/ Reconcile \/ \E n \in Nodes : Probe(n)

Next ==
  \/ \E t \in Tasks : TaskStep(t)
  \/ \E n \in Nodes : AgentStep(n) \/ TtlPasses(n)
  \/ OperatorStep \/ ReaperStep \/ SweepStep
  \/ Crash \/ Boot \/ RecoverRun

Spec == Init /\ [][Next]_vars

\* The daemon's own tasks are scheduled, the tickers tick and time passes; no
\* agent has to finish, no operator to come and nothing has to fail.
FairSpec ==
  /\ Spec
  /\ \A t \in Tasks : WF_vars(TaskStep(t))
  /\ WF_vars(ReaperStep) /\ WF_vars(SweepStep)
  /\ WF_vars(Boot \/ RecoverRun)
  /\ WF_vars(\E n \in Nodes : TtlPasses(n))

(***************************************************************************)
(* Safety                                                                  *)
(***************************************************************************)
\* The reaper never kills a session whose iteration is at work (ADR-0038): a
\* session that was listed and then found without a reservation has none when
\* the kill comes either, whatever was spawned, restarted, re-attached or
\* re-opened between the list, the log read and the kill.
SparesWork ==
  [][KillCondemned =>
       \A n \in reaper.names \cap session :
         ~(RunAcceptsLifecycle(View(log)) /\ HoldsSession(Row(n)))]_vars
=============================================================================
