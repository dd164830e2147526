------------------------------ MODULE Admission ------------------------------
(***************************************************************************)
(* The session cap, daemon-wide: node_spawn's check-and-reserve under      *)
(* `admission_lock', the reservation that precedes the tmux session, and   *)
(* the re-drive of throttled nodes by retry_waiting_nodes.  Every await at *)
(* which another handler can run is a step boundary.                       *)
(*                                                                         *)
(* A task is one sequence of spawns: the one that launches a node, or the  *)
(* tail of the event that ended one, whose retry_waiting_nodes visits every *)
(* run and spawns the nodes it finds waiting there, one after the other.   *)
(* A node is one iteration of one node of one run; its projection is       *)
(* reduced to the statuses admission and the guard tell apart ("done" is a *)
(* settled iteration, "failed" one that is over and may start again).      *)
(***************************************************************************)
EXTENDS Naturals, FiniteSets

CONSTANTS
  Runs, Nodes,
  RunOf,      \* node -> its run
  Cap,        \* the configured session cap
  Pauses,     \* runs the user pauses and resumes
  Reopens,    \* runs the user reopens after they ended
  Cleanups,   \* runs the user cleans up, whatever their status
  Faulty,     \* nodes whose spawn may fail
  NoTask

ASSUME AdmissionAssumption ==
  /\ IsFiniteSet(Nodes)
  /\ RunOf \in [Nodes -> Runs]
  /\ Cap \in Nat \ {0}
  /\ Pauses \subseteq Runs /\ Reopens \subseteq Runs /\ Cleanups \subseteq Runs
  /\ Faulty \subseteq Nodes

Launch(n) == <<"launch", n>>
Tail(n) == <<"tail", n>>
Tasks == {"launch", "tail"} \X Nodes

ASSUME NoTaskAssumption == NoTask \notin Tasks

NoNode == "none"
ASSUME NoNodeAssumption == NoNode \notin Nodes

VARIABLES
  run,      \* run -> its status
  node,     \* node -> its status
  session,  \* the nodes with a live tmux session
  task,     \* task -> what it is doing
  lock      \* who holds admission_lock

vars == <<run, node, session, task, lock>>

RunStatuses == {"open", "paused", "ended", "archived"}
LiveRun(r) == run[r] \in {"open", "paused"}
NodeStatuses == {"ready", "waiting", "running", "done", "failed"}

\* "next": between two spawns; "lock": the guard let the spawn pass; then,
\* with the lock: "count", "admit" or "throttle"; "tmux": reserved.
Steps == {"idle", "next", "lock", "count", "admit", "throttle", "tmux"}
LockedSteps == {"count", "admit", "throttle"}

\* `last': the tail fires the edges of its node after the re-drive.
TaskStates == [step : Steps, runs : SUBSET Runs, queue : SUBSET Nodes,
               node : Nodes \cup {NoNode}, last : BOOLEAN]
Idle == [step |-> "idle", runs |-> {}, queue |-> {}, node |-> NoNode, last |-> FALSE]

TypeOK ==
  /\ run \in [Runs -> RunStatuses]
  /\ node \in [Nodes -> NodeStatuses]
  /\ session \subseteq Nodes
  /\ task \in [Tasks -> TaskStates]
  /\ lock \in Tasks \cup {NoTask}

\* count_live_node_sessions: session-holding nodes of live runs.
Holders == {n \in Nodes : node[n] = "running" /\ LiveRun(RunOf[n])}

\* validate_start for the same iteration.
Startable(n) == run[RunOf[n]] = "open" /\ node[n] # "done"

Init ==
  /\ run = [r \in Runs |-> "open"]
  /\ node = [n \in Nodes |-> "ready"]
  /\ session = {}
  /\ task = [t \in Tasks |->
               IF t[1] = "launch"
               THEN [Idle EXCEPT !.step = "next", !.queue = {t[2]}]
               ELSE Idle]
  /\ lock = NoTask

GoTo(t, step) == task' = [task EXCEPT ![t].step = step]

(***************************************************************************)
(* A task                                                                  *)
(***************************************************************************)
\* retry_waiting_nodes reloads one run and reads its waiting nodes.
VisitRun(t, r) ==
  /\ task[t].step = "next" /\ task[t].queue = {} /\ r \in task[t].runs
  /\ task' = [task EXCEPT
                ![t].runs = @ \ {r},
                ![t].queue = IF run[r] = "open"
                             THEN {n \in Nodes : RunOf[n] = r /\ node[n] = "waiting"}
                             ELSE {}]
  /\ UNCHANGED <<run, node, session, lock>>

Finish(t) ==
  /\ task[t].step = "next" /\ task[t].queue = {} /\ task[t].runs = {}
  /\ task' = [task EXCEPT ![t] = Idle]
  /\ UNCHANGED <<run, node, session, lock>>

\* The guard probe and the live-session check, before the lock.
Probe(t, n) ==
  /\ task[t].step = "next" /\ n \in task[t].queue
  /\ task' = [task EXCEPT
                ![t].queue = @ \ {n}, ![t].node = n,
                ![t].step = IF Startable(n) /\ ~(node[n] = "running" /\ n \in session)
                            THEN "lock" ELSE "next"]
  /\ UNCHANGED <<run, node, session, lock>>

\* Mutated form: nobody waits for the lock.
TakeLockAnyway(t) ==
  /\ task[t].step = "lock"
  /\ lock' = t
  /\ GoTo(t, "count")
  /\ UNCHANGED <<run, node, session>>

\* Mutated form: a spawn that finds the lock taken is dropped.
TakeLockOrDrop(t) ==
  /\ task[t].step = "lock"
  /\ IF lock = NoTask THEN lock' = t /\ GoTo(t, "count")
     ELSE UNCHANGED lock /\ GoTo(t, "next")
  /\ UNCHANGED <<run, node, session>>

TakeLock(t) ==
  /\ task[t].step = "lock" /\ lock = NoTask
  /\ lock' = t
  /\ GoTo(t, "count")
  /\ UNCHANGED <<run, node, session>>

\* Mutated form: the count forgets that a paused run is live.
CountOpen(t) ==
  /\ task[t].step = "count"
  /\ GoTo(t, IF Cardinality({n \in Holders \ {task[t].node} : run[RunOf[n]] = "open"}) < Cap
             THEN "admit" ELSE "throttle")
  /\ UNCHANGED <<run, node, session, lock>>

\* Mutated form: off by one at the cap.
CountInclusive(t) ==
  /\ task[t].step = "count"
  /\ GoTo(t, IF Cardinality(Holders \ {task[t].node}) <= Cap THEN "admit" ELSE "throttle")
  /\ UNCHANGED <<run, node, session, lock>>

\* The count leaves out the slot this very spawn takes back.
Count(t) ==
  /\ task[t].step = "count"
  /\ GoTo(t, IF Cardinality(Holders \ {task[t].node}) < Cap THEN "admit" ELSE "throttle")
  /\ UNCHANGED <<run, node, session, lock>>

\* NodeInterrupted; a no-op on an iteration that is over.
Interrupted(n) ==
  IF node[n] \in {"ready", "waiting", "running"}
  THEN [node EXCEPT ![n] = "failed"] ELSE node

\* The reservation: NodeStarted, re-validated by the append.  Refused, or when
\* anything before it fails, the spawn is aborted and the node interrupted.
Reserve(t) ==
  LET n == task[t].node
  IN  /\ task[t].step = "admit"
      /\ \/ /\ Startable(n)
            /\ node' = [node EXCEPT ![n] = "running"]
            /\ GoTo(t, "tmux")
         \/ /\ ~Startable(n) \/ n \in Faulty
            /\ node' = Interrupted(n)
            /\ GoTo(t, "next")
      /\ lock' = NoTask
      /\ UNCHANGED <<run, session>>

\* NodeWaiting; the guard may refuse it, the spawn ends throttled either way.
Throttle(t) ==
  LET n == task[t].node
  IN  /\ task[t].step = "throttle"
      /\ node' = IF Startable(n) THEN [node EXCEPT ![n] = "waiting"] ELSE node
      /\ GoTo(t, "next")
      /\ lock' = NoTask
      /\ UNCHANGED <<run, session>>

\* tmux, after the lock was dropped.  A failure interrupts the node.
SpawnSession(t) ==
  LET n == task[t].node
  IN  /\ task[t].step = "tmux"
      /\ \/ session' = session \cup {n} /\ UNCHANGED node
         \/ /\ n \in Faulty /\ n \notin session
            /\ node' = Interrupted(n)
            /\ UNCHANGED session
      /\ GoTo(t, "next")
      /\ UNCHANGED <<run, lock>>

TaskStep(t) ==
  \/ \E r \in Runs : VisitRun(t, r)
  \/ Finish(t)
  \/ \E n \in Nodes : Probe(t, n)
  \/ TakeLock(t) \/ Count(t) \/ Reserve(t) \/ Throttle(t) \/ SpawnSession(t)

(***************************************************************************)
(* What frees a slot.  Bound: a node that ends again while the tail of its *)
(* previous end still runs waits for that tail.                            *)
(***************************************************************************)
Redrive(n, last) ==
  /\ task[Tail(n)].step = "idle"
  /\ task' = [task EXCEPT
                ![Tail(n)] = [Idle EXCEPT !.step = "next", !.runs = Runs, !.last = last]]

\* Mutated form: only a completion re-drives the queue.
EndNodeQuietly(n, how, ends, last) ==
  LET r == RunOf[n]
  IN  /\ node[n] = "running"
      /\ how = "done" => run[r] = "open" /\ ~ends
      /\ last => how = "done"
      /\ node' = [node EXCEPT ![n] = how]
      /\ run' = IF ends THEN [run EXCEPT ![r] = "ended"] ELSE run
      /\ session' = session \ {n}
      /\ IF how = "done" THEN Redrive(n, last) ELSE UNCHANGED task
      /\ UNCHANGED lock

\* A completion (only accepted while the run is open), a failure, or a kill;
\* a declared failure may end the run.  The session, if it is up, is reaped.
\* A completion by hand (mark_node_done, skip_node) is SweepFirst: its edges
\* come last.
EndNode(n, how, ends, last) ==
  LET r == RunOf[n]
  IN  /\ node[n] = "running"
      /\ how = "done" => run[r] = "open" /\ ~ends
      /\ last => how = "done"
      /\ node' = [node EXCEPT ![n] = how]
      /\ run' = IF ends THEN [run EXCEPT ![r] = "ended"] ELSE run
      /\ session' = session \ {n}
      /\ Redrive(n, last)
      /\ UNCHANGED lock

\* Firing the edges of a completed node, or advancing its run, may halt or
\* complete the run.  Nothing reaps its other nodes.
Ends(n) ==
  /\ node[n] = "done" /\ task[Tail(n)].step = "next"
  /\ LiveRun(RunOf[n])
  /\ run' = [run EXCEPT ![RunOf[n]] = "ended"]
  /\ UNCHANGED <<node, session, task, lock>>

\* Before the tail re-drives anybody: the sweep and, unless they come last, the
\* edges.
EndRun(n) == task[Tail(n)].runs = Runs /\ Ends(n)

\* After it has re-driven everybody: the edges that come last.
EndRunLast(n) ==
  /\ task[Tail(n)].last
  /\ task[Tail(n)].runs = {} /\ task[Tail(n)].queue = {}
  /\ Ends(n)

\* cleanup_run kills the sessions of the run and re-drives nobody.
Cleanup(r) ==
  /\ r \in Cleanups /\ run[r] # "archived"
  /\ run' = [run EXCEPT ![r] = "archived"]
  /\ session' = {n \in session : RunOf[n] # r}
  /\ UNCHANGED <<node, task, lock>>

Pause(r) ==
  /\ r \in Pauses /\ run[r] = "open"
  /\ run' = [run EXCEPT ![r] = "paused"]
  /\ UNCHANGED <<node, session, task, lock>>

\* resume_run and reopen_run re-evaluate the graph of the run; a node that is
\* waiting is live to them, so they leave it to retry_waiting_nodes.
Resume(r) ==
  /\ run[r] = "paused" \/ (r \in Reopens /\ run[r] = "ended")
  /\ run' = [run EXCEPT ![r] = "open"]
  /\ UNCHANGED <<node, session, task, lock>>

Next ==
  \/ \E t \in Tasks : TaskStep(t)
  \/ \E n \in Nodes, how \in {"done", "failed"}, ends, last \in BOOLEAN :
       EndNode(n, how, ends, last)
  \/ \E n \in Nodes : EndRun(n) \/ EndRunLast(n)
  \/ \E r \in Runs : Pause(r) \/ Resume(r) \/ Cleanup(r)

Spec == Init /\ [][Next]_vars

\* Tasks are scheduled by tokio, whose mutex is granted in arrival order.
FairSpec == Spec /\ \A t \in Tasks : WF_vars(TaskStep(t)) /\ SF_vars(TakeLock(t))

(***************************************************************************)
(* Safety                                                                  *)
(***************************************************************************)
\* The cap: however spawns, ends, pauses and re-drives interleave, no more
\* nodes hold a slot than the cap allows (while no run is reopened).
SlotsWithinCap == Cardinality(Holders) <= Cap

\* From the count to the reservation a spawn is alone: what it counted is what
\* it adds to.  This is what admission_lock is for.
CountToReserveIsExclusive ==
  \A t \in Tasks : task[t].step \in LockedSteps <=> lock = t

\* Some task is on its way to the waiting node n.
Offered(n) ==
  \E t \in Tasks : \/ RunOf[n] \in task[t].runs
                   \/ n \in task[t].queue
                   \/ task[t].node = n /\ task[t].step \notin {"idle", "next"}

\* A node of an open run that waits although a slot is free.
Starves(n) ==
  node[n] = "waiting" /\ run[RunOf[n]] = "open" /\ Cardinality(Holders) < Cap

\* A spawn that is under way fails: its slot is given back in silence.
SpawnFails ==
  \E t \in Tasks : /\ task[t].step \in {"admit", "tmux"}
                   /\ node'[task[t].node] = "failed"

\* So are those of a live run that is archived.
LiveRunArchived == \E r \in Runs : LiveRun(r) /\ run'[r] = "archived"

\* A step that puts a free slot within reach of n, which was waiting in an open
\* run.
FreesFor(n) ==
  node[n] = "waiting" /\ run[RunOf[n]] = "open" /\ ~Starves(n) /\ Starves(n)'

\* The site that frees a slot re-drives the queue: a step that frees one for a
\* waiting node leaves a task that offers it.  (Resuming a run is such a step for
\* nobody: it re-drives no queue.)  Not so a spawn that fails, the archiving of a
\* live run, or the end of a run by the edges of a completion by hand, which are
\* fired after the re-drive.
FreedSlotIsOffered ==
  [][\A n \in Nodes :
       FreesFor(n) /\ ~SpawnFails /\ ~LiveRunArchived /\ ~(\E m \in Nodes : EndRunLast(m))
         => Offered(n)']_vars

\* What re_evaluate_after_command says of every site: a run going terminal stops
\* counting its nodes, and the site that frees a slot so must re-drive the queue.
\* A completion by hand does not keep to it (README, "Not kept").
EndedRunsSlotIsOffered ==
  [][(\E r \in Runs : LiveRun(r) /\ run'[r] = "ended")
       => \A n \in Nodes : FreesFor(n) => Offered(n)']_vars

\* Admission implements the pool it promises.
Pool == INSTANCE SlotPool WITH holders <- Holders
PoolSpec == Pool!Spec
=============================================================================
