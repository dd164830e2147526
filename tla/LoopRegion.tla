------------------------------ MODULE LoopRegion ------------------------------
(***************************************************************************)
(* The bounded loop region: the members of a region run lap after lap until *)
(* the verdict of one of them leaves it, its iteration cap or its cost cap *)
(* is reached, or the operator ends it or routes its exit.  Laps are       *)
(* started by the tails of completed members and by the re-evaluation that *)
(* follows a command; both decide on a snapshot and act later.             *)
(*                                                                         *)
(* One region, in a graph that is acyclic but for its back-edges.  Reading *)
(* an artefact's frontmatter is the choice, made when a node settles, of   *)
(* which of its conditional edges fire.  The cost of the loop is one unit  *)
(* for each completion of a node of Charged.  A live iteration keeps its   *)
(* session: interruptions belong to NodeLifecycle and Recovery.            *)
(***************************************************************************)
EXTENDS TransitionGuard, Sequences

CONSTANTS
  End,          \* the End node, never in the projection
  Wiring,       \* the edges <<producer, target>>, in order; a node Start feeds
                \* has no other producer and its edge from Start is left out
  Verdicts,     \* node -> the sets of its conditional edges a verdict can fire
  Members,      \* the region's members
  Entry,        \* the member it is entered by
  Declared,     \* its declared max_iter
  CostCap,      \* its declared max_cost_usd; 0 is none
  Charged,      \* the nodes whose completions cost
  Launch, Operator, None,
  Commands,     \* what the operator may command
  MaxCommands,  \* bound on the commands of a run
  Prompt        \* bound: the daemon has done what it does before an agent is done

Edges == {Wiring[k] : k \in DOMAIN Wiring}
Conditional == UNION {UNION Verdicts[n] : n \in Nodes}
Tasks == Nodes \cup {Launch, Operator}

\* reaches, along edges that are not self-edges.
Reaches(from, to) ==
  \A S \in SUBSET Nodes :
    (\A e \in Edges : e[1] # e[2] /\ e[1] \in S \cup {from} /\ e[2] \in Nodes => e[2] \in S)
      => to \in S

EndRegion == [do |-> "end_region"]
SetCap(i) == [do |-> "set_region_max_iter", iter |-> i]
SetBudget(b) == [do |-> "set_region_max_cost", usd |-> b]
ForceRoute(t) == [do |-> "force_route", target |-> t]

ASSUME LoopAssumption ==
  /\ IsFiniteSet(Nodes) /\ LapNodes = {} /\ {End, None} \cap Nodes = {} /\ End # None
  /\ {Launch, Operator} \cap Nodes = {} /\ Launch # Operator
  /\ Wiring \in Seq(Nodes \X (Nodes \cup {End}))
  /\ \A n \in Nodes : UNION Verdicts[n] \subseteq {e \in Edges : e[1] = n}
  /\ Members \subseteq Nodes /\ Entry \in Members
  /\ Declared \in Iters /\ CostCap \in Nat /\ MaxCommands \in Nat /\ Prompt \in BOOLEAN
  /\ \A x \in Commands : \/ x = EndRegion
                         \/ \E i \in Iters : x = SetCap(i)
                         \/ \E target \in Nodes \cup {End} : x = ForceRoute(target)
                         \/ x.usd \in Nat /\ x = SetBudget(x.usd)
  /\ \A e \in Edges : {e[1], e[2]} \subseteq Members \/ ~Reaches(e[2], e[1])   \* no other cycle

VARIABLES
  log,          \* the projection of the run
  loop,         \* the region's LoopState; iter 0 is no entry
  cap,          \* effective_region_max_iter
  budget,       \* effective_region_max_cost; 0 is none
  spent,        \* the cost of the loop
  forced,       \* the target the region is forced to, or None
  code,         \* awaiting_reason_code of the run
  fired,        \* the conditional edges the settled nodes' verdicts fire
  task,         \* task -> what it has left to do
  commands      \* how many commands were issued

vars == <<log, loop, cap, budget, spent, forced, code, fired, task, commands>>

Codes == {"none", "unrouted", "region_exhausted", "region_budget_exhausted",
          "region_ended_unrouted"}

Spawn(n, i) == [do |-> "spawn", node |-> n, iter |-> i]
StartLap(i) == [do |-> "lap", iter |-> i]
Complete == [do |-> "complete"]
Park(c) == [do |-> "park", code |-> c]
Skip(n) == [do |-> "skip", node |-> n]
Resume == [do |-> "resume_run"]

Actions ==
  {Spawn(n, i) : n \in Nodes, i \in Iters} \cup {StartLap(i) : i \in Iters}
  \cup {Park(c) : c \in Codes} \cup {Skip(n) : n \in Nodes}
  \cup {Complete, Resume} \cup Commands

\* A decision has its place in the order in which a task carries them out: the
\* turn of the node whose edges were looked at, the edge, the step.
Places == Nat \X Nat \X Nat
Before(p, q) ==
  \/ p[1] < q[1]
  \/ p[1] = q[1] /\ p[2] < q[2]
  \/ p[1] = q[1] /\ p[2] = q[2] /\ p[3] < q[3]
Decisions == [at : Places, act : Actions]
InAnyOrder(acts) == {[at |-> <<0, 0, 0>>, act |-> x] : x \in acts}

\* plan: the phases still to enter; todo: what the current one decided; fires:
\* nodes it skipped whose edges it still has to fire.
Phases == {"fire", "sweep", "ready", "redrive"}
Idle == [plan |-> <<>>, todo |-> {}, fires |-> {}]
Begin(plan) == [Idle EXCEPT !.plan = plan]
CompletionFirst == <<"fire", "sweep", "ready">>
SweepFirst == <<"sweep", "ready", "fire">>

TypeOK ==
  /\ log \in Runs
  /\ loop \in [iter : 0..MaxIter, done : BOOLEAN]
  /\ cap \in Iters /\ budget \in Nat /\ spent \in Nat
  /\ forced \in Nodes \cup {End, None}
  /\ code \in Codes
  /\ fired \subseteq Conditional
  /\ task \in [Tasks -> [plan : Seq(Phases), todo : SUBSET Decisions, fires : SUBSET Nodes]]
  /\ commands \in 0..MaxCommands

Init ==
  /\ log = FreshRun
  /\ loop = [iter |-> 0, done |-> FALSE]
  /\ cap = Declared /\ budget = CostCap /\ spent = 0
  /\ forced = None /\ code = "none" /\ fired = {}
  /\ task = [t \in Tasks |-> IF t = Launch THEN Begin(<<"sweep", "ready">>) ELSE Idle]
  /\ commands = 0

(***************************************************************************)
(* What the scheduler reads                                                *)
(***************************************************************************)
In(n) == {e \in Edges : e[2] = n}
Fires(e) == e \notin Conditional \/ e \in fired
IsBack(e) == e[1] \in Members /\ e[2] = Entry
Entering(e) == e[1] \notin Members /\ e[2] \in Members
Leaving(e) == e[1] \in Members /\ e[2] \notin Members

Settled(n) == n \in Nodes /\ SettledComplete(View(log).nodes[n].st)
Absent(n) == n \notin Nodes \/ ~Present(log, n)
IterOf(n) == IF Absent(n) THEN 1 ELSE View(log).nodes[n].iter
CurrentIter == IF loop.iter = 0 THEN 1 ELSE loop.iter
Ended == loop.done \/ forced # None

\* bounded_loop_still_iterating.
StillIterating(n) ==
  n \in Members /\ IterOf(n) < cap /\ \E e \in Edges : e[1] = n /\ IsBack(e) /\ Fires(e)

EdgeDead(e, D) ==
  IF Settled(e[1]) THEN ~Fires(e) /\ ~StillIterating(e[1]) ELSE e[1] \in D

\* is_node_dead: the walk's guard against cycles makes the dead nodes the
\* smallest set its rule is true of.
Dead ==
  {n \in Nodes \cup {End} :
     \A D \in SUBSET (Nodes \cup {End}) :
       (\A m \in Nodes \cup {End} :
          Absent(m) /\ In(m) # {} /\ (\A e \in In(m) : EdgeDead(e, D)) => m \in D)
       => n \in D}

Unreachable == Dead \ {End}

\* check_all_upstream_completed: back-edges and self-edges wait for nobody.
UpstreamDone(target, source) ==
  \A e \in In(target) :
    e[1] = target \/ IsBack(e) \/ e[1] = source \/ Settled(e[1]) \/ e[1] \in Dead

\* Mutated form: a member that has caught up is lifted once more.
ForwardIterAhead(source, target) ==
  LET next == IF Absent(target) THEN 1
              ELSE IF Reaches(target, source) THEN IterOf(target) + 1 ELSE 0
  IN  IF source = target \/ (target \in Members /\ next > cap) THEN 0 ELSE next

\* Mutated form: only a member two laps behind is lifted.
ForwardIterLate(source, target) ==
  LET next == IF Absent(target) THEN 1
              ELSE IF Reaches(target, source) THEN IterOf(target) + 1 ELSE 0
      refused == /\ target \in Members
                 /\ \/ next > cap
                    \/ source \in Members /\ ~Absent(target) /\ next >= IterOf(source)
  IN  IF source = target \/ refused THEN 0 ELSE next

\* forward_spawn_iter; 0 is no spawn.
ForwardIter(source, target) ==
  LET next == IF Absent(target) THEN 1
              ELSE IF Reaches(target, source) THEN IterOf(target) + 1 ELSE 0
      refused == /\ target \in Members
                 /\ \/ next > cap
                    \/ source \in Members /\ ~Absent(target) /\ IterOf(target) >= IterOf(source)
  IN  IF source = target \/ refused THEN 0 ELSE next

(***************************************************************************)
(* What it decides for the settled node n: for each of its edges, in the   *)
(* order of the wiring, actions with their step                            *)
(***************************************************************************)
Route(target) == IF target = End THEN Complete ELSE Spawn(target, 1)

\* The exhausted or ended region leaves by force, by its exits or by a park.
\* Its exits leave the member whose back-edge fired.
ExitActions ==
  LET exits == {k \in DOMAIN Wiring : Leaving(Wiring[k]) /\ Fires(Wiring[k])}
  IN  IF forced # None THEN {<<1, Route(forced)>>}
      ELSE IF exits = {}
      THEN {<<1, Park(IF loop.done THEN "region_ended_unrouted" ELSE "region_exhausted")>>}
      ELSE {<<k, Route(Wiring[k][2])>> : k \in exits}

OverBudget == budget # 0 /\ spent >= budget
BudgetPark == {<<1, Park("region_budget_exhausted")>>}

NextLap == {<<1, StartLap(CurrentIter + 1)>>, <<2, Spawn(Entry, CurrentIter + 1)>>}

\* Mutated form: a lagging member takes the lap the region already took.
ReentryOfLaggard(n) ==
  IF Ended \/ CurrentIter >= cap THEN ExitActions
  ELSE IF OverBudget THEN BudgetPark ELSE NextLap

\* Mutated form: the cap is off by one.
ReentryPastCap(n) ==
  IF ~Ended /\ CurrentIter > IterOf(n) THEN {}
  ELSE IF Ended \/ CurrentIter > cap THEN ExitActions
  ELSE IF OverBudget THEN BudgetPark ELSE NextLap

\* Mutated form: a region that was ended goes on.
ReentryUnended(n) ==
  IF ~Ended /\ CurrentIter > IterOf(n) THEN {}
  ELSE IF CurrentIter >= cap THEN ExitActions
  ELSE IF OverBudget THEN BudgetPark ELSE NextLap

\* handle_region_reentry, of the back-edge of n.
Reentry(n) ==
  IF ~Ended /\ CurrentIter > IterOf(n) THEN {}
  ELSE IF Ended \/ CurrentIter >= cap THEN ExitActions
  ELSE IF OverBudget THEN BudgetPark ELSE NextLap

Forward(e) ==
  LET i == ForwardIter(e[1], e[2])
      seed == IF Entering(e) /\ loop.iter = 0 THEN {<<1, StartLap(1)>>} ELSE {}
  IN  IF UpstreamDone(e[2], e[1]) /\ i # 0 THEN seed \cup {<<2, Spawn(e[2], i)>>} ELSE {}

EdgeActions(e) ==
  IF e[2] = End THEN IF UpstreamDone(End, e[1]) THEN {<<1, Complete>>} ELSE {}
  ELSE IF IsBack(e) THEN Reentry(e[1])
  ELSE Forward(e)

\* evaluate_outgoing_edges_full, of a node whose turn it is.
OutgoingActions(n, turn) ==
  LET out == {k \in DOMAIN Wiring : Wiring[k][1] = n /\ Fires(Wiring[k])}
      decided == UNION {{[at |-> <<turn, k, x[1]>>, act |-> x[2]] : x \in EdgeActions(Wiring[k])}
                          : k \in out}
      progress == \E d \in decided : d.act.do \in {"spawn", "complete"}
      unrouted == [at |-> <<turn, Len(Wiring) + 1, 1>>, act |-> Park("unrouted")]
  IN  IF ~progress /\ End \in Dead THEN decided \cup {unrouted} ELSE decided

\* ready_nodes: only unconditional edges count.
ReadyNodes ==
  {n \in Nodes : /\ Absent(n)
                 /\ In(n) = {} \/ In(n) \ Conditional # {}
                 /\ \A e \in In(n) \ Conditional : Settled(e[1])}

Accepts == RunAcceptsLifecycle(View(log))

(***************************************************************************)
(* Carrying out a task's next action, long after it was decided            *)
(***************************************************************************)
Work(t) == task[t].todo # {}
IsNext(t, d) == \A c \in task[t].todo : ~Before(c.at, d.at)

\* A terminal action drops what its driver had left.
Done(t, d) ==
  task' = [task EXCEPT
    ![t].todo = IF d.act.do \in {"complete", "park"} THEN {} ELSE @ \ {d},
    ![t].fires = IF d.act.do = "skip" /\ Accepts THEN @ \cup {d.act.node} ELSE @]

\* The verdicts a settling node may have.
Firings(n) == {(fired \ UNION Verdicts[n]) \cup f : f \in Verdicts[n]}

\* spawn_node, refused by the guard and by the session of a live iteration.
DoSpawn(n, i) ==
  /\ log' = IF ValidateStart(View(log), n, i) = "allow" /\ LiveIteration(View(log), n) = {}
            THEN NodeStarted(log, n, i) ELSE log
  /\ UNCHANGED <<loop, cap, budget, spent, forced, code, fired, commands>>

\* LoopIterStarted: the counter is what the event says.
DoLap(i) ==
  /\ loop' = [loop EXCEPT !.iter = i]
  /\ UNCHANGED <<log, cap, budget, spent, forced, code, fired, commands>>

DoComplete ==
  /\ log' = RunCompleted(log)
  /\ UNCHANGED <<loop, cap, budget, spent, forced, code, fired, commands>>

DoPark(c) ==
  /\ log' = RunInterrupted(log)
  /\ code' = IF IsLive(log.status) THEN c ELSE code
  /\ UNCHANGED <<loop, cap, budget, spent, forced, fired, commands>>

\* The auto-skip's completion, at iteration 1.
DoSkip(n) ==
  /\ IF ValidateCompletion(View(log), n, 1, TRUE) = "allow"
     THEN log' = NodeSkipped(log, n, 1) /\ \E f \in Firings(n) : fired' = f
     ELSE UNCHANGED <<log, fired>>
  /\ UNCHANGED <<loop, cap, budget, spent, forced, code, commands>>

\* apply_command_event; a region that has no entry yet is created closed.
DoCommand(x) ==
  /\ CASE x.do = "end_region" ->
            loop' = [iter |-> CurrentIter, done |-> TRUE] /\ UNCHANGED <<cap, budget, forced>>
       [] x.do = "set_region_max_iter" -> cap' = x.iter /\ UNCHANGED <<loop, budget, forced>>
       [] x.do = "set_region_max_cost" -> budget' = x.usd /\ UNCHANGED <<loop, cap, forced>>
       [] x.do = "force_route" -> forced' = x.target /\ UNCHANGED <<loop, cap, budget>>
  /\ UNCHANGED <<log, spent, code, fired, commands>>

DoResume ==
  /\ log' = RunReopened(log)
  /\ code' = IF RunReopened(log) = log THEN code ELSE "none"
  /\ UNCHANGED <<loop, cap, budget, spent, forced, fired, commands>>

Perform(t) ==
  \E d \in task[t].todo :
    LET x == d.act
    IN   /\ IsNext(t, d) /\ Done(t, d)
         /\ CASE x.do = "spawn" -> DoSpawn(x.node, x.iter)
              [] x.do = "lap" -> DoLap(x.iter)
              [] x.do = "complete" -> DoComplete
              [] x.do = "park" -> DoPark(x.code)
              [] x.do = "skip" -> DoSkip(x.node)
              [] x.do = "resume_run" -> DoResume
              [] OTHER -> DoCommand(x)

(***************************************************************************)
(* The phases of a task: each loads the run and decides what is to be done *)
(***************************************************************************)
Enter(t, phase) ==
  /\ ~Work(t) /\ task[t].fires = {}
  /\ task[t].plan # <<>> /\ Head(task[t].plan) = phase

Read(t, todo) ==
  /\ task' = [task EXCEPT ![t].plan = Tail(@), ![t].todo = todo]
  /\ UNCHANGED <<log, loop, cap, budget, spent, forced, code, fired, commands>>

Fire(n) == Enter(n, "fire") /\ Read(n, OutgoingActions(n, 0))

\* fire_edges of a node the sweep skipped.
FireSkipped(t) ==
  /\ ~Work(t)
  /\ \E n \in task[t].fires :
       task' = [task EXCEPT ![t].fires = @ \ {n}, ![t].todo = OutgoingActions(n, 0)]
  /\ UNCHANGED <<log, loop, cap, budget, spent, forced, code, fired, commands>>

\* One pass of sweep_auto_skips; it is repeated until it finds nothing.
Sweep(t) ==
  /\ Enter(t, "sweep")
  /\ IF Accepts /\ Unreachable # {}
     THEN /\ task' = [task EXCEPT ![t].todo = InAnyOrder({Skip(n) : n \in Unreachable})]
          /\ UNCHANGED <<log, loop, cap, budget, spent, forced, code, fired, commands>>
     ELSE Read(t, {})

\* advance_run's readiness sweep.  Its completion check counts Start and End
\* among the nodes that must have completed: see RunAdvance.
Ready(t) ==
  /\ Enter(t, "ready")
  /\ Read(t, InAnyOrder({Spawn(n, 1) : n \in IF Accepts THEN ReadyNodes ELSE {}}))

\* Mutated form: the re-evaluation is left to the next completion.
RedriveNothing(t) == Enter(t, "redrive") /\ Read(t, {})

\* The nodes of a map, one after the other.
Turns(S) == {f \in [S -> 1..Cardinality(S)] : \A m, n \in S : f[m] = f[n] => m = n}

\* re_evaluate_after_command: the edges of every settled node on one snapshot,
\* dropping the spawns it has already made.
Redrive(t) ==
  LET settled == {n \in Nodes : Settled(n)}
  IN  /\ Enter(t, "redrive")
      /\ \E turn \in Turns(settled) :
           Read(t, {d \in UNION {OutgoingActions(n, turn[n]) : n \in settled} :
                      d.act.do = "spawn" => ~SpawnSuperfluous(View(log), d.act.node, d.act.iter)})

TaskStep(t) ==
  \/ Perform(t) \/ FireSkipped(t) \/ Sweep(t) \/ Ready(t) \/ Redrive(t)
  \/ (t \in Nodes /\ Fire(t))

(***************************************************************************)
(* The agents and the operator                                             *)
(***************************************************************************)
\* Bounds: the tail of a node's lap is over when its next lap completes; with
\* Prompt, so is everything the daemon is doing when a node completes.
CompleteNode(n) ==
  /\ task[n] = Idle
  /\ Prompt => \A t \in Tasks : task[t] = Idle
  /\ \E i \in LiveIteration(View(log), n) :
       /\ ValidateCompletion(View(log), n, i, FALSE) = "allow"
       /\ log' = NodeCompleted(log, n, i)
  /\ \E f \in Firings(n) : fired' = f
  /\ spent' = spent + (IF n \in Charged THEN 1 ELSE 0)
  /\ \E order \in {CompletionFirst, SweepFirst} : task' = [task EXCEPT ![n] = Begin(order)]
  /\ UNCHANGED <<loop, cap, budget, forced, code, commands>>

\* The command is appended, a run parked with a reason resumed and the run
\* re-evaluated.  Bound: one command at a time, while the run is live.
Command(x) ==
  /\ commands < MaxCommands /\ IsLive(View(log).status) /\ task[Operator] = Idle
  /\ LET parked == View(log).status = "awaiting" /\ View(log).reason # "none"
     IN  task' = [task EXCEPT ![Operator] =
                    [Begin(<<"redrive">>) EXCEPT
                       !.todo = {[at |-> <<0, 0, 1>>, act |-> x]}
                                \cup IF parked THEN {[at |-> <<0, 0, 2>>, act |-> Resume]} ELSE {}]]
  /\ commands' = commands + 1
  /\ UNCHANGED <<log, loop, cap, budget, spent, forced, code, fired>>

\* Nothing is left to happen but a command.
Over ==
  /\ \A t \in Tasks : task[t] = Idle
  /\ \A n \in Nodes : LiveIteration(View(log), n) = {} \/ ~Accepts

Next ==
  \/ \E t \in Tasks : TaskStep(t)
  \/ \E n \in Nodes : CompleteNode(n)
  \/ \E x \in Commands : Command(x)
  \/ Over /\ UNCHANGED vars

Spec == Init /\ [][Next]_vars

\* tokio runs its tasks, and agents at work complete: of the tasks, and of the
\* agents, some one goes on.
FairSpec ==
  /\ Spec
  /\ WF_vars(\E t \in Tasks : TaskStep(t))
  /\ WF_vars(\E n \in Nodes : CompleteNode(n))

(***************************************************************************)
(* Properties                                                              *)
(***************************************************************************)
\* A member starts a lap only when every other member has settled the lap
\* before it and the members that feed it have settled this one.
WholeLaps ==
  [][\A m \in Members, i \in Iters :
       log.nodes[m].row[i] = "none" /\ log'.nodes[m].row[i] # "none" =>
         /\ i > 1 => \A other \in Members : SettledComplete(log.nodes[other].row[i - 1])
         /\ \A e \in In(m) : e[1] \in Members /\ ~IsBack(e) =>
              SettledComplete(log.nodes[e[1]].row[i])]_vars

\* The region never counts, and no member ever runs, a lap beyond the cap.
LapsWithinCap ==
  /\ loop.iter <= cap
  /\ \A m \in Members, i \in Iters : log.nodes[m].row[i] # "none" => i <= cap

LapPending ==
  \E t \in Tasks : \E d \in task[t].todo : d.act.do = "lap" /\ d.act.iter > 1

\* Once the region is closed and nothing decided before is left, no task
\* decides another lap.
ClosedForGood == [][loop.done /\ ~LapPending => ~LapPending']_vars

AtWork == {n \in Nodes : HoldsSession(log.nodes[n].st)}

\* A run that completes leaves no agent at work, unless its exit was forced.
RunEndsWhole == log.status = "completed" /\ forced = None => AtWork = {}

(***************************************************************************)
(* The shapes of regions that the theorems are about                       *)
(***************************************************************************)
\* The members in the order of the body: each runs after the one before it,
\* and the last one alone goes back.  With one back-edge and no convergence a
\* body is such a chain.
Chain(body) ==
  /\ body \in Seq(Members) /\ Len(body) >= 2
  /\ \A m \in Members : \E k \in 1..Len(body) : body[k] = m
  /\ \A j, k \in 1..Len(body) : body[j] = body[k] => j = k
  /\ body[1] = Entry
  /\ \A k \in 2..Len(body) : /\ In(body[k]) = {<<body[k - 1], body[k]>>}
                             /\ <<body[k - 1], body[k]>> \notin Conditional
  /\ \A e \in Edges : IsBack(e) => e[1] = body[Len(body)]

\* The nodes of S always run: no verdict can do without one.
Sure(S) ==
  /\ S \subseteq Nodes
  /\ \A n \in S : In(n) = {} \/ \E e \in In(n) \ Conditional : e[1] \in S

\* A chain of members that always run.
Whole(body) == Chain(body) /\ \E S \in SUBSET Nodes : Sure(S) /\ Members \subseteq S

Outside == Nodes \ Members
LastOf(body) == body[Len(body)]
Back(body) == <<LastOf(body), Entry>>
Exit(body) == <<LastOf(body), End>>

\* The region is what the run ends with: whatever else there is comes before
\* it, only the last member's verdict leaves it, for End, and that verdict does
\* not go back as well.  A node before it always runs, or its producers do.
EndsRun(body) ==
  /\ Whole(body)
  /\ In(End) = {Exit(body)}
  /\ \A e \in Edges : Leaving(e) => e = Exit(body)
  /\ Back(body) \in Conditional /\ Exit(body) \in Conditional
  /\ \A f \in Verdicts[LastOf(body)] : Back(body) \notin f \/ Exit(body) \notin f
  /\ \A x \in Outside : <<x, Entry>> \in Edges \ Conditional
  /\ \E S \in SUBSET Nodes : Sure(S) /\ \A x \in Outside : \A e \in In(x) : e[1] \in S
=============================================================================
