------------------------------ MODULE RunAdvance ------------------------------
(***************************************************************************)
(* How a Run moves through its graph.  A completed node leaves a task      *)
(* behind, the tail of its completion: it fires the node's edges, skips    *)
(* what became unreachable, spawns what became ready and asks whether the  *)
(* run is complete.  Tails are detached, so those of several nodes, the    *)
(* launch of the run and a resume are interleaved; each reloads the run    *)
(* where the code does and acts later on what it read then.                *)
(*                                                                         *)
(* The pipeline is acyclic: loop regions, collections, switches and forced *)
(* routes are left out.  Reading an artefact's frontmatter is the choice,  *)
(* made once when a node settles, of which conditional edges fire.         *)
(* "running" stands for every status of a node that is not settled:        *)
(* throttling and failed spawns are the subject of Admission.              *)
(***************************************************************************)
EXTENDS Naturals, FiniteSets, Sequences

CONSTANTS
  Nodes,        \* the agent and script nodes
  Start, End,   \* the pipeline's two other nodes, never in the projection
  Edges,        \* <<producer, target>>; a node Start feeds has no other producer
                \* and its edge from Start is left out
  Conditional,  \* edges with a `when' or `else' clause
  Halting,      \* edges to End that carry a reason
  Required,     \* edges that alone feed a required input port
  Launch, Resume,
  Resumable     \* statuses of a run the user resumes

Tasks == Nodes \cup {Launch, Resume}
RunStatuses == {"running", "parked", "paused", "completed", "halted"}

ASSUME AdvanceAssumption ==
  /\ IsFiniteSet(Nodes)
  /\ Start # End /\ {Start, End} \cap Nodes = {}
  /\ Launch # Resume /\ {Launch, Resume} \cap Nodes = {}
  /\ Edges \subseteq Nodes \X (Nodes \cup {End})
  /\ Conditional \subseteq Edges /\ Required \subseteq Edges
  /\ Halting \subseteq Conditional \cap (Nodes \X {End})
  /\ Resumable \subseteq RunStatuses
  /\ \A S \in SUBSET (Nodes \cup {End}) :      \* no cycle
       S # {} => \E n \in S : \A e \in Edges : e[2] = n => e[1] \notin S

VARIABLES
  run,          \* the status of the run
  node,         \* node -> its status
  fired,        \* the edges that fired
  task          \* task -> what it has left to do

vars == <<run, node, fired, task>>

NodeStatuses == {"absent", "running", "completed", "skipped"}
Phases == {"fire", "sweep", "ready", "gate", "redrive"}

Spawn(n) == [do |-> "spawn", node |-> n]
Skip(n) == [do |-> "skip", node |-> n]
Complete == [do |-> "complete", node |-> End]
Halt == [do |-> "halt", node |-> End]
Park == [do |-> "park", node |-> End]
Actions == {Complete, Halt, Park} \cup {Spawn(n) : n \in Nodes} \cup {Skip(n) : n \in Nodes}

\* plan: the phases still to enter; todo: the actions of the current one;
\* fires: nodes it skipped whose edges it still has to fire.
Idle == [plan |-> <<>>, todo |-> {}, fires |-> {}]
Begin(plan) == [Idle EXCEPT !.plan = plan]
CompletionFirst == <<"fire", "sweep", "ready", "gate">>
SweepFirst == <<"sweep", "ready", "fire", "gate">>
Tick == <<"sweep", "ready">>

TypeOK ==
  /\ run \in RunStatuses
  /\ node \in [Nodes -> NodeStatuses]
  /\ fired \subseteq Edges
  /\ task \in [Tasks -> [plan : Seq(Phases), todo : SUBSET Actions, fires : SUBSET Nodes]]

Accepts == run \in {"running", "parked"}
Settled(n) == n \in Nodes /\ node[n] \in {"completed", "skipped"}
Absent(n) == n \notin Nodes \/ node[n] = "absent"
In(n) == {e \in Edges : e[2] = n}
Out(n) == {e \in Edges : e[1] = n}

Init ==
  /\ run = "running"
  /\ node = [n \in Nodes |-> "absent"]
  /\ fired = {}
  /\ task = [t \in Tasks |-> IF t = Launch THEN Begin(Tick) ELSE Idle]

(***************************************************************************)
(* The scheduler's pure decisions                                          *)
(***************************************************************************)
\* Edge e can no longer deliver, when D are the dead nodes.
EdgeDead(e, D) ==
  IF Settled(e[1]) THEN e \notin fired ELSE e[1] \in D

\* The dead nodes; the pipeline is acyclic, so there is one such set.
Dead ==
  CHOOSE D \in SUBSET (Nodes \cup {End}) :
    \A n \in Nodes \cup {End} :
      n \in D <=> Absent(n) /\ In(n) # {} /\ \A e \in In(n) : EdgeDead(e, D)

\* Mutated form: End is skipped like any other node.
UnreachableEnd == {n \in Nodes \cup {End} : n \in Dead}

\* Mutated form: one dead branch is enough.
UnreachableAny == {n \in Nodes : Absent(n) /\ \E e \in In(n) : EdgeDead(e, Dead)}

\* unreachable_nodes: dead, or one required input of theirs is.
Unreachable ==
  {n \in Nodes : Absent(n) /\ (n \in Dead \/ \E e \in In(n) \cap Required : EdgeDead(e, Dead))}

\* Mutated form: a producer that is still at work blocks nobody.
ResolvedEarly(target, source) ==
  \A e \in In(target) : e[1] = source \/ Settled(e[1]) \/ e[1] \in Dead \/ ~Absent(e[1])

\* check_all_upstream_completed.
Resolved(target, source) ==
  \A e \in In(target) : e[1] = source \/ Settled(e[1]) \/ e[1] \in Dead

\* evaluate_outgoing_edges_full, for the completed node n.
EdgeActions(n) ==
  LET out == Out(n) \cap fired
      spawns == {Spawn(e[2]) : e \in {f \in out : /\ f[2] # End
                                                  /\ Absent(f[2])
                                                  /\ Resolved(f[2], n)}}
      ends == {x \in {Halt, Complete} :
                 \E e \in out : /\ e[2] = End
                                /\ IF e \in Halting THEN x = Halt
                                   ELSE x = Complete /\ Resolved(End, n)}
  IN  IF spawns \cup ends = {} /\ End \in Dead THEN {Park} ELSE spawns \cup ends

\* Mutated form: one unconditional producer is enough.
ReadyNodesAny ==
  {n \in Nodes : Absent(n) /\ (In(n) = {} \/ \E e \in In(n) \ Conditional : Settled(e[1]))}

\* ready_nodes: only unconditional edges count.
ReadyNodes ==
  {n \in Nodes : /\ Absent(n)
                 /\ In(n) = {} \/ In(n) \ Conditional # {}
                 /\ \A e \in In(n) \ Conditional : Settled(e[1])}

\* should_complete_run over the ids of the whole pipeline.
ShouldComplete ==
  run = "running" /\ \A n \in Nodes \cup {Start, End} : Settled(n)

(***************************************************************************)
(* One action of a task                                                    *)
(***************************************************************************)
\* The edges a node that settles may fire.
Firings(n) == {(Out(n) \ Conditional) \cup c : c \in SUBSET (Out(n) \cap Conditional)}

\* NodeStarted, refused by the guard for a node that is there already.
DoSpawn(n) ==
  /\ node' = IF Accepts /\ Absent(n) THEN [node EXCEPT ![n] = "running"] ELSE node
  /\ UNCHANGED <<run, fired>>

\* The auto-skip's completion; one of a node another task started meanwhile
\* completes it, one of a settled node is a no-op.
DoSkip(n) ==
  /\ IF Accepts /\ ~Settled(n)
     THEN /\ node' = [node EXCEPT ![n] = IF Absent(n) THEN "skipped" ELSE "completed"]
          /\ \E f \in Firings(n) : fired' = fired \cup f
     ELSE UNCHANGED <<node, fired>>
  /\ UNCHANGED run

DoEnd(x) ==
  /\ run' = CASE x = Complete -> "completed"
              [] x = Halt -> "halted"
              [] OTHER -> IF Accepts \/ run = "paused" THEN "parked" ELSE run
  /\ UNCHANGED <<node, fired>>

SpawnStep(t) ==
  \E n \in Nodes :
    /\ Spawn(n) \in task[t].todo
    /\ DoSpawn(n)
    /\ task' = [task EXCEPT ![t].todo = @ \ {Spawn(n)}]

SkipStep(t) ==
  \E n \in Nodes :
    /\ Skip(n) \in task[t].todo
    /\ DoSkip(n)
    /\ task' = [task EXCEPT ![t].todo = @ \ {Skip(n)},
                            ![t].fires = IF Accepts THEN @ \cup {n} ELSE @]

\* A terminal action unwinds its driver: what it had left is dropped.
EndStep(t, x) ==
  /\ x \in task[t].todo
  /\ DoEnd(x)
  /\ task' = [task EXCEPT ![t].todo = {}]

(***************************************************************************)
(* The phases of a task: each loads the run and decides what is to be done *)
(***************************************************************************)
Enter(t, phase) ==
  /\ task[t].todo = {} /\ task[t].fires = {}
  /\ task[t].plan # <<>> /\ Head(task[t].plan) = phase

Then(t, todo) ==
  /\ task' = [task EXCEPT ![t].plan = Tail(@), ![t].todo = todo]
  /\ UNCHANGED <<run, node, fired>>

Fire(t) == Enter(t, "fire") /\ Then(t, EdgeActions(t))

\* fire_edges of a node the sweep skipped.
FireSkipped(t) ==
  /\ task[t].todo = {}
  /\ \E n \in task[t].fires :
       task' = [task EXCEPT ![t].fires = @ \ {n}, ![t].todo = EdgeActions(n)]
  /\ UNCHANGED <<run, node, fired>>

\* One pass of sweep_auto_skips; it is repeated until it finds nothing.
Sweep(t) ==
  /\ Enter(t, "sweep")
  /\ IF Accepts /\ Unreachable # {}
     THEN /\ task' = [task EXCEPT ![t].todo = {Skip(n) : n \in Unreachable}]
          /\ UNCHANGED <<run, node, fired>>
     ELSE Then(t, {})

\* advance_run's own completion check counts Start and End among the nodes
\* that must have completed, like the one of Gate.
Ready(t) ==
  /\ Enter(t, "ready")
  /\ IF Accepts /\ ReadyNodes = {} /\ ShouldComplete
     THEN Then(t, {Complete})
     ELSE Then(t, IF Accepts THEN {Spawn(n) : n \in ReadyNodes} ELSE {})

Gate(t) == Enter(t, "gate") /\ Then(t, IF ShouldComplete THEN {Complete} ELSE {})

\* Mutated form: the resume trusts the tails to have driven everything.
RedriveNothing(t) == Enter(t, "redrive") /\ Then(t, {})

\* re_evaluate_after_command: the edges of every settled node, on one snapshot.
Redrive(t) ==
  /\ Enter(t, "redrive")
  /\ Then(t, UNION {EdgeActions(n) : n \in {m \in Nodes : Settled(m)}})

TaskStep(t) ==
  \/ SpawnStep(t) \/ SkipStep(t) \/ (\E x \in {Complete, Halt, Park} : EndStep(t, x))
  \/ FireSkipped(t)
  \/ (t \in Nodes /\ Fire(t)) \/ Sweep(t) \/ Ready(t) \/ Gate(t) \/ Redrive(t)

(***************************************************************************)
(* What happens to the run                                                 *)
(***************************************************************************)
\* A completion: the agent's (edges, then sweep) or the user's (sweep first).
CompleteNode(n) ==
  /\ Accepts /\ node[n] = "running" /\ task[n].plan = <<>>
  /\ node' = [node EXCEPT ![n] = "completed"]
  /\ \E f \in Firings(n) : fired' = fired \cup f
  /\ \E order \in {CompletionFirst, SweepFirst} : task' = [task EXCEPT ![n] = Begin(order)]
  /\ UNCHANGED run

PauseRun ==
  /\ Accepts
  /\ run' = "paused"
  /\ UNCHANGED <<node, fired, task>>

\* A paused run is resumed, a halted one re-opened, any other only
\* re-evaluated.  Bound: one resume is re-evaluated at a time.
ResumeRun ==
  /\ run \in Resumable
  /\ task[Resume] = Idle
  /\ run' = IF run \in {"paused", "halted"} THEN "running" ELSE run
  /\ task' = [task EXCEPT ![Resume] = Begin(<<"redrive">>)]
  /\ UNCHANGED <<node, fired>>

\* The periodic sweep parks a run nobody drives.  Bound: its grace outlasts
\* every task at work.
Quiet == \A t \in Tasks : task[t] = Idle

ReconcileStall ==
  /\ run = "running" /\ Quiet
  /\ \A n \in Nodes : node[n] # "running"
  /\ ReadyNodes # {}
  /\ run' = "parked"
  /\ UNCHANGED <<node, fired, task>>

Next ==
  \/ \E t \in Tasks : TaskStep(t)
  \/ \E n \in Nodes : CompleteNode(n)
  \/ PauseRun
  \/ ResumeRun
  \/ ReconcileStall

Spec == Init /\ [][Next]_vars

(***************************************************************************)
(* Properties                                                              *)
(***************************************************************************)
\* A convergence waits for all its branches: a node that starts has every
\* incoming edge resolved and, unless it is a root, one that fired.
StartsAreFed ==
  [][\A n \in Nodes : node[n] = "absent" /\ node'[n] = "running" =>
       /\ \A e \in In(n) : Settled(e[1]) \/ e[1] \in Dead
       /\ In(n) = {} \/ In(n) \cap fired # {}]_vars

\* The auto-skip never drops work that was handed over: no edge of a node that
\* really completed had fired into the skipped one.
SkipsDropNothing ==
  [][\A n \in Nodes : node[n] = "absent" /\ node'[n] = "skipped" =>
       \A e \in In(n) \cap fired : node[e[1]] = "skipped"]_vars

\* End is a convergence too: a run does not complete while a branch is still
\* at work.
CompletedMeansDone ==
  run = "completed" => \A n \in Nodes : node[n] # "running"

\* Nobody forgets a node: when every tail, tick and re-evaluation is over, a
\* running run that was launched has no node left that is ready to start.
NothingReadyIsLeft ==
  run = "running" /\ Quiet /\ (\E n \in Nodes : ~Absent(n)) => ReadyNodes = {}

(***************************************************************************)
(* What some of the theorems about the properties ask of a pipeline        *)
(***************************************************************************)
\* What a re-evaluation can be trusted with: it looks at the fired edges of
\* settled nodes, so at most one node may start without any; and it waits for
\* every producer of a node, so readiness must, too.
OneRoot == \A m, n \in Nodes : In(m) = {} /\ In(n) = {} => m = n
Uniform == \A n \in Nodes : In(n) \cap Conditional = {} \/ In(n) \subseteq Conditional
Redriven == Resumable = {} \/ (OneRoot /\ Uniform)

\* The nodes that always run: roots, and what an unguarded edge leads to from
\* one of them.
Sure ==
  {n \in Nodes : \E S \in SUBSET Nodes :
     n \in S /\ \A m \in S : In(m) = {} \/ \E e \in In(m) \ Conditional : e[1] \in S}

\* A node that always runs, or that dies at once, by guards of such nodes.
Steady(n) == n \in Sure \/ \A e \in In(n) : e[1] \in Sure

\* A branch that may die is one node long before it meets another.
Shallow == \A e \in Edges : e[2] \in Nodes => Steady(e[1])

\* So it is in front of End, too, unless a single edge leads there without a
\* reason to halt.
OneExit == \A e \in In(End) : Steady(e[1]) \/ In(End) \ Halting = {e}

\* A required input is its node's only one.
SoleInputs == \A e \in Required : In(e[2]) = {e}

\* Every node leads to End: what does, closed under producers, is all of them.
AllLead ==
  \A S \in SUBSET (Nodes \cup {End}) :
    End \in S /\ (\A e \in Edges : e[2] \in S => e[1] \in S) => Nodes \subseteq S
=============================================================================
