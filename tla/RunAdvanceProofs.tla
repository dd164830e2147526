-------------------------- MODULE RunAdvanceProofs --------------------------
(***************************************************************************)
(* The safety of RunAdvance, for every acyclic pipeline: nothing starts    *)
(* and nothing ends without an edge that fired, the dead nodes are well    *)
(* defined, and no node that is ready is forgotten.  Where optional        *)
(* branches are one node long, convergences wait for all of their          *)
(* branches, skips drop nothing, and a completed run is complete.          *)
(***************************************************************************)
EXTENDS RunAdvance, SequenceTheorems, TLAPS

(***************************************************************************)
(* Types                                                                   *)
(***************************************************************************)
TaskRecs == [plan : Seq(Phases), todo : SUBSET Actions, fires : SUBSET Nodes]

LEMMA ActionTypes ==
  /\ \A n \in Nodes : Spawn(n) \in Actions /\ Skip(n) \in Actions
  /\ Complete \in Actions /\ Halt \in Actions /\ Park \in Actions
  BY DEF Actions

\* What the actions are is told apart by their names.
LEMMA ActionsDiffer ==
  /\ \A m, n : Spawn(m) # Skip(n) /\ (Spawn(m) = Spawn(n) => m = n) /\ (Skip(m) = Skip(n) => m = n)
  /\ \A n : {Spawn(n), Skip(n)} \cap {Complete, Halt, Park} = {}
  /\ Complete # Halt /\ Complete # Park /\ Halt # Park
  BY DEF Spawn, Skip, Complete, Halt, Park

LEMMA EdgeEnds ==
  ASSUME NEW e \in Edges
  PROVE  e[1] \in Nodes /\ e[2] \in Nodes \cup {End} /\ e = <<e[1], e[2]>>
  BY AdvanceAssumption

LEMMA EdgeActionTypes ==
  ASSUME NEW n \in Nodes, fired \subseteq Edges
  PROVE  EdgeActions(n) \subseteq Actions
<1> DEFINE out == Out(n) \cap fired
           spawns == {Spawn(e[2]) : e \in {f \in out : f[2] # End /\ Absent(f[2]) /\ Resolved(f[2], n)}}
<1>1. spawns \subseteq Actions
  BY EdgeEnds, ActionTypes
<1> QED
  BY <1>1, ActionTypes DEF EdgeActions

LEMMA PlanTypes ==
  /\ Idle \in TaskRecs
  /\ \A plan \in {CompletionFirst, SweepFirst, Tick, <<"redrive">>} :
       plan \in Seq(Phases) /\ plan # <<>> /\ Begin(plan) \in TaskRecs
       /\ Begin(plan).plan = plan /\ Begin(plan).todo = {} /\ Begin(plan).fires = {}
<1>1. <<>> \in Seq(Phases)
  OBVIOUS
<1>2. /\ CompletionFirst \in Seq(Phases) /\ CompletionFirst # <<>>
      /\ SweepFirst \in Seq(Phases) /\ SweepFirst # <<>>
  BY DEF CompletionFirst, SweepFirst, Phases
<1>3. Tick \in Seq(Phases) /\ Tick # <<>> /\ <<"redrive">> \in Seq(Phases) /\ <<"redrive">> # <<>>
  BY DEF Tick, Phases
<1> QED
  BY <1>1, <1>2, <1>3 DEF TaskRecs, Idle, Begin

LEMMA FiringTypes ==
  ASSUME NEW n, NEW f \in Firings(n)
  PROVE  f \subseteq Out(n) /\ Out(n) \ Conditional \subseteq f /\ Out(n) \subseteq Edges
  BY DEF Firings, Out

LEMMA InitType ==
  ASSUME Init
  PROVE  TypeOK
  BY PlanTypes DEF Init, TypeOK, RunStatuses, NodeStatuses, TaskRecs

\* Entering a phase leaves the task well typed.
LEMMA ThenType ==
  ASSUME TypeOK, NEW t \in Tasks, NEW phase, Enter(t, phase), NEW todo \in SUBSET Actions, Then(t, todo)
  PROVE  TypeOK'
<1>1. Tail(task[t].plan) \in Seq(Phases)
  BY DEF TypeOK, Enter
<1> QED
  BY <1>1 DEF TypeOK, Then

LEMMA DoTypes ==
  ASSUME TypeOK, NEW n \in Nodes
  PROVE  /\ DoSpawn(n) => run' \in RunStatuses /\ node' \in [Nodes -> NodeStatuses] /\ fired' \subseteq Edges
         /\ DoSkip(n) => run' \in RunStatuses /\ node' \in [Nodes -> NodeStatuses] /\ fired' \subseteq Edges
         /\ \A x : DoEnd(x) => run' \in RunStatuses /\ node' \in [Nodes -> NodeStatuses] /\ fired' \subseteq Edges
<1>1. DoSpawn(n) => run' \in RunStatuses /\ node' \in [Nodes -> NodeStatuses] /\ fired' \subseteq Edges
  BY DEF TypeOK, DoSpawn, NodeStatuses
<1>2. DoSkip(n) => run' \in RunStatuses /\ node' \in [Nodes -> NodeStatuses] /\ fired' \subseteq Edges
  <2> SUFFICES ASSUME DoSkip(n)
               PROVE  run' \in RunStatuses /\ node' \in [Nodes -> NodeStatuses] /\ fired' \subseteq Edges
    OBVIOUS
  <2>1. fired' \subseteq Edges
    BY FiringTypes DEF TypeOK, DoSkip
  <2>2. node' \in [Nodes -> NodeStatuses]
    BY DEF TypeOK, DoSkip, NodeStatuses
  <2> QED
    BY <2>1, <2>2 DEF TypeOK, DoSkip
<1>3. ASSUME NEW x, DoEnd(x)
      PROVE  run' \in RunStatuses /\ node' \in [Nodes -> NodeStatuses] /\ fired' \subseteq Edges
  BY <1>3 DEF TypeOK, DoEnd, RunStatuses
<1> QED
  BY <1>1, <1>2, <1>3

LEMMA TaskStepType ==
  ASSUME TypeOK, NEW t \in Tasks, TaskStep(t)
  PROVE  TypeOK'
<1>1. CASE SpawnStep(t)
  <2>1. PICK n \in Nodes : DoSpawn(n) /\ task' = [task EXCEPT ![t].todo = @ \ {Spawn(n)}]
    BY <1>1 DEF SpawnStep
  <2>2. task' \in [Tasks -> TaskRecs]
    BY <2>1 DEF TypeOK, TaskRecs
  <2> QED
    BY <2>1, <2>2, DoTypes DEF TypeOK, TaskRecs
<1>2. CASE SkipStep(t)
  <2>1. PICK n \in Nodes : /\ DoSkip(n)
                          /\ task' = [task EXCEPT ![t].todo = @ \ {Skip(n)},
                                                  ![t].fires = IF Accepts THEN @ \cup {n} ELSE @]
    BY <1>2 DEF SkipStep
  <2>2. task' \in [Tasks -> TaskRecs]
    BY <2>1 DEF TypeOK, TaskRecs
  <2> QED
    BY <2>1, <2>2, DoTypes DEF TypeOK, TaskRecs
<1>3. ASSUME NEW x \in {Complete, Halt, Park}, EndStep(t, x) PROVE TypeOK'
  <2>1. run' \in RunStatuses /\ node' = node /\ fired' = fired
    BY <1>3 DEF EndStep, DoEnd, TypeOK, RunStatuses
  <2> QED
    BY <1>3, <2>1 DEF EndStep, TypeOK
<1>4. CASE FireSkipped(t)
  <2>1. PICK n \in task[t].fires :
          task' = [task EXCEPT ![t].fires = @ \ {n}, ![t].todo = EdgeActions(n)]
    BY <1>4 DEF FireSkipped
  <2>2. n \in Nodes /\ EdgeActions(n) \subseteq Actions
    BY EdgeActionTypes DEF TypeOK
  <2>3. task' \in [Tasks -> TaskRecs]
    BY <2>1, <2>2 DEF TypeOK, TaskRecs
  <2> QED
    BY <1>4, <2>3 DEF FireSkipped, TypeOK, TaskRecs
<1>5. CASE t \in Nodes /\ Fire(t)
  BY <1>5, ThenType, EdgeActionTypes DEF Fire, TypeOK
<1>6. CASE Sweep(t)
  <2>1. {Skip(n) : n \in Unreachable} \subseteq Actions /\ {} \subseteq Actions
    BY ActionTypes DEF Unreachable
  <2>2. CASE Accepts /\ Unreachable # {}
    BY <1>6, <2>1, <2>2, ZenonT(40) DEF Sweep, TypeOK
  <2>3. CASE ~(Accepts /\ Unreachable # {})
    BY <1>6, <2>1, <2>3, ThenType DEF Sweep
  <2> QED
    BY <2>2, <2>3
<1>7. CASE Ready(t)
  <2>1. {Spawn(n) : n \in ReadyNodes} \subseteq Actions /\ {} \subseteq Actions /\ {Complete} \subseteq Actions
    BY ActionTypes DEF ReadyNodes
  <2> QED
    BY <1>7, <2>1, ThenType DEF Ready
<1>8. CASE Gate(t)
  BY <1>8, ThenType, ActionTypes DEF Gate
<1>9. CASE Redrive(t)
  <2>1. UNION {EdgeActions(n) : n \in {m \in Nodes : Settled(m)}} \subseteq Actions
    BY EdgeActionTypes DEF TypeOK
  <2> QED
    BY <1>9, <2>1, ThenType DEF Redrive
<1> QED
  BY <1>1, <1>2, <1>3, <1>4, <1>5, <1>6, <1>7, <1>8, <1>9 DEF TaskStep

LEMMA StepType ==
  ASSUME TypeOK, [Next]_vars
  PROVE  TypeOK'
<1>1. ASSUME NEW t \in Tasks, TaskStep(t) PROVE TypeOK'
  BY <1>1, TaskStepType
<1>2. ASSUME NEW n \in Nodes, CompleteNode(n) PROVE TypeOK'
  <2>1. PICK f \in Firings(n) : fired' = fired \cup f
    BY <1>2 DEF CompleteNode
  <2>2. PICK order \in {CompletionFirst, SweepFirst} : task' = [task EXCEPT ![n] = Begin(order)]
    BY <1>2 DEF CompleteNode
  <2> QED
    BY <1>2, <2>1, <2>2, FiringTypes, PlanTypes DEF CompleteNode, TypeOK, NodeStatuses, TaskRecs
<1>3. CASE PauseRun
  BY <1>3 DEF PauseRun, TypeOK, RunStatuses
<1>4. CASE ResumeRun
  BY <1>4, PlanTypes DEF ResumeRun, TypeOK, RunStatuses, TaskRecs
<1>5. CASE ReconcileStall
  BY <1>5 DEF ReconcileStall, TypeOK, RunStatuses
<1>6. CASE UNCHANGED vars
  BY <1>6 DEF vars, TypeOK
<1> QED
  BY <1>1, <1>2, <1>3, <1>4, <1>5, <1>6 DEF Next

\* Type correctness: tasks only ever hold phases, actions and nodes of this
\* pipeline.
THEOREM AdvanceTypeOK == Spec => []TypeOK
  BY InitType, StepType, PTL DEF Spec

(***************************************************************************)
(* What fired, and what it allows                                          *)
(***************************************************************************)
\* The edges that fired are those of settled nodes, all their unconditional
\* ones among them.
FiringOK ==
  /\ \A n \in Nodes : Settled(n) => Out(n) \ Conditional \subseteq fired
  /\ \A e \in fired : Settled(e[1])

\* What a task is to start or to end was handed over by an edge.
TodoOK ==
  \A t \in Tasks :
    /\ \A n \in Nodes : Spawn(n) \in task[t].todo => In(n) = {} \/ In(n) \cap fired # {}
    /\ Complete \in task[t].todo => In(End) \cap fired # {}
    /\ Halt \in task[t].todo => In(End) \cap fired \cap Halting # {}

\* A task of a node begins when the node completes.
NotBegun == \A n \in Nodes : ~Settled(n) => task[n] = Idle

HandOver == TypeOK /\ FiringOK /\ TodoOK /\ NotBegun

\* A node that is there stays, one that settled stays so, an edge that fired
\* too.
Kept ==
  /\ \A n \in Nodes : (Settled(n) => Settled(n)') /\ (Absent(n)' => Absent(n))
  /\ fired \subseteq fired'

LEMMA SpawnsOne ==
  ASSUME TypeOK, NEW n \in Nodes, DoSpawn(n)
  PROVE  /\ fired' = fired /\ run' = run
         /\ \A m \in Nodes : /\ Settled(m)' <=> Settled(m)
                             /\ Absent(m)' <=> Absent(m) /\ (m = n => ~Accepts)
  BY DEF TypeOK, DoSpawn, Settled, Absent, NodeStatuses

\* What becomes of a node that is skipped or completes.
Settles(n) ==
  /\ \A m \in Nodes : /\ Settled(m)' <=> Settled(m) \/ m = n
                      /\ Absent(m)' <=> Absent(m) /\ m # n
  /\ \E f \in Firings(n) : fired' = fired \cup f

LEMMA SkipsOne ==
  ASSUME TypeOK, NEW n \in Nodes, DoSkip(n)
  PROVE  /\ run' = run
         /\ Accepts /\ ~Settled(n) => Settles(n)
         /\ ~(Accepts /\ ~Settled(n)) => UNCHANGED <<node, fired>>
<1>1. CASE Accepts /\ ~Settled(n)
  <2>1. /\ node' = [node EXCEPT ![n] = IF Absent(n) THEN "skipped" ELSE "completed"]
        /\ \E f \in Firings(n) : fired' = fired \cup f
    BY <1>1 DEF DoSkip
  <2>2. \A m \in Nodes : /\ Settled(m)' <=> Settled(m) \/ m = n
                         /\ Absent(m)' <=> Absent(m) /\ m # n
    BY <2>1 DEF TypeOK, Settled, Absent, NodeStatuses
  <2> QED
    BY <1>1, <2>1, <2>2 DEF DoSkip, Settles
<1>2. CASE ~(Accepts /\ ~Settled(n))
  BY <1>2 DEF DoSkip
<1> QED
  BY <1>1, <1>2

LEMMA CompletesOne ==
  ASSUME TypeOK, NEW n \in Nodes, CompleteNode(n)
  PROVE  Settles(n) /\ ~Settled(n) /\ ~Absent(n) /\ run' = run
<1>1. \A m \in Nodes : /\ Settled(m)' <=> Settled(m) \/ m = n
                       /\ Absent(m)' <=> Absent(m) /\ m # n
  BY DEF TypeOK, CompleteNode, Settled, Absent, NodeStatuses
<1>2. \E f \in Firings(n) : fired' = fired \cup f
  BY DEF CompleteNode
<1> QED
  BY <1>1, <1>2 DEF Settles, CompleteNode, Settled, Absent

LEMMA SettlesKeeps ==
  ASSUME NEW n \in Nodes, Settles(n), FiringOK
  PROVE  Kept /\ FiringOK'
<1>1. PICK f \in Firings(n) : fired' = fired \cup f
  BY DEF Settles
<1>2. f \subseteq Out(n) /\ Out(n) \ Conditional \subseteq f
  BY FiringTypes
<1>3. Kept
  BY <1>1 DEF Settles, Kept
<1>4. ASSUME NEW m \in Nodes, Settled(m)' PROVE Out(m) \ Conditional \subseteq fired'
  BY <1>1, <1>2, <1>4 DEF Settles, FiringOK
<1>5. ASSUME NEW e \in fired' PROVE Settled(e[1])'
  <2>1. CASE e \in fired
    <3>1. Settled(e[1]) /\ e[1] \in Nodes
      BY <2>1 DEF FiringOK, Settled
    <3> QED
      BY <3>1 DEF Settles
  <2>2. CASE e \in f
    BY <1>2, <2>2 DEF Settles, Out
  <2> QED
    BY <1>1, <1>5, <2>1, <2>2
<1> QED
  BY <1>3, <1>4, <1>5 DEF FiringOK

\* Nothing settles, nothing fires.
LEMMA NothingSettles ==
  ASSUME fired' = fired, \A m \in Nodes : (Settled(m)' <=> Settled(m)) /\ (Absent(m)' => Absent(m)), FiringOK
  PROVE  Kept /\ FiringOK'
  BY DEF Kept, FiringOK, Settled

LEMMA FiringStep ==
  ASSUME TypeOK, FiringOK, [Next]_vars
  PROVE  Kept /\ FiringOK'
<1>1. ASSUME NEW t \in Tasks, SpawnStep(t) PROVE Kept /\ FiringOK'
  BY <1>1, SpawnsOne, NothingSettles DEF SpawnStep
<1>2. CASE UNCHANGED <<node, fired>>
  BY <1>2, NothingSettles DEF Settled, Absent
<1>3. ASSUME NEW t \in Tasks, SkipStep(t) PROVE Kept /\ FiringOK'
  <2>1. PICK n \in Nodes : DoSkip(n)
    BY <1>3 DEF SkipStep
  <2> QED
    BY <1>2, <2>1, SkipsOne, SettlesKeeps
<1>4. ASSUME NEW n \in Nodes, CompleteNode(n) PROVE Kept /\ FiringOK'
  BY <1>4, CompletesOne, SettlesKeeps
<1>5. ASSUME NEW t \in Tasks, TaskStep(t), ~SpawnStep(t), ~SkipStep(t) PROVE UNCHANGED <<node, fired>>
  BY <1>5 DEF TaskStep, EndStep, DoEnd, FireSkipped, Fire, Sweep, Ready, Gate, Redrive, Then
<1>6. CASE PauseRun \/ ResumeRun \/ ReconcileStall \/ UNCHANGED vars
  BY <1>2, <1>6 DEF PauseRun, ResumeRun, ReconcileStall, vars
<1> QED
  BY <1>1, <1>2, <1>3, <1>4, <1>5, <1>6 DEF Next

\* What the edges of a node ask for, they handed over; no edge skips.
LEMMA EdgesHandOver ==
  ASSUME NEW n \in Nodes
  PROVE  /\ \A m \in Nodes : Spawn(m) \in EdgeActions(n) => In(m) \cap fired # {}
         /\ Complete \in EdgeActions(n) => In(End) \cap fired # {}
         /\ Halt \in EdgeActions(n) => In(End) \cap fired \cap Halting # {}
         /\ \A m : Skip(m) \notin EdgeActions(n)
<1> DEFINE out == Out(n) \cap fired
           spawns == {Spawn(e[2]) : e \in {f \in out : f[2] # End /\ Absent(f[2]) /\ Resolved(f[2], n)}}
           ends == {x \in {Halt, Complete} :
                      \E e \in out : /\ e[2] = End
                                     /\ IF e \in Halting THEN x = Halt
                                        ELSE x = Complete /\ Resolved(End, n)}
<1>1. EdgeActions(n) \subseteq spawns \cup ends \cup {Park}
  BY DEF EdgeActions
<1>2. ASSUME NEW m \in Nodes, Spawn(m) \in spawns PROVE In(m) \cap fired # {}
  BY <1>2, ActionsDiffer DEF Out, In
<1>3. ASSUME NEW x \in ends
      PROVE  \/ x = Complete /\ In(End) \cap fired # {}
             \/ x = Halt /\ In(End) \cap fired \cap Halting # {}
  <2>1. PICK e \in out : e[2] = End /\ IF e \in Halting THEN x = Halt ELSE x = Complete /\ Resolved(End, n)
    BY <1>3
  <2>2. e \in In(End) \cap fired
    BY <2>1 DEF Out, In
  <2>3. CASE e \in Halting
    <3>1. x = Halt /\ e \in In(End) \cap fired \cap Halting
      BY <2>1, <2>2, <2>3
    <3> QED
      BY <3>1
  <2>4. CASE e \notin Halting
    <3>1. x = Complete /\ e \in In(End) \cap fired
      BY <2>1, <2>2, <2>4
    <3> QED
      BY <3>1
  <2> QED
    BY <2>3, <2>4
<1>4. \A m : Spawn(m) \notin ends /\ Skip(m) \notin spawns /\ Skip(m) \notin ends
  BY ActionsDiffer
<1>5. Complete \notin spawns /\ Halt \notin spawns
  BY ActionsDiffer
<1> HIDE DEF spawns, ends
<1>6. \A m : Spawn(m) # Park /\ Skip(m) # Park
  BY ActionsDiffer
<1>7. Complete # Park /\ Halt # Park /\ Complete # Halt
  BY ActionsDiffer
<1>8. ASSUME NEW m \in Nodes, Spawn(m) \in EdgeActions(n) PROVE In(m) \cap fired # {}
  BY <1>1, <1>2, <1>4, <1>6, <1>8
<1>9. ASSUME NEW x \in {Complete, Halt}, x \in EdgeActions(n) PROVE x \in ends
  BY <1>1, <1>5, <1>7, <1>9
<1>10. \A m : Skip(m) \notin EdgeActions(n)
  BY <1>1, <1>4, <1>6
<1> QED
  BY <1>3, <1>7, <1>8, <1>9, <1>10

\* Start and End never settle: this check never ends a run.
LEMMA NeverComplete == ~ShouldComplete
  BY AdvanceAssumption DEF ShouldComplete, Settled

\* A ready node that is not a root was handed something.
LEMMA ReadyHandOver ==
  ASSUME FiringOK, NEW n \in ReadyNodes
  PROVE  In(n) = {} \/ In(n) \cap fired # {}
<1> SUFFICES ASSUME In(n) # {} PROVE In(n) \cap fired # {}
  OBVIOUS
<1>1. PICK e \in In(n) : e \notin Conditional /\ Settled(e[1])
  BY DEF ReadyNodes
<1>2. e[1] \in Nodes /\ e \in Out(e[1]) \ Conditional
  BY <1>1 DEF In, Out, Settled
<1> QED
  BY <1>1, <1>2 DEF FiringOK

\* How a task moves: it does or drops some of what it has to do; or it has
\* nothing left to do and a sweep, the edges of a skipped node or its next phase
\* tell it what is next; or it begins.
Moves(t) ==
  \/ /\ task'[t].plan = task[t].plan
     /\ task'[t].todo \subseteq task[t].todo
  \/ /\ task'[t].plan = task[t].plan /\ task[t].todo = {}
     /\ task[t].plan # <<>> /\ Head(task[t].plan) = "sweep"
     /\ task'[t].todo = {Skip(n) : n \in Unreachable} /\ Unreachable # {}
  \/ /\ task'[t].plan = task[t].plan /\ task[t].todo = {}
     /\ \E n \in Nodes : task'[t].todo = EdgeActions(n)
  \/ /\ task[t].todo = {} /\ task[t].plan # <<>>
     /\ task'[t].plan = Tail(task[t].plan)
     /\ CASE Head(task[t].plan) = "fire" -> task'[t].todo = EdgeActions(t) /\ t \in Nodes
          [] Head(task[t].plan) = "ready" ->
               task'[t].todo = IF Accepts THEN {Spawn(n) : n \in ReadyNodes} ELSE {}
          [] Head(task[t].plan) = "redrive" ->
               task'[t].todo = UNION {EdgeActions(n) : n \in {m \in Nodes : Settled(m)}}
          [] OTHER -> task'[t].todo = {}
  \/ /\ task[t] = Idle /\ task'[t].todo = {}
     /\ \/ task'[t].plan \in {CompletionFirst, SweepFirst} /\ t \in Nodes
        \/ task'[t].plan = <<"redrive">> /\ t = Resume /\ Resumable # {}

LEMMA TaskMoves ==
  ASSUME TypeOK, NotBegun, [Next]_vars, NEW t \in Tasks
  PROVE  Moves(t)
<1>1. ASSUME task'[t] = task[t] PROVE Moves(t)
  BY <1>1 DEF Moves
<1>2. ASSUME TaskStep(t) PROVE Moves(t)
  <2>1. CASE SpawnStep(t)
    BY <2>1 DEF SpawnStep, TypeOK, Moves
  <2>2. CASE SkipStep(t)
    BY <2>2 DEF SkipStep, TypeOK, Moves
  <2>3. ASSUME NEW x, EndStep(t, x) PROVE Moves(t)
    BY <2>3 DEF EndStep, TypeOK, Moves
  <2>4. ASSUME NEW todo, Then(t, todo)
        PROVE  task'[t].todo = todo /\ task'[t].plan = Tail(task[t].plan)
    BY <2>4 DEF Then, TypeOK
  <2>5. CASE FireSkipped(t)
    BY <2>5 DEF FireSkipped, TypeOK, Moves
  <2>6. CASE t \in Nodes /\ Fire(t)
    BY <2>4, <2>6 DEF Fire, Enter, Moves
  <2>7. CASE Sweep(t)
    BY <2>4, <2>7 DEF Sweep, Enter, TypeOK, Moves
  <2>8. CASE Ready(t)
    <3>1. Enter(t, "ready") /\ Then(t, IF Accepts THEN {Spawn(n) : n \in ReadyNodes} ELSE {})
      BY <2>8, NeverComplete DEF Ready
    <3> QED
      BY <2>4, <3>1 DEF Enter, Moves
  <2>9. CASE Gate(t)
    BY <2>4, <2>9, NeverComplete DEF Gate, Enter, Moves
  <2>10. CASE Redrive(t)
    BY <2>4, <2>10 DEF Redrive, Enter, Moves
  <2> QED
    BY <1>2, <2>1, <2>2, <2>3, <2>5, <2>6, <2>7, <2>8, <2>9, <2>10 DEF TaskStep
<1>3. ASSUME NEW u \in Tasks, u # t, TaskStep(u) PROVE task'[t] = task[t]
  BY <1>3 DEF TaskStep, SpawnStep, SkipStep, EndStep, FireSkipped, Fire, Sweep, Ready, Gate, Redrive, Then,
    TypeOK
<1>4. ASSUME NEW n \in Nodes, CompleteNode(n) PROVE Moves(t)
  <2>1. PICK order \in {CompletionFirst, SweepFirst} : task' = [task EXCEPT ![n] = Begin(order)]
    BY <1>4 DEF CompleteNode
  <2>2. task[n] = Idle
    BY <1>4, CompletesOne DEF NotBegun
  <2> QED
    BY <1>1, <2>1, <2>2, PlanTypes DEF TypeOK, Moves
<1>5. CASE ResumeRun
  BY <1>1, <1>5, PlanTypes DEF ResumeRun, TypeOK, Moves
<1>6. CASE PauseRun \/ ReconcileStall \/ UNCHANGED vars
  BY <1>1, <1>6 DEF PauseRun, ReconcileStall, vars
<1> QED
  BY <1>1, <1>2, <1>3, <1>4, <1>5, <1>6 DEF Next

LEMMA TodoStep ==
  ASSUME TypeOK, FiringOK, TodoOK, NotBegun, Kept, [Next]_vars
  PROVE  TodoOK'
<1> SUFFICES ASSUME NEW t \in Tasks
             PROVE  /\ \A n \in Nodes : Spawn(n) \in task'[t].todo => In(n) = {} \/ In(n) \cap fired' # {}
                    /\ Complete \in task'[t].todo => In(End) \cap fired' # {}
                    /\ Halt \in task'[t].todo => In(End) \cap fired' \cap Halting # {}
  BY DEF TodoOK, In
<1> DEFINE Fed(todo) == /\ \A n \in Nodes : Spawn(n) \in todo => In(n) = {} \/ In(n) \cap fired # {}
                        /\ Complete \in todo => In(End) \cap fired # {}
                        /\ Halt \in todo => In(End) \cap fired \cap Halting # {}
<1>1. ASSUME NEW todo, todo \subseteq task[t].todo PROVE Fed(todo)
  BY <1>1 DEF TodoOK
<1>2. ASSUME NEW n \in Nodes PROVE Fed(EdgeActions(n))
  BY EdgesHandOver
<1>3. Fed({Skip(n) : n \in Unreachable})
  BY ActionsDiffer
<1>4. Fed({Spawn(n) : n \in ReadyNodes})
  BY ActionsDiffer, ReadyHandOver
<1>5. Fed(UNION {EdgeActions(n) : n \in {m \in Nodes : Settled(m)}})
  BY EdgesHandOver
<1>6. Fed({})
  OBVIOUS
<1> HIDE DEF Fed
<1>7. Fed(task'[t].todo)
  BY TaskMoves, <1>1, <1>2, <1>3, <1>4, <1>5, <1>6 DEF Moves
<1> QED
  BY <1>7 DEF Fed, Kept

LEMMA NotBegunStep ==
  ASSUME TypeOK, NotBegun, Kept, [Next]_vars
  PROVE  NotBegun'
<1> SUFFICES ASSUME NEW n \in Nodes, ~Settled(n)' PROVE task'[n] = Idle
  BY DEF NotBegun
<1>1. ~Settled(n) /\ task[n] = Idle /\ n \in Tasks
  BY DEF NotBegun, Kept, Tasks
<1>2. task[n].plan = <<>> /\ task[n].todo = {} /\ task[n].fires = {}
  BY <1>1 DEF Idle
<1>3. ASSUME NEW t \in Tasks, TaskStep(t) PROVE task'[n] = task[n]
  <2>1. CASE t = n
    BY <1>2, <1>3, <2>1 DEF TaskStep, SpawnStep, SkipStep, EndStep, FireSkipped, Fire, Sweep, Ready, Gate,
      Redrive, Enter
  <2>2. CASE t # n
    BY <1>1, <1>3, <2>2 DEF TaskStep, SpawnStep, SkipStep, EndStep, FireSkipped, Fire, Sweep, Ready, Gate,
      Redrive, Then, TypeOK
  <2> QED
    BY <2>1, <2>2
<1>4. ASSUME NEW m \in Nodes, CompleteNode(m) PROVE task'[n] = task[n]
  <2>1. m # n
    BY <1>4, CompletesOne DEF Settles
  <2> QED
    BY <1>1, <1>4, <2>1 DEF CompleteNode, TypeOK
<1>5. CASE ResumeRun
  <2>1. n # Resume /\ task' = [task EXCEPT ![Resume] = Begin(<<"redrive">>)]
    BY <1>5, AdvanceAssumption DEF ResumeRun
  <2> QED
    BY <1>1, <2>1 DEF TypeOK
<1>6. CASE PauseRun \/ ReconcileStall \/ UNCHANGED vars
  BY <1>1, <1>6 DEF PauseRun, ReconcileStall, vars
<1> QED
  BY <1>1, <1>3, <1>4, <1>5, <1>6 DEF Next

LEMMA HandOverInvariant == Spec => []HandOver
<1>1. Init => HandOver
  <2> SUFFICES ASSUME Init PROVE HandOver
    OBVIOUS
  <2>1. \A n \in Nodes : ~Settled(n)
    BY DEF Init, Settled
  <2>2. \A t \in Tasks : task[t].todo = {} /\ (t # Launch => task[t] = Idle)
    BY PlanTypes DEF Init, Idle
  <2> QED
    BY <2>1, <2>2, InitType, AdvanceAssumption DEF Init, HandOver, FiringOK, TodoOK, NotBegun, Tasks
<1>2. HandOver /\ [Next]_vars => HandOver'
  BY StepType, FiringStep, TodoStep, NotBegunStep DEF HandOver
<1> QED
  BY <1>1, <1>2, PTL DEF Spec

\* No work starts out of nothing: a node that starts is a root, or an edge
\* into it fired; whatever was paused, resumed or skipped meanwhile.
StartsOnWork ==
  \A n \in Nodes : node[n] = "absent" /\ node'[n] = "running" => In(n) = {} \/ In(n) \cap fired # {}

\* A run ends at its End alone: it completes when an edge into End fired, and
\* halts when one that carries a reason did.
EndsOnWork ==
  /\ run # "completed" /\ run' = "completed" => In(End) \cap fired # {}
  /\ run # "halted" /\ run' = "halted" => In(End) \cap fired \cap Halting # {}

\* Nothing starts unfed, in any pipeline: a part of StartsAreFed, which also
\* asks for the other incoming edges.
THEOREM NothingStartsUnfed == Spec => [][StartsOnWork]_vars
<1>1. ASSUME HandOver, [Next]_vars, NEW n \in Nodes, node[n] = "absent", node'[n] = "running"
      PROVE  In(n) = {} \/ In(n) \cap fired # {}
  <2>1. PICK t \in Tasks : SpawnStep(t)
    <3>1. ~UNCHANGED node
      BY <1>1
    <3>2. ASSUME NEW t \in Tasks, SkipStep(t) PROVE FALSE
      BY <1>1, <3>2 DEF SkipStep, DoSkip, HandOver, TypeOK, Absent, Settled
    <3>3. ASSUME NEW m \in Nodes, CompleteNode(m) PROVE FALSE
      BY <1>1, <3>3 DEF CompleteNode, HandOver, TypeOK
    <3> QED
      BY <1>1, <3>1, <3>2, <3>3 DEF Next, TaskStep, EndStep, DoEnd, FireSkipped, Fire, Sweep, Ready, Gate,
        Redrive, Then, PauseRun, ResumeRun, ReconcileStall, vars
  <2>2. PICK m \in Nodes : Spawn(m) \in task[t].todo /\ DoSpawn(m)
    BY <2>1 DEF SpawnStep
  <2>3. m = n
    BY <1>1, <2>2 DEF DoSpawn, HandOver, TypeOK
  <2> QED
    BY <1>1, <2>1, <2>2, <2>3 DEF HandOver, TodoOK
<1>2. HandOver /\ [Next]_vars => [StartsOnWork]_vars
  BY <1>1 DEF StartsOnWork
<1> QED
  BY <1>2, HandOverInvariant, PTL DEF Spec

\* Nor does a run end before an edge told it to: no completion check of a tail
\* does it alone.
THEOREM NothingEndsUnfed == Spec => [][EndsOnWork]_vars
<1>1. ASSUME HandOver, [Next]_vars, run' # run, run' \in {"completed", "halted"}
      PROVE  /\ run' = "completed" => In(End) \cap fired # {}
             /\ run' = "halted" => In(End) \cap fired \cap Halting # {}
  <2>1. PICK t \in Tasks, x \in {Complete, Halt, Park} : EndStep(t, x)
    BY <1>1 DEF Next, TaskStep, SpawnStep, DoSpawn, SkipStep, DoSkip, FireSkipped, Fire, Sweep, Ready, Gate,
        Redrive, Then, CompleteNode, PauseRun, ResumeRun, ReconcileStall, vars
  <2>2. x \in task[t].todo /\ DoEnd(x)
    BY <2>1 DEF EndStep
  <2>3. run' = "completed" => x = Complete
    BY <1>1, <2>1, <2>2 DEF DoEnd
  <2>4. run' = "halted" => x = Halt
    BY <1>1, <2>1, <2>2, ActionsDiffer DEF DoEnd
  <2> QED
    BY <1>1, <2>2, <2>3, <2>4 DEF HandOver, TodoOK
<1>2. HandOver /\ [Next]_vars => [EndsOnWork]_vars
  BY <1>1 DEF EndsOnWork
<1> QED
  BY <1>2, HandOverInvariant, PTL DEF Spec

(***************************************************************************)
(* Death                                                                   *)
(***************************************************************************)
\* D holds exactly the absent nodes all of whose incoming edges are dead.
DeadSet(D) ==
  \A n \in Nodes \cup {End} :
    n \in D <=> Absent(n) /\ In(n) # {} /\ \A e \in In(n) : EdgeDead(e, D)

\* There is such a set, the least one closed under death, whatever the graph.
LEMMA DeadExists == \E D \in SUBSET (Nodes \cup {End}) : DeadSet(D)
<1> DEFINE N == Nodes \cup {End}
           Dying(n, D) == Absent(n) /\ In(n) # {} /\ \A e \in In(n) : EdgeDead(e, D)
           Closed == {D \in SUBSET N : \A n \in N : Dying(n, D) => n \in D}
           L == {n \in N : \A D \in Closed : n \in D}
<1>1. ASSUME NEW n, NEW C, NEW D, C \subseteq D, Dying(n, C) PROVE Dying(n, D)
  BY <1>1 DEF EdgeDead
<1> HIDE DEF Dying
<1>2. ASSUME NEW n \in N, Dying(n, L) PROVE n \in L
  <2>1. ASSUME NEW D \in Closed PROVE n \in D
    <3>1. L \subseteq D
      BY <2>1
    <3>2. Dying(n, D)
      BY <1>1, <1>2, <3>1
    <3> QED
      BY <2>1, <3>2
  <2> QED
    BY <2>1
<1>3. ASSUME NEW n \in L PROVE Dying(n, L)
  <2> DEFINE M == {m \in N : Dying(m, L)}
  <2>1. M \subseteq L
    BY <1>2
  <2>2. M \in Closed
    <3>1. ASSUME NEW m \in N, Dying(m, M) PROVE m \in M
      <4>1. Dying(m, L)
        BY <1>1, <2>1, <3>1
      <4> QED
        BY <4>1
    <3> QED
      BY <3>1
  <2> QED
    BY <2>2
<1>4. L \in SUBSET N /\ \A n \in N : n \in L <=> Dying(n, L)
  BY <1>2, <1>3
<1> HIDE DEF L
<1>5. DeadSet(L)
  BY <1>4 DEF DeadSet, Dying
<1> QED
  BY <1>4, <1>5

\* So Dead is what its definition asks for ...
LEMMA DeadMeans == Dead \in SUBSET (Nodes \cup {End}) /\ DeadSet(Dead)
  BY DeadExists DEF Dead, DeadSet

\* ... and acyclicity makes it the only such set.
LEMMA DeadOnly ==
  ASSUME NEW D \in SUBSET (Nodes \cup {End}), DeadSet(D)
  PROVE  D = Dead
<1> DEFINE S == (D \ Dead) \cup (Dead \ D)
<1> SUFFICES ASSUME S # {} PROVE FALSE
  OBVIOUS
<1>1. PICK n \in S : \A e \in Edges : e[2] = n => e[1] \notin S
  <2>1. S \in SUBSET (Nodes \cup {End})
    BY DeadMeans
  <2> HIDE DEF S
  <2> QED
    BY <2>1, AdvanceAssumption
<1>2. \A e \in In(n) : e[1] \in Nodes /\ e[1] \notin S
  BY <1>1, EdgeEnds DEF In
<1>3. \A e \in In(n) : e[1] \in D <=> e[1] \in Dead
  BY <1>2
<1>4. \A e \in In(n) : EdgeDead(e, D) <=> EdgeDead(e, Dead)
  BY <1>3 DEF EdgeDead
<1> QED
  BY <1>4, DeadMeans DEF DeadSet

\* Which nodes are dead is well defined: in an acyclic pipeline one set alone
\* is what is_node_dead computes, whatever order its nodes are asked in.
THEOREM DeathIsWellDefined ==
  \A D \in SUBSET (Nodes \cup {End}) : DeadSet(D) <=> D = Dead
  BY DeadMeans, DeadOnly

\* Nobody is dead before a node settled: death starts at an edge that did not
\* fire.
LEMMA DeathNeedsASettledNode ==
  ASSUME \A n \in Nodes : ~Settled(n)
  PROVE  Dead = {} /\ Unreachable = {}
<1>1. DeadSet({})
  <2> SUFFICES ASSUME NEW n \in Nodes \cup {End}, In(n) # {}, \A e \in In(n) : EdgeDead(e, {})
               PROVE  FALSE
    BY DEF DeadSet
  <2>1. PICK e \in In(n) : EdgeDead(e, {})
    OBVIOUS
  <2>2. ~Settled(e[1])
    BY DEF Settled
  <2> QED
    BY <2>1, <2>2 DEF EdgeDead
<1>2. Dead = {}
  BY <1>1, DeadOnly
<1>3. \A e \in Edges : ~EdgeDead(e, Dead)
  BY <1>2 DEF EdgeDead, Settled
<1> QED
  BY <1>2, <1>3 DEF Unreachable, In

(***************************************************************************)
(* Nobody forgets a ready node                                             *)
(***************************************************************************)
\* A sweep is followed by a look at the ready nodes; a task that is to skip
\* nodes is in its sweep; nobody re-evaluates a run nobody resumes.
PlanOK ==
  \A t \in Tasks :
    /\ \A i \in DOMAIN task[t].plan :
         /\ task[t].plan[i] = "sweep" => \E j \in DOMAIN task[t].plan : i < j /\ task[t].plan[j] = "ready"
         /\ task[t].plan[i] = "redrive" => Resumable # {}
    /\ \A n \in Nodes : Skip(n) \in task[t].todo =>
         task[t].plan # <<>> /\ Head(task[t].plan) = "sweep" /\ \E m \in Nodes : ~Absent(m)

\* The root comes first.
RootFirst == (\E m \in Nodes : ~Absent(m)) => \A r \in Nodes : In(r) = {} => ~Absent(r)

\* Task t is on its way to node n.
Drives(t, n) ==
  \/ Spawn(n) \in task[t].todo
  \/ \E i \in DOMAIN task[t].plan : task[t].plan[i] \in {"ready", "redrive"}

ReadyIsDriven ==
  run = "running" =>
    \A n \in ReadyNodes : In(n) # {} \/ Resumable = {} => \E t \in Tasks : Drives(t, n)

DriveInv == HandOver /\ PlanOK /\ (Resumable = {} \/ RootFirst) /\ ReadyIsDriven

LEMMA StartPlans ==
  /\ \A plan \in {CompletionFirst, SweepFirst, Tick} :
       /\ \E i \in DOMAIN plan : plan[i] = "ready"
       /\ \A i \in DOMAIN plan :
            /\ plan[i] = "sweep" => \E j \in DOMAIN plan : i < j /\ plan[j] = "ready"
            /\ plan[i] # "redrive"
  /\ \A plan \in {<<"redrive">>} : 1 \in DOMAIN plan /\ DOMAIN plan = {1} /\ plan[1] = "redrive"
<1>1. \A plan \in {CompletionFirst} :
        /\ DOMAIN plan = 1..4 /\ plan[1] = "fire" /\ plan[2] = "sweep" /\ plan[3] = "ready" /\ plan[4] = "gate"
  BY DEF CompletionFirst
<1>2. \A plan \in {SweepFirst} :
        /\ DOMAIN plan = 1..4 /\ plan[1] = "sweep" /\ plan[2] = "ready" /\ plan[3] = "fire" /\ plan[4] = "gate"
  BY DEF SweepFirst
<1>3. \A plan \in {Tick} : DOMAIN plan = 1..2 /\ plan[1] = "sweep" /\ plan[2] = "ready"
  BY DEF Tick
<1>4. \A plan \in {<<"redrive">>} : 1 \in DOMAIN plan /\ DOMAIN plan = {1} /\ plan[1] = "redrive"
  OBVIOUS
<1> QED
  BY <1>1, <1>2, <1>3, <1>4

LEMMA Tails ==
  ASSUME NEW plan \in Seq(Phases), plan # <<>>
  PROVE  /\ \A i \in DOMAIN Tail(plan) : i + 1 \in DOMAIN plan /\ Tail(plan)[i] = plan[i + 1]
         /\ \A j \in DOMAIN plan : j > 1 => j - 1 \in DOMAIN Tail(plan) /\ Tail(plan)[j - 1] = plan[j]
         /\ 1 \in DOMAIN plan /\ Head(plan) = plan[1]
  OBVIOUS

LEMMA PlanStep ==
  ASSUME HandOver, PlanOK, Kept, [Next]_vars
  PROVE  PlanOK'
<1> SUFFICES ASSUME NEW t \in Tasks
             PROVE  /\ \A i \in DOMAIN task'[t].plan :
                         /\ task'[t].plan[i] = "sweep" =>
                              \E j \in DOMAIN task'[t].plan : i < j /\ task'[t].plan[j] = "ready"
                         /\ task'[t].plan[i] = "redrive" => Resumable # {}
                    /\ \A n \in Nodes : Skip(n) \in task'[t].todo =>
                         /\ task'[t].plan # <<>> /\ Head(task'[t].plan) = "sweep"
                         /\ \E m \in Nodes : ~Absent(m)'
  BY DEF PlanOK
<1>1. task[t].plan \in Seq(Phases)
  BY DEF HandOver, TypeOK
<1>2. CASE task'[t].plan = task[t].plan /\ task'[t].todo \subseteq task[t].todo
  BY <1>2 DEF PlanOK, Kept
<1>3. CASE /\ task'[t].plan = task[t].plan
           /\ task[t].plan # <<>> /\ Head(task[t].plan) = "sweep"
           /\ Unreachable # {}
  <2>1. PICK m \in Nodes : Settled(m)
    BY <1>3, DeathNeedsASettledNode
  <2>2. ~Absent(m)'
    BY <2>1 DEF Settled, Absent, Kept
  <2> QED
    BY <1>3, <2>2 DEF PlanOK
<1>4. CASE /\ task'[t].plan = task[t].plan
           /\ \E n \in Nodes : task'[t].todo = EdgeActions(n)
  BY <1>4, EdgesHandOver DEF PlanOK
<1>5. CASE /\ task[t].plan # <<>> /\ task'[t].plan = Tail(task[t].plan)
           /\ \A n : Skip(n) \notin task'[t].todo
  <2>1. ASSUME NEW i \in DOMAIN task'[t].plan
        PROVE  /\ task'[t].plan[i] = "sweep" =>
                    \E j \in DOMAIN task'[t].plan : i < j /\ task'[t].plan[j] = "ready"
               /\ task'[t].plan[i] = "redrive" => Resumable # {}
    <3>1. i \in Nat /\ i + 1 \in DOMAIN task[t].plan /\ task'[t].plan[i] = task[t].plan[i + 1]
      BY <1>1, <1>5, <2>1, Tails
    <3>2. ASSUME task'[t].plan[i] = "sweep"
          PROVE  \E j \in DOMAIN task'[t].plan : i < j /\ task'[t].plan[j] = "ready"
      <4>1. PICK j \in DOMAIN task[t].plan : i + 1 < j /\ task[t].plan[j] = "ready"
        BY <3>1, <3>2 DEF PlanOK
      <4>2. j \in Nat /\ j > 1
        BY <1>1, <3>1, <4>1
      <4>3. j - 1 \in DOMAIN task'[t].plan /\ task'[t].plan[j - 1] = "ready" /\ i < j - 1
        BY <1>1, <1>5, <3>1, <4>1, <4>2, Tails
      <4> QED
        BY <4>3
    <3> QED
      BY <3>1, <3>2 DEF PlanOK
  <2> QED
    BY <1>5, <2>1
<1>6. CASE /\ task'[t].todo = {}
           /\ \/ task'[t].plan \in {CompletionFirst, SweepFirst}
              \/ task'[t].plan = <<"redrive">> /\ Resumable # {}
  <2>1. CASE task'[t].plan \in {CompletionFirst, SweepFirst}
    BY <1>6, <2>1, StartPlans
  <2>2. CASE task'[t].plan = <<"redrive">> /\ Resumable # {}
    BY <1>6, <2>2, StartPlans
  <2> QED
    BY <1>6, <2>1, <2>2
<1>7. Moves(t)
  BY TaskMoves DEF HandOver
<1>8. \A n : /\ Skip(n) \notin {Spawn(m) : m \in ReadyNodes}
             /\ Skip(n) \notin UNION {EdgeActions(m) : m \in {k \in Nodes : Settled(k)}}
             /\ \A m \in Nodes : Skip(n) \notin EdgeActions(m)
  <2>1. \A m, n : Spawn(m) # Skip(n)
    BY ActionsDiffer
  <2> QED
    BY <2>1, EdgesHandOver
<1> QED
  BY <1>2, <1>3, <1>4, <1>5, <1>6, <1>7, <1>8 DEF Moves

LEMMA RootStep ==
  ASSUME HandOver, PlanOK, OneRoot, RootFirst, Kept, [Next]_vars
  PROVE  RootFirst'
<1> SUFFICES ASSUME NEW m \in Nodes, ~Absent(m)', NEW r \in Nodes, In(r) = {}
             PROVE  ~Absent(r)'
  BY DEF RootFirst, In
<1>1. CASE \E k \in Nodes : ~Absent(k)
  BY <1>1 DEF RootFirst, Kept
<1>2. CASE \A k \in Nodes : Absent(k)
  <2>1. \A k \in Nodes : ~Settled(k)
    BY <1>2 DEF Settled, Absent
  <2>2. ASSUME NEW t \in Tasks, SkipStep(t) PROVE FALSE
    BY <1>2, <2>2 DEF SkipStep, PlanOK
  <2>3. ASSUME NEW k \in Nodes, CompleteNode(k) PROVE FALSE
    BY <1>2, <2>3, CompletesOne DEF HandOver
  <2>4. ~UNCHANGED node
    BY <1>2 DEF Absent
  <2>5. PICK t \in Tasks : SpawnStep(t)
    BY <2>2, <2>3, <2>4 DEF Next, TaskStep, EndStep, DoEnd, FireSkipped, Fire, Sweep, Ready, Gate, Redrive,
      Then, PauseRun, ResumeRun, ReconcileStall, vars
  <2>6. PICK k \in Nodes : Spawn(k) \in task[t].todo /\ DoSpawn(k)
    BY <2>5 DEF SpawnStep
  <2>7. k = m
    BY <1>2, <2>6, SpawnsOne DEF HandOver, DoSpawn, TypeOK, Absent
  <2>8. In(k) = {}
    BY <2>1, <2>6 DEF HandOver, TodoOK, FiringOK, Settled
  <2> QED
    BY <2>7, <2>8 DEF OneRoot
<1> QED
  BY <1>1, <1>2

LEMMA RedriveSpawns ==
  ASSUME FiringOK, Uniform, NEW n \in ReadyNodes, In(n) # {}
  PROVE  Spawn(n) \in UNION {EdgeActions(m) : m \in {k \in Nodes : Settled(k)}}
<1>1. PICK e \in In(n) : e \notin Conditional /\ Settled(e[1])
  BY DEF ReadyNodes
<1>2. e[1] \in Nodes /\ e \in Out(e[1]) \cap fired /\ e[2] = n
  BY <1>1 DEF In, Out, Settled, FiringOK
<1>3. n \in Nodes /\ Absent(n) /\ n # End
  BY AdvanceAssumption DEF ReadyNodes
<1>4. In(n) \cap Conditional = {}
  BY <1>1, <1>3 DEF Uniform
<1>5. Resolved(n, e[1])
  BY <1>4 DEF Resolved, ReadyNodes
<1>6. Spawn(n) \in {Spawn(d[2]) : d \in {f \in Out(e[1]) \cap fired :
                                       f[2] # End /\ Absent(f[2]) /\ Resolved(f[2], e[1])}}
  BY <1>2, <1>3, <1>5
<1>7. Spawn(n) \in EdgeActions(e[1])
  BY <1>6 DEF EdgeActions
<1> QED
  BY <1>1, <1>2, <1>7

\* While the run goes on, what drove a node that is still to start drives it on.
LEMMA DrivesOn ==
  ASSUME HandOver, PlanOK, Redriven, [Next]_vars, run = "running", run' = "running",
         NEW n \in ReadyNodes, Absent(n)', In(n) # {} \/ Resumable = {},
         NEW t \in Tasks, Drives(t, n)
  PROVE  Drives(t, n)'
<1>1. task[t].plan \in Seq(Phases) /\ task'[t].plan \in Seq(Phases)
  BY StepType DEF HandOver, TypeOK
<1>2. Moves(t)
  BY TaskMoves DEF HandOver
<1>3. ASSUME Spawn(n) \in task[t].todo PROVE Spawn(n) \in task'[t].todo
  <2>1. ASSUME SpawnStep(t) PROVE Spawn(n) \in task'[t].todo
    <3>1. PICK m \in Nodes : DoSpawn(m) /\ task' = [task EXCEPT ![t].todo = @ \ {Spawn(m)}]
      BY <2>1 DEF SpawnStep
    <3>2. m # n
      BY <3>1, SpawnsOne DEF HandOver, Accepts
    <3>3. Spawn(m) # Spawn(n)
      BY <3>2, ActionsDiffer
    <3> QED
      BY <1>3, <3>1, <3>3 DEF HandOver, TypeOK
  <2>2. ASSUME SkipStep(t) PROVE Spawn(n) \in task'[t].todo
    BY <1>3, <2>2, ActionsDiffer DEF SkipStep, HandOver, TypeOK
  <2>3. ASSUME NEW x, EndStep(t, x) PROVE FALSE
    BY <2>3 DEF EndStep, DoEnd, Accepts
  <2>4. ASSUME TaskStep(t), ~SpawnStep(t), ~SkipStep(t) PROVE FALSE
    BY <1>3, <2>3, <2>4 DEF TaskStep, FireSkipped, Fire, Sweep, Ready, Gate, Redrive, Enter
  <2>5. ASSUME NEW u \in Tasks, u # t, TaskStep(u) PROVE task'[t] = task[t]
    BY <2>5 DEF TaskStep, SpawnStep, SkipStep, EndStep, FireSkipped, Fire, Sweep, Ready, Gate, Redrive, Then,
      HandOver, TypeOK
  <2>6. ASSUME NEW m \in Nodes, CompleteNode(m) PROVE task'[t] = task[t]
    <3>1. task[m] = Idle
      BY <2>6, CompletesOne DEF HandOver, NotBegun
    <3>2. m # t
      BY <1>3, <3>1 DEF Idle
    <3> QED
      BY <2>6, <3>2 DEF CompleteNode, HandOver, TypeOK
  <2>7. ASSUME ResumeRun PROVE task'[t] = task[t]
    <3>1. t # Resume
      BY <1>3, <2>7 DEF ResumeRun, Idle
    <3> QED
      BY <2>7, <3>1 DEF ResumeRun, HandOver, TypeOK
  <2>8. CASE PauseRun \/ ReconcileStall \/ UNCHANGED vars
    BY <1>3, <2>8 DEF PauseRun, ReconcileStall, vars
  <2> QED
    BY <1>3, <2>1, <2>2, <2>4, <2>5, <2>6, <2>7, <2>8 DEF Next
<1>4. ASSUME NEW i \in DOMAIN task[t].plan, task[t].plan[i] \in {"ready", "redrive"}
      PROVE  Drives(t, n)'
  <2>1. CASE task'[t].plan = task[t].plan
    BY <1>4, <2>1 DEF Drives
  <2>2. ASSUME task'[t].plan = Tail(task[t].plan), task[t].plan # <<>>, i # 1 PROVE Drives(t, n)'
    <3>1. i > 1 /\ i - 1 \in DOMAIN task'[t].plan /\ task'[t].plan[i - 1] = task[t].plan[i]
      BY <1>1, <1>4, <2>2, Tails
    <3> QED
      BY <1>4, <3>1 DEF Drives
  <2>3. ASSUME task[t].todo = {}, task[t].plan # <<>>, Head(task[t].plan) = "ready",
               task'[t].todo = IF Accepts THEN {Spawn(m) : m \in ReadyNodes} ELSE {}
        PROVE  Drives(t, n)'
    BY <2>3 DEF Drives, Accepts
  <2>4. ASSUME Head(task[t].plan) = "redrive", task[t].plan # <<>>, i = 1,
               task'[t].todo = UNION {EdgeActions(m) : m \in {k \in Nodes : Settled(k)}}
        PROVE  Drives(t, n)'
    <3>1. task[t].plan[1] = "redrive"
      BY <1>1, <2>4, Tails
    <3>2. Resumable # {}
      BY <1>4, <2>4, <3>1 DEF PlanOK
    <3>3. Uniform /\ In(n) # {}
      BY <3>2 DEF Redriven
    <3>4. Spawn(n) \in task'[t].todo
      BY <2>4, <3>3, RedriveSpawns DEF HandOver
    <3> QED
      BY <3>4 DEF Drives
  <2>5. CASE task[t] = Idle
    BY <1>4, <2>5 DEF Idle
  <2>6. task[t].plan # <<>> /\ Head(task[t].plan) = task[t].plan[1]
    BY <1>1, <1>4, Tails
  <2> QED
    BY <1>2, <1>4, <2>1, <2>2, <2>3, <2>4, <2>5, <2>6 DEF Moves
<1> QED
  BY <1>3, <1>4 DEF Drives

LEMMA ReadyStep ==
  ASSUME HandOver, PlanOK, Redriven, ReadyIsDriven, Kept, [Next]_vars
  PROVE  ReadyIsDriven'
<1> SUFFICES ASSUME run' = "running", NEW n \in Nodes, n \in ReadyNodes', In(n) # {} \/ Resumable = {}
             PROVE  \E t \in Tasks : Drives(t, n)'
  BY DEF ReadyIsDriven, ReadyNodes, In
<1>1. Absent(n)' /\ Absent(n)
  BY DEF ReadyNodes, Kept
<1>2. CASE ResumeRun
  <2>1. Resume \in Tasks /\ task'[Resume].plan = <<"redrive">>
    BY <1>2, PlanTypes DEF ResumeRun, HandOver, TypeOK, Tasks
  <2> QED
    BY <2>1, StartPlans DEF Drives
<1>3. ASSUME NEW m \in Nodes, CompleteNode(m) PROVE \E t \in Tasks : Drives(t, n)'
  <2>1. m \in Tasks /\ task'[m].plan \in {CompletionFirst, SweepFirst}
    BY <1>3, PlanTypes DEF CompleteNode, HandOver, TypeOK, Tasks
  <2> QED
    BY <2>1, StartPlans DEF Drives
<1>4. ASSUME NEW t \in Tasks, SkipStep(t) PROVE Drives(t, n)'
  <2>1. PICK m \in Nodes : Skip(m) \in task[t].todo
    BY <1>4 DEF SkipStep
  <2>2. task[t].plan # <<>> /\ Head(task[t].plan) = "sweep" /\ task[t].plan \in Seq(Phases)
    BY <2>1 DEF PlanOK, HandOver, TypeOK
  <2>3. 1 \in DOMAIN task[t].plan /\ task[t].plan[1] = "sweep"
    BY <2>2, Tails
  <2>4. PICK j \in DOMAIN task[t].plan : task[t].plan[j] = "ready"
    BY <2>3 DEF PlanOK
  <2>5. task'[t].plan = task[t].plan
    BY <1>4 DEF SkipStep, HandOver, TypeOK
  <2> QED
    BY <2>4, <2>5 DEF Drives
<1>5. CASE run = "running" /\ n \in ReadyNodes
  BY <1>1, <1>5, DrivesOn DEF ReadyIsDriven
<1>6. ASSUME ~ResumeRun, \A m \in Nodes : ~CompleteNode(m), \A t \in Tasks : ~SkipStep(t)
      PROVE  run = "running" /\ n \in ReadyNodes
  <2>1. \A m \in Nodes : Settled(m)' <=> Settled(m)
    <3>1. ASSUME NEW t \in Tasks, SpawnStep(t) PROVE \A m \in Nodes : Settled(m)' <=> Settled(m)
      BY <3>1, SpawnsOne DEF SpawnStep, HandOver
    <3>2. CASE UNCHANGED node
      BY <3>2 DEF Settled
    <3> QED
      BY <1>6, <3>1, <3>2 DEF Next, TaskStep, EndStep, DoEnd, FireSkipped, Fire, Sweep, Ready, Gate, Redrive,
        Then, PauseRun, ReconcileStall, vars
  <2>2. n \in ReadyNodes
    BY <1>1, <2>1 DEF ReadyNodes, In, Settled
  <2>3. run = "running"
    <3>1. ASSUME NEW t \in Tasks, NEW x \in {Complete, Halt, Park}, EndStep(t, x) PROVE run = "running"
      BY <3>1 DEF EndStep, DoEnd
    <3> QED
      BY <1>6, <3>1 DEF Next, TaskStep, SpawnStep, DoSpawn, FireSkipped, Fire, Sweep, Ready, Gate, Redrive,
        Then, PauseRun, ReconcileStall, vars
  <2> QED
    BY <2>2, <2>3
<1> QED
  BY <1>2, <1>3, <1>4, <1>5, <1>6

LEMMA DriveInit ==
  ASSUME Init
  PROVE  PlanOK /\ RootFirst /\ ReadyIsDriven
<1>1. /\ Launch \in Tasks /\ task[Launch].plan = Tick /\ task[Launch].todo = {}
      /\ \A t \in Tasks : t # Launch => task[t].plan = <<>> /\ task[t].todo = {}
  BY PlanTypes DEF Init, Tasks, Idle
<1>2. PlanOK
  BY <1>1, StartPlans DEF PlanOK
<1>3. RootFirst
  BY DEF Init, RootFirst, Absent
<1>4. ReadyIsDriven
  BY <1>1, StartPlans DEF ReadyIsDriven, Drives
<1> QED
  BY <1>2, <1>3, <1>4

\* Nobody forgets a node, in a pipeline of any shape if nobody resumes its run,
\* and whatever is paused, halted and resumed where it has one root and each
\* node waits for guarded edges only or for unguarded ones only.
THEOREM NoReadyNodeIsForgotten ==
  ASSUME Redriven
  PROVE  Spec => []NothingReadyIsLeft
<1>1. Init => PlanOK /\ (Resumable = {} \/ RootFirst) /\ ReadyIsDriven
  BY DriveInit
<1>2. /\ HandOver /\ HandOver'
      /\ PlanOK /\ (Resumable = {} \/ RootFirst) /\ ReadyIsDriven
      /\ [Next]_vars
      => (PlanOK /\ (Resumable = {} \/ RootFirst) /\ ReadyIsDriven)'
  <2> SUFFICES ASSUME HandOver, PlanOK, Resumable = {} \/ RootFirst, ReadyIsDriven, [Next]_vars
               PROVE  PlanOK' /\ (Resumable = {} \/ RootFirst') /\ ReadyIsDriven'
    OBVIOUS
  <2>1. Kept
    BY FiringStep DEF HandOver
  <2> QED
    BY <2>1, PlanStep, RootStep, ReadyStep DEF Redriven
<1>3. HandOver /\ PlanOK /\ (Resumable = {} \/ RootFirst) /\ ReadyIsDriven => NothingReadyIsLeft
  <2> SUFFICES ASSUME Resumable = {} \/ RootFirst, ReadyIsDriven, run = "running", Quiet,
                      \E m \in Nodes : ~Absent(m), NEW n \in ReadyNodes
               PROVE  FALSE
    BY DEF NothingReadyIsLeft
  <2>1. In(n) # {} \/ Resumable = {}
    BY DEF RootFirst, ReadyNodes
  <2>2. PICK t \in Tasks : Drives(t, n)
    BY <2>1 DEF ReadyIsDriven
  <2> QED
    BY <2>2 DEF Quiet, Drives, Idle
<1> QED
  BY <1>1, <1>2, <1>3, HandOverInvariant, PTL DEF Spec

(***************************************************************************)
(* Optional branches of one node                                           *)
(*                                                                         *)
(* A dead node whose producer is dead, too, comes to life again when the   *)
(* sweep skips that producer and its edges fire.  What is promised of      *)
(* convergences holds where that cannot happen.                            *)
(***************************************************************************)
\* Dead by guards that were decided: for good.
GoneForGood(d) ==
  Absent(d) /\ In(d) # {} /\ \A e \in In(d) : Settled(e[1]) /\ e \notin fired

\* Nothing more is to come from a node.
Done(d) == Settled(d) \/ GoneForGood(d)

LEMMA SureNeverDie ==
  ASSUME FiringOK
  PROVE  Sure \cap Dead = {}
<1> DEFINE X == Sure \cap Dead
<1> SUFFICES ASSUME X # {} PROVE FALSE
  OBVIOUS
<1>1. PICK n \in X : \A e \in Edges : e[2] = n => e[1] \notin X
  <2>1. X \in SUBSET (Nodes \cup {End})
    BY DEF Sure
  <2> HIDE DEF X
  <2> QED
    BY <2>1, AdvanceAssumption
<1>2. n \in Nodes /\ In(n) # {} /\ \A e \in In(n) : EdgeDead(e, Dead)
  BY DeadMeans DEF DeadSet, Sure
<1>3. PICK S \in SUBSET Nodes :
        n \in S /\ \A m \in S : In(m) = {} \/ \E e \in In(m) \ Conditional : e[1] \in S
  BY DEF Sure
<1>4. PICK e \in In(n) \ Conditional : e[1] \in S
  BY <1>2, <1>3
<1>5. e[1] \in Sure
  BY <1>3, <1>4 DEF Sure
<1>6. ~Settled(e[1])
  BY <1>2, <1>4 DEF EdgeDead, FiringOK, In, Out, Settled
<1>7. e[1] \in Dead
  BY <1>2, <1>4, <1>6 DEF EdgeDead
<1> QED
  BY <1>1, <1>4, <1>5, <1>7 DEF In

LEMMA SteadyDeath ==
  ASSUME FiringOK, NEW d, Steady(d), d \in Dead
  PROVE  GoneForGood(d)
<1>1. d \notin Sure
  BY SureNeverDie
<1>2. Absent(d) /\ In(d) # {} /\ \A e \in In(d) : EdgeDead(e, Dead)
  BY DeadMeans DEF DeadSet
<1>3. ASSUME NEW e \in In(d) PROVE Settled(e[1]) /\ e \notin fired
  <2>1. e[1] \notin Dead
    BY <1>1, SureNeverDie DEF Steady
  <2> QED
    BY <1>2, <2>1 DEF EdgeDead
<1> QED
  BY <1>2, <1>3 DEF GoneForGood

LEMMA GoneIsDead ==
  ASSUME NEW d \in Nodes, GoneForGood(d)
  PROVE  d \in Dead
  BY DeadMeans DEF DeadSet, GoneForGood, EdgeDead

\* Who is gone can only be skipped.
LEMMA GoneStays ==
  ASSUME HandOver, [Next]_vars, NEW d \in Nodes, GoneForGood(d)
  PROVE  GoneForGood(d)' \/ (node'[d] = "skipped" /\ Settled(d)')
<1>1. ASSUME NEW n \in Nodes, Settles(n), ~Settled(n), NEW e \in In(d) PROVE e \notin fired'
  <2>1. PICK f \in Firings(n) : fired' = fired \cup f
    BY <1>1 DEF Settles
  <2>2. f \subseteq Out(n)
    BY FiringTypes
  <2>3. Settled(e[1]) /\ e \notin fired
    BY DEF GoneForGood
  <2> QED
    BY <1>1, <2>1, <2>2, <2>3 DEF Out
<1>2. ASSUME NEW n \in Nodes, Settles(n), ~Settled(n), n # d PROVE GoneForGood(d)'
  BY <1>1, <1>2 DEF GoneForGood, Settles, In, Settled
<1>3. CASE UNCHANGED <<node, fired>>
  BY <1>3 DEF GoneForGood, Settled, Absent, In
<1>4. ASSUME NEW t \in Tasks, SpawnStep(t) PROVE GoneForGood(d)'
  <2>1. PICK n \in Nodes : Spawn(n) \in task[t].todo /\ DoSpawn(n)
    BY <1>4 DEF SpawnStep
  <2>2. n # d
    BY <2>1 DEF HandOver, TodoOK, GoneForGood
  <2> QED
    BY <2>1, <2>2, SpawnsOne DEF GoneForGood, HandOver, In, Settled
<1>5. ASSUME NEW t \in Tasks, SkipStep(t) PROVE GoneForGood(d)' \/ (node'[d] = "skipped" /\ Settled(d)')
  <2>1. PICK n \in Nodes : DoSkip(n)
    BY <1>5 DEF SkipStep
  <2>2. CASE ~(Accepts /\ ~Settled(n))
    BY <1>3, <2>1, <2>2, SkipsOne DEF HandOver
  <2>3. CASE Accepts /\ ~Settled(n) /\ n # d
    BY <1>2, <2>1, <2>3, SkipsOne DEF HandOver
  <2>4. CASE Accepts /\ ~Settled(n) /\ n = d
    BY <2>1, <2>4 DEF DoSkip, GoneForGood, HandOver, TypeOK, Settled
  <2> QED
    BY <2>2, <2>3, <2>4
<1>6. ASSUME NEW n \in Nodes, CompleteNode(n) PROVE GoneForGood(d)'
  <2>1. n # d
    BY <1>6, CompletesOne DEF GoneForGood, HandOver
  <2> QED
    BY <1>2, <1>6, <2>1, CompletesOne DEF HandOver
<1>7. ASSUME NEW t \in Tasks, TaskStep(t), ~SpawnStep(t), ~SkipStep(t) PROVE UNCHANGED <<node, fired>>
  BY <1>7 DEF TaskStep, EndStep, DoEnd, FireSkipped, Fire, Sweep, Ready, Gate, Redrive, Then
<1>8. CASE PauseRun \/ ResumeRun \/ ReconcileStall \/ UNCHANGED vars
  BY <1>3, <1>8 DEF PauseRun, ResumeRun, ReconcileStall, vars
<1> QED
  BY <1>3, <1>4, <1>5, <1>6, <1>7, <1>8 DEF Next

LEMMA DoneStays ==
  ASSUME HandOver, [Next]_vars, NEW d \in Nodes, Done(d)
  PROVE  Done(d)'
  BY FiringStep, GoneStays DEF Done, Kept, HandOver

\* What a task is to start has nothing more to wait for; what it is to skip has
\* nothing more to get, but from nodes that were skipped; and when it is to
\* complete the run, nothing more comes to End.
Lost(e) == GoneForGood(e[1]) \/ (Settled(e[1]) /\ (e \notin fired \/ node[e[1]] = "skipped"))

StartOK ==
  \A t \in Tasks : \A n \in Nodes : Spawn(n) \in task[t].todo => \A e \in In(n) : Done(e[1])
SkipOK ==
  \A t \in Tasks : \A n \in Nodes : Skip(n) \in task[t].todo => \A e \in In(n) : Lost(e)
EndOK ==
  \A t \in Tasks : Complete \in task[t].todo => \A e \in In(End) : Done(e[1])

\* Nobody is there whom something could still reach.
FedOK == \A n \in Nodes : ~Absent(n) => \A e \in In(n) : Done(e[1])

LEMMA LostIsDone ==
  ASSUME NEW e, Lost(e)
  PROVE  Done(e[1])
  BY DEF Lost, Done

\* A settled node keeps its status, and no more of its edges fire.
LEMMA SettledIsFixed ==
  ASSUME HandOver, [Next]_vars, NEW e \in Edges, Settled(e[1])
  PROVE  node'[e[1]] = node[e[1]] /\ Settled(e[1])' /\ (e \notin fired => e \notin fired')
<1>1. ASSUME NEW n \in Nodes, Settles(n), ~Settled(n), e \notin fired PROVE e \notin fired'
  <2>1. PICK f \in Firings(n) : fired' = fired \cup f
    BY <1>1 DEF Settles
  <2> QED
    BY <1>1, <2>1, FiringTypes DEF Out
<1>2. ASSUME NEW t \in Tasks, SpawnStep(t) PROVE node'[e[1]] = node[e[1]] /\ fired' = fired
  BY <1>2 DEF SpawnStep, DoSpawn, HandOver, TypeOK, Settled, Absent
<1>3. ASSUME NEW t \in Tasks, SkipStep(t)
      PROVE  node'[e[1]] = node[e[1]] /\ (e \notin fired => e \notin fired')
  <2>1. PICK n \in Nodes : DoSkip(n)
    BY <1>3 DEF SkipStep
  <2>2. node'[e[1]] = node[e[1]]
    BY <2>1 DEF DoSkip, HandOver, TypeOK, Settled
  <2>3. e \notin fired => e \notin fired'
    BY <1>1, <2>1, SkipsOne DEF HandOver
  <2> QED
    BY <2>2, <2>3
<1>4. ASSUME NEW n \in Nodes, CompleteNode(n)
      PROVE  node'[e[1]] = node[e[1]] /\ (e \notin fired => e \notin fired')
  <2>1. node'[e[1]] = node[e[1]]
    BY <1>4 DEF CompleteNode, HandOver, TypeOK, Settled
  <2>2. e \notin fired => e \notin fired'
    BY <1>1, <1>4, CompletesOne DEF HandOver
  <2> QED
    BY <2>1, <2>2
<1>5. ASSUME NEW t \in Tasks, TaskStep(t), ~SpawnStep(t), ~SkipStep(t) PROVE UNCHANGED <<node, fired>>
  BY <1>5 DEF TaskStep, EndStep, DoEnd, FireSkipped, Fire, Sweep, Ready, Gate, Redrive, Then
<1>6. CASE PauseRun \/ ResumeRun \/ ReconcileStall \/ UNCHANGED vars
  BY <1>6 DEF PauseRun, ResumeRun, ReconcileStall, vars, Settled
<1>7. node'[e[1]] = node[e[1]] /\ (e \notin fired => e \notin fired')
  BY <1>2, <1>3, <1>4, <1>5, <1>6 DEF Next
<1> QED
  BY <1>7 DEF Settled

LEMMA LostStays ==
  ASSUME HandOver, [Next]_vars, NEW e \in Edges, Lost(e)
  PROVE  Lost(e)'
<1>1. CASE GoneForGood(e[1])
  BY <1>1, GoneStays, EdgeEnds DEF Lost
<1>2. CASE Settled(e[1])
  BY <1>2, SettledIsFixed DEF Lost, GoneForGood, Settled, Absent
<1> QED
  BY <1>1, <1>2 DEF Lost

\* What an edge starts waits for nobody.
LEMMA EdgesStart ==
  ASSUME FiringOK, Shallow, NEW m \in Nodes, NEW n \in Nodes, Spawn(n) \in EdgeActions(m), NEW e \in In(n)
  PROVE  Done(e[1])
<1> DEFINE out == Out(m) \cap fired
           spawns == {Spawn(d[2]) : d \in {f \in out : f[2] # End /\ Absent(f[2]) /\ Resolved(f[2], m)}}
<1>1. Spawn(n) \in spawns
  BY ActionsDiffer DEF EdgeActions
<1>2. PICK f \in out : f[2] = n /\ Resolved(n, m)
  BY <1>1, ActionsDiffer
<1>3. Settled(m)
  BY <1>2 DEF Out, FiringOK
<1>4. e[1] = m \/ Settled(e[1]) \/ e[1] \in Dead
  BY <1>2 DEF Resolved
<1>5. Steady(e[1])
  BY DEF Shallow, In
<1> QED
  BY <1>3, <1>4, <1>5, SteadyDeath DEF Done

LEMMA EdgesEnd ==
  ASSUME FiringOK, OneExit, NEW m \in Nodes, Complete \in EdgeActions(m), NEW e \in In(End)
  PROVE  Done(e[1])
<1> DEFINE out == Out(m) \cap fired
<1>1. PICK f \in out : f[2] = End /\ f \notin Halting /\ Resolved(End, m)
  BY ActionsDiffer DEF EdgeActions
<1>2. Settled(m) /\ f[1] = m /\ f \in In(End) \ Halting
  BY <1>1 DEF Out, In, FiringOK
<1>3. e[1] = m \/ Settled(e[1]) \/ e[1] \in Dead
  BY <1>1 DEF Resolved
<1>4. CASE Steady(e[1])
  BY <1>2, <1>3, <1>4, SteadyDeath DEF Done
<1>5. CASE In(End) \ Halting = {e}
  BY <1>2, <1>5 DEF Done
<1> QED
  BY <1>4, <1>5 DEF OneExit

LEMMA ReadyStarts ==
  ASSUME Uniform, NEW n \in ReadyNodes, NEW e \in In(n)
  PROVE  Done(e[1])
  BY DEF Uniform, ReadyNodes, Done

LEMMA SweepSkips ==
  ASSUME FiringOK, Shallow, SoleInputs, NEW n \in Unreachable, NEW e \in In(n)
  PROVE  Lost(e)
<1>1. \A d \in In(n) : EdgeDead(d, Dead)
  <2>1. CASE n \in Dead
    BY <2>1, DeadMeans DEF DeadSet
  <2>2. ASSUME NEW d \in In(n) \cap Required, EdgeDead(d, Dead) PROVE \A x \in In(n) : EdgeDead(x, Dead)
    <3>1. In(n) = {d}
      BY <2>2 DEF SoleInputs, In
    <3> QED
      BY <2>2, <3>1
  <2> QED
    BY <2>1, <2>2 DEF Unreachable
<1>2. Steady(e[1])
  BY DEF Shallow, In, Unreachable
<1> QED
  BY <1>1, <1>2, SteadyDeath DEF EdgeDead, Lost

LEMMA StartStep ==
  ASSUME HandOver, Shallow, Uniform, StartOK, [Next]_vars
  PROVE  StartOK'
<1> SUFFICES ASSUME NEW t \in Tasks, NEW n \in Nodes, Spawn(n) \in task'[t].todo, NEW e \in In(n)
             PROVE  Done(e[1])'
  BY DEF StartOK, In
<1>1. \A m \in Nodes : Spawn(n) \in EdgeActions(m) => Done(e[1])
  BY EdgesStart DEF HandOver
<1>2. Spawn(n) \in {Spawn(m) : m \in ReadyNodes} => Done(e[1])
  BY ReadyStarts, ActionsDiffer
<1>3. Spawn(n) \notin {Skip(m) : m \in Unreachable}
  BY ActionsDiffer
<1>4. Spawn(n) \in task[t].todo => Done(e[1])
  BY DEF StartOK
<1>5. Spawn(n) \in UNION {EdgeActions(m) : m \in {k \in Nodes : Settled(k)}} => Done(e[1])
  BY <1>1
<1>6. Done(e[1])
  BY TaskMoves, <1>1, <1>2, <1>3, <1>4, <1>5 DEF Moves, HandOver
<1> QED
  BY <1>6, DoneStays, EdgeEnds DEF In

LEMMA SkipStays ==
  ASSUME HandOver, Shallow, SoleInputs, SkipOK, [Next]_vars
  PROVE  SkipOK'
<1> SUFFICES ASSUME NEW t \in Tasks, NEW n \in Nodes, Skip(n) \in task'[t].todo, NEW e \in In(n)
             PROVE  Lost(e)'
  BY DEF SkipOK, In
<1>1. \A m \in Nodes : Skip(n) \notin EdgeActions(m)
  BY EdgesHandOver
<1>2. Skip(n) \notin {Spawn(m) : m \in ReadyNodes}
  BY ActionsDiffer
<1>3. Skip(n) \in {Skip(m) : m \in Unreachable} => Lost(e)
  BY SweepSkips, ActionsDiffer DEF HandOver
<1>4. Skip(n) \in task[t].todo => Lost(e)
  BY DEF SkipOK
<1>5. Skip(n) \notin UNION {EdgeActions(m) : m \in {k \in Nodes : Settled(k)}}
  BY <1>1
<1>6. Lost(e)
  BY TaskMoves, <1>1, <1>2, <1>3, <1>4, <1>5 DEF Moves, HandOver
<1> QED
  BY <1>6, LostStays DEF In

LEMMA EndStays ==
  ASSUME HandOver, OneExit, EndOK, [Next]_vars
  PROVE  EndOK'
<1> SUFFICES ASSUME NEW t \in Tasks, Complete \in task'[t].todo, NEW e \in In(End)
             PROVE  Done(e[1])'
  BY DEF EndOK, In
<1>1. \A m \in Nodes : Complete \in EdgeActions(m) => Done(e[1])
  BY EdgesEnd DEF HandOver
<1>2. Complete \notin {Spawn(m) : m \in ReadyNodes} /\ Complete \notin {Skip(m) : m \in Unreachable}
  BY ActionsDiffer
<1>3. Complete \in task[t].todo => Done(e[1])
  BY DEF EndOK
<1>4. Complete \in UNION {EdgeActions(m) : m \in {k \in Nodes : Settled(k)}} => Done(e[1])
  BY <1>1
<1>5. Done(e[1])
  BY TaskMoves, <1>1, <1>2, <1>3, <1>4 DEF Moves, HandOver
<1> QED
  BY <1>5, DoneStays, EdgeEnds DEF In

\* Who starts was to be spawned, who is skipped was to be skipped.
LEMMA WhoStarts ==
  ASSUME HandOver, [Next]_vars, NEW n \in Nodes, Absent(n), ~Absent(n)'
  PROVE  \E t \in Tasks : \/ node'[n] = "running" /\ Spawn(n) \in task[t].todo
                          \/ node'[n] = "skipped" /\ Skip(n) \in task[t].todo
<1>1. ASSUME NEW t \in Tasks, SpawnStep(t) PROVE node'[n] = "running" /\ Spawn(n) \in task[t].todo
  <2>1. PICK m \in Nodes : Spawn(m) \in task[t].todo /\ DoSpawn(m)
    BY <1>1 DEF SpawnStep
  <2>2. m = n /\ node'[n] = "running"
    BY <2>1 DEF DoSpawn, HandOver, TypeOK, Absent
  <2> QED
    BY <2>1, <2>2
<1>2. ASSUME NEW t \in Tasks, SkipStep(t) PROVE node'[n] = "skipped" /\ Skip(n) \in task[t].todo
  <2>1. PICK m \in Nodes : Skip(m) \in task[t].todo /\ DoSkip(m)
    BY <1>2 DEF SkipStep
  <2>2. m = n /\ node'[n] = "skipped"
    BY <2>1 DEF DoSkip, HandOver, TypeOK, Absent
  <2> QED
    BY <2>1, <2>2
<1>3. ASSUME NEW m \in Nodes, CompleteNode(m) PROVE FALSE
  BY <1>3, CompletesOne DEF HandOver, Settles
<1>4. ~UNCHANGED node
  BY DEF Absent
<1>5. \E t \in Tasks : SpawnStep(t) \/ SkipStep(t)
  BY <1>3, <1>4 DEF Next, TaskStep, EndStep, DoEnd, FireSkipped, Fire, Sweep, Ready, Gate, Redrive, Then,
    PauseRun, ResumeRun, ReconcileStall, vars
<1> QED
  BY <1>1, <1>2, <1>5

LEMMA FedStays ==
  ASSUME HandOver, StartOK, SkipOK, FedOK, [Next]_vars
  PROVE  FedOK'
<1> SUFFICES ASSUME NEW n \in Nodes, ~Absent(n)', NEW e \in In(n)
             PROVE  Done(e[1])'
  BY DEF FedOK, In
<1>1. CASE Absent(n)
  <2>1. PICK t \in Tasks : Spawn(n) \in task[t].todo \/ Skip(n) \in task[t].todo
    BY <1>1, WhoStarts
  <2> QED
    BY <2>1, LostIsDone, DoneStays, EdgeEnds DEF StartOK, SkipOK, In
<1>2. CASE ~Absent(n)
  BY <1>2, DoneStays, EdgeEnds DEF FedOK, In
<1> QED
  BY <1>1, <1>2

\* A convergence waits for all its branches, in every pipeline whose optional
\* branches are one node long and whose nodes wait for guarded edges only or
\* for unguarded ones only; whatever is paused, halted and resumed.
THEOREM ConvergencesWait ==
  ASSUME Shallow, Uniform
  PROVE  Spec => StartsAreFed
<1> DEFINE Step == \A n \in Nodes : node[n] = "absent" /\ node'[n] = "running" =>
                     /\ \A e \in In(n) : Settled(e[1]) \/ e[1] \in Dead
                     /\ In(n) = {} \/ In(n) \cap fired # {}
<1>1. Init => StartOK
  BY PlanTypes DEF Init, StartOK, Idle
<1>2. HandOver /\ StartOK /\ [Next]_vars => StartOK'
  BY StartStep
<1>3. ASSUME HandOver, StartOK, [Next]_vars, NEW n \in Nodes, node[n] = "absent", node'[n] = "running"
      PROVE  /\ \A e \in In(n) : Settled(e[1]) \/ e[1] \in Dead
             /\ In(n) = {} \/ In(n) \cap fired # {}
  <2>1. PICK t \in Tasks : Spawn(n) \in task[t].todo
    BY <1>3, WhoStarts DEF Absent
  <2>2. ASSUME NEW e \in In(n) PROVE Settled(e[1]) \/ e[1] \in Dead
    BY <1>3, <2>1, GoneIsDead, EdgeEnds DEF StartOK, Done, In
  <2> QED
    BY <1>3, <2>1, <2>2 DEF HandOver, TodoOK
<1>4. HandOver /\ StartOK /\ [Next]_vars => [Step]_vars
  BY <1>3
<1>5. Spec => [][Step]_vars
  <2> HIDE DEF Step
  <2> QED
    BY <1>1, <1>2, <1>4, HandOverInvariant, PTL DEF Spec
<1> QED
  BY <1>5 DEF StartsAreFed

\* The auto-skip drops nothing that was handed over, in the same pipelines if a
\* required input is its node's only one.
THEOREM SkipsAreClean ==
  ASSUME Shallow, SoleInputs
  PROVE  Spec => SkipsDropNothing
<1> DEFINE Step == \A n \in Nodes : node[n] = "absent" /\ node'[n] = "skipped" =>
                     \A e \in In(n) \cap fired : node[e[1]] = "skipped"
<1>1. Init => SkipOK
  BY PlanTypes DEF Init, SkipOK, Idle
<1>2. HandOver /\ SkipOK /\ [Next]_vars => SkipOK'
  BY SkipStays
<1>3. ASSUME HandOver, SkipOK, [Next]_vars, NEW n \in Nodes, node[n] = "absent", node'[n] = "skipped",
             NEW e \in In(n) \cap fired
      PROVE  node[e[1]] = "skipped"
  <2>1. PICK t \in Tasks : Skip(n) \in task[t].todo
    BY <1>3, WhoStarts DEF Absent
  <2>2. Lost(e) /\ Settled(e[1])
    BY <1>3, <2>1 DEF SkipOK, HandOver, FiringOK
  <2> QED
    BY <1>3, <2>2 DEF Lost, GoneForGood, Settled, Absent
<1>4. HandOver /\ SkipOK /\ [Next]_vars => [Step]_vars
  BY <1>3
<1>5. Spec => [][Step]_vars
  <2> HIDE DEF Step
  <2> QED
    BY <1>1, <1>2, <1>4, HandOverInvariant, PTL DEF Spec
<1> QED
  BY <1>5 DEF SkipsDropNothing

\* A run that completes has nobody at work, in the same pipelines if all nodes
\* lead to End and what could still come to End does so by one edge.
THEOREM CompletionIsWhole ==
  ASSUME Shallow, Uniform, SoleInputs, OneExit, AllLead
  PROVE  Spec => []CompletedMeansDone
<1> DEFINE Whole == StartOK /\ SkipOK /\ EndOK /\ FedOK /\ CompletedMeansDone
<1>1. Init => Whole
  <2> SUFFICES ASSUME Init PROVE Whole
    OBVIOUS
  <2>1. \A t \in Tasks : task[t].todo = {}
    BY PlanTypes DEF Init, Idle
  <2>2. FedOK /\ CompletedMeansDone
    BY DEF Init, FedOK, Absent, CompletedMeansDone
  <2> QED
    BY <2>1, <2>2 DEF StartOK, SkipOK, EndOK
<1>2. ASSUME HandOver, FedOK, \A e \in In(End) : Done(e[1]), NEW n \in Nodes
      PROVE  Done(n)
  <2> DEFINE S == {End} \cup {m \in Nodes : Done(m)}
  <2>1. ASSUME NEW e \in Edges, e[2] \in S PROVE e[1] \in S
    <3>1. CASE e[2] = End
      BY <1>2, <3>1, EdgeEnds DEF In
    <3>2. CASE e[2] \in Nodes /\ Settled(e[2])
      <4>1. ~Absent(e[2])
        BY <3>2 DEF Settled, Absent
      <4> QED
        BY <1>2, <3>2, <4>1, EdgeEnds DEF FedOK, In
    <3>3. CASE e[2] \in Nodes /\ GoneForGood(e[2])
      BY <3>3, EdgeEnds DEF GoneForGood, In, Done
    <3> QED
      BY <2>1, <3>1, <3>2, <3>3 DEF Done
  <2>2. S \in SUBSET (Nodes \cup {End}) /\ End \in S
    OBVIOUS
  <2>3. Nodes \subseteq S
    <3> HIDE DEF S
    <3> QED
      BY <2>1, <2>2 DEF AllLead
  <2> QED
    BY <2>3, AdvanceAssumption
<1>3. ASSUME HandOver, Whole, [Next]_vars PROVE CompletedMeansDone'
  <2>1. CASE run = "completed" /\ UNCHANGED node
    BY <1>3, <2>1 DEF CompletedMeansDone
  <2>2. CASE run = "completed" /\ ~UNCHANGED node
    BY <2>2, <1>3 DEF Next, TaskStep, SpawnStep, DoSpawn, SkipStep, DoSkip, EndStep, DoEnd, FireSkipped, Fire,
      Sweep, Ready, Gate, Redrive, Then, CompleteNode, PauseRun, ResumeRun, ReconcileStall, vars, Accepts
  <2>3. ASSUME run # "completed", run' = "completed" PROVE \A n \in Nodes : node'[n] # "running"
    <3>1. PICK t \in Tasks : EndStep(t, Complete)
      <4>1. PICK t \in Tasks, x \in {Complete, Halt, Park} : EndStep(t, x)
        BY <1>3, <2>3 DEF Next, TaskStep, SpawnStep, DoSpawn, SkipStep, DoSkip, FireSkipped, Fire, Sweep,
          Ready, Gate, Redrive, Then, CompleteNode, PauseRun, ResumeRun, ReconcileStall, vars
      <4>2. x = Complete
        BY <2>3, <4>1 DEF EndStep, DoEnd
      <4> QED
        BY <4>1, <4>2
    <3>2. Complete \in task[t].todo /\ node' = node
      BY <3>1 DEF EndStep, DoEnd
    <3>3. \A n \in Nodes : Done(n)
      BY <1>2, <1>3, <3>2 DEF EndOK
    <3> QED
      BY <3>2, <3>3 DEF Done, Settled, GoneForGood, Absent
  <2> QED
    BY <2>1, <2>2, <2>3 DEF CompletedMeansDone
<1>4. HandOver /\ Whole /\ [Next]_vars => Whole'
  <2> SUFFICES ASSUME HandOver, Whole, [Next]_vars PROVE Whole'
    OBVIOUS
  <2>1. StartOK' /\ SkipOK' /\ EndOK' /\ FedOK'
    BY StartStep, SkipStays, EndStays, FedStays
  <2> QED
    BY <1>3, <2>1
<1>5. Spec => []Whole
  <2> HIDE DEF Whole
  <2> QED
    BY <1>1, <1>4, HandOverInvariant, PTL DEF Spec
<1>6. Whole => CompletedMeansDone
  OBVIOUS
<1> QED
  <2> HIDE DEF Whole
  <2> QED
    BY <1>5, <1>6, PTL
=============================================================================
