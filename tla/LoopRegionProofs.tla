--------------------------- MODULE LoopRegionProofs ---------------------------
(***************************************************************************)
(* The safety of LoopRegion, for every region, wiring and verdicts.        *)
(***************************************************************************)
EXTENDS LoopRegion, RunLogProofs, FiniteSetTheorems

(***************************************************************************)
(* What is decided                                                         *)
(***************************************************************************)
TaskRecs == [plan : Seq(Phases), todo : SUBSET Decisions, fires : SUBSET Nodes]

LEMMA ActionTypes ==
  /\ \A n \in Nodes, i \in Iters : Spawn(n, i) \in Actions
  /\ \A i \in Iters : StartLap(i) \in Actions
  /\ \A c \in Codes : Park(c) \in Actions
  /\ \A n \in Nodes : Skip(n) \in Actions
  /\ Complete \in Actions /\ Resume \in Actions /\ Commands \subseteq Actions
  BY DEF Actions

\* What an action is can be told from its name.
LEMMA ActionKinds ==
  ASSUME NEW x \in Actions
  PROVE  /\ x.do = "spawn" => x.node \in Nodes /\ x.iter \in Iters /\ x = Spawn(x.node, x.iter)
         /\ x.do = "lap" => x.iter \in Iters /\ x = StartLap(x.iter)
         /\ x.do = "park" => x.code \in Codes
         /\ x.do = "skip" => x.node \in Nodes
         /\ x.do \notin {"spawn", "lap", "park", "skip", "complete", "resume_run"} => x \in Commands
         /\ x \in Commands => x.do \notin {"spawn", "lap", "park", "skip", "complete", "resume_run"}
<1> USE DEF Spawn, StartLap, Park, Skip, Complete, Resume
<1>1. CASE x \in {Spawn(n, i) : n \in Nodes, i \in Iters}
  <2>1. x \notin Commands
    BY <1>1, LoopAssumption DEF EndRegion, SetCap, ForceRoute, SetBudget
  <2> QED
    BY <1>1, <2>1
<1>2. CASE x \in {StartLap(i) : i \in Iters}
  <2>1. x \notin Commands
    BY <1>2, LoopAssumption DEF EndRegion, SetCap, ForceRoute, SetBudget
  <2> QED
    BY <1>2, <2>1
<1>3. CASE x \in {Park(c) : c \in Codes}
  <2>1. x \notin Commands
    BY <1>3, LoopAssumption DEF EndRegion, SetCap, ForceRoute, SetBudget
  <2> QED
    BY <1>3, <2>1
<1>4. CASE x \in {Skip(n) : n \in Nodes}
  <2>1. x \notin Commands
    BY <1>4, LoopAssumption DEF EndRegion, SetCap, ForceRoute, SetBudget
  <2> QED
    BY <1>4, <2>1
<1>5. CASE x \in {Complete, Resume}
  <2>1. x \notin Commands
    BY <1>5, LoopAssumption DEF EndRegion, SetCap, ForceRoute, SetBudget
  <2> QED
    BY <1>5, <2>1
<1>6. CASE x \in Commands
  BY <1>6, LoopAssumption DEF EndRegion, SetCap, ForceRoute, SetBudget
<1> QED
  BY <1>1, <1>2, <1>3, <1>4, <1>5, <1>6 DEF Actions

LEMMA CommandKinds ==
  ASSUME NEW x \in Commands
  PROVE  /\ x.do \in {"end_region", "set_region_max_iter", "set_region_max_cost", "force_route"}
         /\ x.do = "set_region_max_iter" => x.iter \in Iters
         /\ x.do = "set_region_max_cost" => x.usd \in Nat
         /\ x.do = "force_route" => x.target \in Nodes \cup {End}
<1>1. CASE x = EndRegion
  BY <1>1 DEF EndRegion
<1>2. ASSUME NEW i \in Iters, x = SetCap(i) PROVE x.do = "set_region_max_iter" /\ x.iter \in Iters
  BY <1>2 DEF SetCap
<1>3. ASSUME NEW g \in Nodes \cup {End}, x = ForceRoute(g)
      PROVE x.do = "force_route" /\ x.target \in Nodes \cup {End}
  BY <1>3 DEF ForceRoute
<1>4. CASE x.usd \in Nat /\ x = SetBudget(x.usd)
  BY <1>4 DEF SetBudget
<1> QED
  BY <1>1, <1>2, <1>3, <1>4, LoopAssumption

LEMMA EdgeEnds ==
  ASSUME NEW k \in DOMAIN Wiring
  PROVE  /\ k \in Nat /\ Wiring[k] \in Edges
         /\ Wiring[k][1] \in Nodes /\ Wiring[k][2] \in Nodes \cup {End}
  BY LoopAssumption DEF Edges

LEMMA EdgeEndsToo ==
  ASSUME NEW e \in Edges
  PROVE  e[1] \in Nodes /\ e[2] \in Nodes \cup {End} /\ e = <<e[1], e[2]>>
  BY LoopAssumption DEF Edges

LEMMA IterBounds ==
  /\ MaxIter \in Nat \ {0} /\ 1 \in Iters
  /\ \A i : i \in Iters <=> i \in Nat /\ 1 <= i /\ i <= MaxIter
  BY RunLogAssumption DEF Iters

LEMMA IterOfType ==
  ASSUME log \in Runs, NEW n
  PROVE  IterOf(n) \in Nat
  BY ViewKeeps, IterBounds DEF IterOf, Absent

\* An edge starts its target at an iteration that exists, and a member at one
\* within the cap.
LEMMA ForwardIterBound ==
  ASSUME TypeOK, NEW e \in Edges, e[2] # End, ForwardIter(e[1], e[2]) # 0
  PROVE  /\ ForwardIter(e[1], e[2]) \in Iters
         /\ e[2] \in Members => ForwardIter(e[1], e[2]) <= cap
<1> DEFINE next == IF Absent(e[2]) THEN 1
                   ELSE IF Reaches(e[2], e[1]) THEN IterOf(e[2]) + 1 ELSE 0
<1>1. next \in Nat /\ ForwardIter(e[1], e[2]) = next
  BY IterOfType DEF ForwardIter, TypeOK
<1>2. cap \in Nat /\ 1 <= cap /\ cap <= MaxIter
  BY IterBounds DEF TypeOK
<1>3. CASE e[2] \in Members
  <2>1. next <= cap
    BY <1>1, <1>2, <1>3 DEF ForwardIter
  <2> QED
    BY <1>1, <1>2, <2>1, IterBounds
<1>4. CASE e[2] \notin Members
  <2>1. ~Reaches(e[2], e[1])
    BY <1>4, LoopAssumption
  <2> QED
    BY <1>1, <1>4, <2>1, IterBounds
<1> QED
  BY <1>3, <1>4

\* What an edge decides: steps of actions; laps and members' starts within the
\* cap; and no lap but the first once the region has ended.
Decided(x) ==
  /\ x \in Nat \X Actions
  /\ x[2].do = "lap" => x[2].iter <= cap
  /\ x[2].do = "spawn" /\ x[2].node \in Members => x[2].iter <= cap
  /\ x[2].do = "lap" /\ x[2].iter > 1 => ~Ended

LEMMA CapBound ==
  ASSUME TypeOK
  PROVE  /\ cap \in Nat /\ 1 <= cap /\ cap <= MaxIter
         /\ CurrentIter \in Nat /\ 1 <= CurrentIter
  BY IterBounds DEF TypeOK, CurrentIter

LEMMA RouteDecided ==
  ASSUME TypeOK, NEW s \in Nat, NEW target \in Nodes \cup {End}
  PROVE  Decided(<<s, Route(target)>>)
<1>1. CASE target = End
  BY <1>1, ActionTypes DEF Route, Decided, Complete
<1>2. CASE target # End
  <2>1. Route(target) = Spawn(target, 1) /\ Spawn(target, 1) \in Actions
    BY <1>2, ActionTypes, IterBounds DEF Route
  <2> QED
    BY <2>1, CapBound DEF Decided, Spawn
<1> QED
  BY <1>1, <1>2

LEMMA ParkDecided ==
  ASSUME NEW s \in Nat, NEW c \in Codes
  PROVE  Decided(<<s, Park(c)>>)
  BY ActionTypes DEF Decided, Park

LEMMA ExitDecided ==
  ASSUME TypeOK, NEW x \in ExitActions
  PROVE  Decided(x)
<1> DEFINE exits == {k \in DOMAIN Wiring : Leaving(Wiring[k]) /\ Fires(Wiring[k])}
<1>1. CASE forced # None
  BY <1>1, RouteDecided DEF ExitActions, TypeOK
<1>2. CASE forced = None /\ exits = {}
  <2>1. (IF loop.done THEN "region_ended_unrouted" ELSE "region_exhausted") \in Codes
    BY DEF Codes
  <2> QED
    BY <1>2, <2>1, ParkDecided DEF ExitActions
<1>3. CASE forced = None /\ exits # {}
  <2>1. PICK k \in exits : x = <<k, Route(Wiring[k][2])>>
    BY <1>3 DEF ExitActions
  <2> QED
    BY <2>1, EdgeEnds, RouteDecided
<1> QED
  BY <1>1, <1>2, <1>3

LEMMA EdgeDecided ==
  ASSUME TypeOK, NEW k \in DOMAIN Wiring, NEW x \in EdgeActions(Wiring[k])
  PROVE  Decided(x)
<1> DEFINE e == Wiring[k]
<1>1. CASE e[2] = End
  <2>1. x = <<1, Complete>>
    BY <1>1 DEF EdgeActions
  <2> QED
    BY <2>1, ActionTypes DEF Decided, Complete
<1>2. CASE e[2] # End /\ IsBack(e)
  <2>1. x \in Reentry(e[1])
    BY <1>2 DEF EdgeActions
  <2>2. CASE x \in ExitActions
    BY <2>2, ExitDecided
  <2>3. CASE x \in BudgetPark
    BY <2>3, ParkDecided DEF BudgetPark, Codes
  <2>4. CASE x \in NextLap /\ ~Ended /\ CurrentIter < cap
    <3>1. CurrentIter + 1 \in Iters /\ CurrentIter + 1 <= cap
      BY <2>4, CapBound, IterBounds
    <3>2. CASE x = <<1, StartLap(CurrentIter + 1)>>
      BY <2>4, <3>1, <3>2, ActionTypes DEF Decided, StartLap
    <3>3. CASE x = <<2, Spawn(Entry, CurrentIter + 1)>>
      BY <3>1, <3>3, ActionTypes, LoopAssumption DEF Decided, Spawn
    <3> QED
      BY <2>4, <3>2, <3>3 DEF NextLap
  <2> QED
    BY <2>1, <2>2, <2>3, <2>4, CapBound DEF Reentry
<1>3. CASE e[2] # End /\ ~IsBack(e)
  <2>1. x \in Forward(e)
    BY <1>3 DEF EdgeActions
  <2>2. e \in Edges /\ e[2] \in Nodes
    BY <1>3, EdgeEnds
  <2>3. CASE x = <<1, StartLap(1)>>
    BY <2>3, CapBound, IterBounds, ActionTypes DEF Decided, StartLap
  <2>4. CASE x = <<2, Spawn(e[2], ForwardIter(e[1], e[2]))>> /\ ForwardIter(e[1], e[2]) # 0
    <3>1. /\ ForwardIter(e[1], e[2]) \in Iters
          /\ e[2] \in Members => ForwardIter(e[1], e[2]) <= cap
      BY <1>3, <2>2, <2>4, ForwardIterBound
    <3> QED
      BY <2>2, <2>4, <3>1, ActionTypes DEF Decided, Spawn
  <2> QED
    BY <2>1, <2>3, <2>4 DEF Forward
<1> QED
  BY <1>1, <1>2, <1>3

\* What is decided about a node's edges.
OutFits(d) ==
  /\ d \in Decisions
  /\ d.act.do = "lap" => d.act.iter <= cap
  /\ d.act.do = "spawn" /\ d.act.node \in Members => d.act.iter <= cap
  /\ d.act.do = "lap" /\ d.act.iter > 1 => ~Ended

LEMMA OutgoingDecided ==
  ASSUME TypeOK, NEW n, NEW turn \in Nat, NEW d \in OutgoingActions(n, turn)
  PROVE  OutFits(d)
<1> DEFINE out == {k \in DOMAIN Wiring : Wiring[k][1] = n /\ Fires(Wiring[k])}
           decided == UNION {{[at |-> <<turn, k, x[1]>>, act |-> x[2]] : x \in EdgeActions(Wiring[k])}
                               : k \in out}
           unrouted == [at |-> <<turn, Len(Wiring) + 1, 1>>, act |-> Park("unrouted")]
<1>1. d \in decided \/ d = unrouted
  BY DEF OutgoingActions
<1>2. ASSUME NEW k \in out, NEW x \in EdgeActions(Wiring[k]), d = [at |-> <<turn, k, x[1]>>, act |-> x[2]]
      PROVE  OutFits(d)
  <2>1. Decided(x) /\ k \in Nat
    BY EdgeDecided, EdgeEnds
  <2>2. <<turn, k, x[1]>> \in Places
    BY <2>1 DEF Places, Decided
  <2> QED
    BY <1>2, <2>1, <2>2 DEF Decided, OutFits, Decisions
<1>3. CASE d = unrouted
  <2>1. <<turn, Len(Wiring) + 1, 1>> \in Places
    BY LoopAssumption DEF Places
  <2>2. Park("unrouted") \in Actions
    BY ActionTypes DEF Codes
  <2> QED
    BY <1>3, <2>1, <2>2 DEF OutFits, Decisions, Park
<1> QED
  BY <1>1, <1>2, <1>3

LEMMA InAnyOrderTypes ==
  ASSUME NEW S \in SUBSET Actions, NEW d \in InAnyOrder(S)
  PROVE  d \in Decisions /\ d.act \in S
  BY DEF InAnyOrder, Decisions, Places

\* What becomes of a task's decisions in a step: they get fewer, or new ones
\* are made on what the step finds.
NewDecision(d) ==
  \/ OutFits(d)
  \/ d \in Decisions /\ d.act.do = "skip"
  \/ d \in Decisions /\ d.act.do = "spawn" /\ d.act.iter = 1
  \/ d \in Decisions /\ d.act.do \notin {"lap", "spawn"}

Decides(t) == \A d \in task'[t].todo : d \in task[t].todo \/ NewDecision(d)

LEMMA PerformDecides ==
  ASSUME TypeOK, NEW t \in Tasks, Perform(t)
  PROVE  /\ task' \in [Tasks -> TaskRecs]
         /\ \A u \in Tasks : task'[u].todo \subseteq task[u].todo
<1>1. PICK d \in task[t].todo : Done(t, d)
  BY DEF Perform
<1>2. d \in Decisions /\ d.act \in Actions /\ (d.act.do = "skip" => d.act.node \in Nodes)
  BY <1>1, ActionKinds DEF TypeOK, Decisions
<1>3. ASSUME NEW todo \in SUBSET task[t].todo, NEW fires \in SUBSET Nodes,
             task' = [task EXCEPT ![t].todo = todo, ![t].fires = fires]
      PROVE  /\ task' \in [Tasks -> TaskRecs]
             /\ \A u \in Tasks : task'[u].todo \subseteq task[u].todo
  BY <1>3 DEF TypeOK, TaskRecs
<1> DEFINE todo == IF d.act.do \in {"complete", "park"} THEN {} ELSE task[t].todo \ {d}
           fires == IF d.act.do = "skip" /\ Accepts THEN task[t].fires \cup {d.act.node} ELSE task[t].fires
<1>4. todo \in SUBSET task[t].todo /\ fires \in SUBSET Nodes
  BY <1>1, <1>2 DEF TypeOK
<1>5. task' = [task EXCEPT ![t].todo = todo, ![t].fires = fires]
  BY <1>1 DEF Done, TypeOK
<1> HIDE DEF todo, fires
<1> QED
  BY <1>3, <1>4, <1>5

LEMMA ReadDecides ==
  ASSUME TypeOK, NEW t \in Tasks, task[t].plan # <<>>, NEW todo \in SUBSET Decisions, Read(t, todo)
  PROVE  /\ task' \in [Tasks -> TaskRecs] /\ UNCHANGED <<log, loop, cap, budget, spent, forced, code, fired, commands>>
         /\ \A u \in Tasks : task'[u].todo \subseteq task[u].todo \cup todo
<1>1. Tail(task[t].plan) \in Seq(Phases)
  BY DEF TypeOK
<1> DEFINE rest == Tail(task[t].plan)
<1>2. task' = [task EXCEPT ![t].plan = rest, ![t].todo = todo]
  BY DEF Read
<1>3. rest \in Seq(Phases)
  BY <1>1
<1>4. UNCHANGED <<log, loop, cap, budget, spent, forced, code, fired, commands>>
  BY DEF Read
<1> HIDE DEF rest
<1>5. task' \in [Tasks -> TaskRecs]
  BY <1>2, <1>3 DEF TypeOK, TaskRecs
<1>6. \A u \in Tasks : task'[u].todo \in {task[u].todo, todo}
  BY <1>2 DEF TypeOK, TaskRecs
<1> QED
  BY <1>4, <1>5, <1>6

LEMMA TurnTypes ==
  ASSUME NEW S \in SUBSET Nodes, NEW f \in Turns(S), NEW n \in S
  PROVE  f[n] \in Nat
<1>1. IsFiniteSet(S)
  BY LoopAssumption, FS_Subset
<1>2. Cardinality(S) \in Nat
  BY <1>1, FS_CardinalityType
<1> QED
  BY <1>2 DEF Turns

\* The steps of the daemon that read and decide.
Reads(t) ==
  FireSkipped(t) \/ Sweep(t) \/ Ready(t) \/ Redrive(t) \/ (t \in Nodes /\ Fire(t))

LEMMA ReadsDecide ==
  ASSUME TypeOK, NEW t \in Tasks, Reads(t)
  PROVE  /\ task' \in [Tasks -> TaskRecs] /\ UNCHANGED <<log, loop, cap, budget, spent, forced, code, fired, commands>>
         /\ \A u \in Tasks : Decides(u)
<1>1. ASSUME t \in Nodes, Fire(t)
      PROVE  /\ task' \in [Tasks -> TaskRecs] /\ UNCHANGED <<log, loop, cap, budget, spent, forced, code, fired, commands>>
             /\ \A u \in Tasks : Decides(u)
  <2>1. OutgoingActions(t, 0) \in SUBSET Decisions /\ \A d \in OutgoingActions(t, 0) : NewDecision(d)
    BY OutgoingDecided DEF NewDecision, OutFits
  <2> QED
    BY <1>1, <2>1, ReadDecides DEF Fire, Enter, Decides
<1>2. ASSUME FireSkipped(t)
      PROVE  /\ task' \in [Tasks -> TaskRecs] /\ UNCHANGED <<log, loop, cap, budget, spent, forced, code, fired, commands>>
             /\ \A u \in Tasks : Decides(u)
  <2>1. PICK n \in task[t].fires :
          task' = [task EXCEPT ![t].fires = @ \ {n}, ![t].todo = OutgoingActions(n, 0)]
    BY <1>2 DEF FireSkipped
  <2>2. OutgoingActions(n, 0) \in SUBSET Decisions /\ \A d \in OutgoingActions(n, 0) : NewDecision(d)
    BY OutgoingDecided DEF NewDecision, OutFits
  <2>3. /\ task' \in [Tasks -> TaskRecs]
        /\ \A u \in Tasks : task'[u].todo \in {task[u].todo, OutgoingActions(n, 0)}
    BY <2>1, <2>2 DEF TypeOK, TaskRecs
  <2> QED
    BY <1>2, <2>2, <2>3 DEF FireSkipped, Decides
<1>3. ASSUME Sweep(t)
      PROVE  /\ task' \in [Tasks -> TaskRecs] /\ UNCHANGED <<log, loop, cap, budget, spent, forced, code, fired, commands>>
             /\ \A u \in Tasks : Decides(u)
  <2> DEFINE skips == InAnyOrder({Skip(n) : n \in Unreachable})
  <2>1. \A d \in skips : d \in Decisions /\ NewDecision(d)
    <3>1. {Skip(n) : n \in Unreachable} \in SUBSET Actions
      BY ActionTypes DEF Unreachable, Dead
    <3>2. ASSUME NEW d \in skips PROVE d \in Decisions /\ NewDecision(d)
      <4>1. d \in Decisions /\ d.act \in {Skip(n) : n \in Unreachable}
        BY <3>1, InAnyOrderTypes
      <4> QED
        BY <4>1 DEF NewDecision, Skip
    <3> QED
      BY <3>2
  <2> HIDE DEF skips
  <2>2. ASSUME task' = [task EXCEPT ![t].todo = skips]
        PROVE  task' \in [Tasks -> TaskRecs] /\ \A u \in Tasks : Decides(u)
    BY <2>1, <2>2 DEF TypeOK, TaskRecs, Decides
  <2>3. ASSUME Read(t, {})
        PROVE  /\ task' \in [Tasks -> TaskRecs]
               /\ UNCHANGED <<log, loop, cap, budget, spent, forced, code, fired, commands>>
               /\ \A u \in Tasks : Decides(u)
    BY <1>3, <2>3, ReadDecides DEF Sweep, Enter, Decides
  <2> QED
    BY <1>3, <2>2, <2>3 DEF Sweep, skips
<1>4. ASSUME Ready(t)
      PROVE  /\ task' \in [Tasks -> TaskRecs] /\ UNCHANGED <<log, loop, cap, budget, spent, forced, code, fired, commands>>
             /\ \A u \in Tasks : Decides(u)
  <2> DEFINE starts == {Spawn(n, 1) : n \in IF Accepts THEN ReadyNodes ELSE {}}
  <2>1. starts \in SUBSET Actions /\ \A x \in starts : x.do = "spawn" /\ x.iter = 1
    BY ActionTypes, IterBounds DEF ReadyNodes, Spawn
  <2>2. \A d \in InAnyOrder(starts) : d \in Decisions /\ NewDecision(d)
    BY <2>1, InAnyOrderTypes DEF NewDecision
  <2>3. Read(t, InAnyOrder(starts)) /\ task[t].plan # <<>>
    BY <1>4 DEF Ready, Enter
  <2> HIDE DEF starts
  <2> QED
    BY <2>2, <2>3, ReadDecides DEF Decides
<1>5. ASSUME Redrive(t)
      PROVE  /\ task' \in [Tasks -> TaskRecs] /\ UNCHANGED <<log, loop, cap, budget, spent, forced, code, fired, commands>>
             /\ \A u \in Tasks : Decides(u)
  <2> DEFINE settled == {n \in Nodes : Settled(n)}
  <2>1. PICK turn \in Turns(settled) :
          Read(t, {d \in UNION {OutgoingActions(n, turn[n]) : n \in settled} :
                     d.act.do = "spawn" => ~SpawnSuperfluous(View(log), d.act.node, d.act.iter)})
    BY <1>5 DEF Redrive
  <2> DEFINE all == UNION {OutgoingActions(n, turn[n]) : n \in settled}
             some == {d \in all : d.act.do = "spawn" => ~SpawnSuperfluous(View(log), d.act.node, d.act.iter)}
  <2>2. \A d \in all : d \in Decisions /\ NewDecision(d)
    BY OutgoingDecided, TurnTypes DEF NewDecision, OutFits
  <2>3. Read(t, some) /\ task[t].plan # <<>> /\ some \subseteq all
    BY <1>5, <2>1 DEF Redrive, Enter
  <2> HIDE DEF all, some
  <2> QED
    BY <2>2, <2>3, ReadDecides DEF Decides
<1> QED
  BY <1>1, <1>2, <1>3, <1>4, <1>5 DEF Reads

(***************************************************************************)
(* Types                                                                   *)
(***************************************************************************)
LEMMA IdleTypes ==
  /\ Idle \in TaskRecs /\ Idle.todo = {}
  /\ \A plan \in Seq(Phases) : Begin(plan) \in TaskRecs /\ Begin(plan).todo = {}
  /\ {CompletionFirst, SweepFirst, <<"sweep", "ready">>, <<"redrive">>} \subseteq Seq(Phases)
<1>1. {CompletionFirst, SweepFirst, <<"sweep", "ready">>, <<"redrive">>, <<>>} \subseteq Seq(Phases)
  BY DEF CompletionFirst, SweepFirst, Phases
<1>2. Idle \in TaskRecs
  BY <1>1 DEF Idle, TaskRecs
<1> QED
  BY <1>1, <1>2 DEF Begin, Idle, TaskRecs

LEMMA InitType == Init => TypeOK
<1> SUFFICES ASSUME Init PROVE TypeOK
  OBVIOUS
<1>1. log \in Runs /\ loop \in [iter : 0..MaxIter, done : BOOLEAN]
  BY FreshType, IterBounds DEF Init
<1>2. cap \in Iters /\ budget \in Nat /\ spent \in Nat /\ forced \in Nodes \cup {End, None}
  BY LoopAssumption DEF Init
<1>3. code \in Codes /\ fired \subseteq Conditional /\ commands \in 0..MaxCommands
  BY LoopAssumption DEF Init, Codes
<1>4. task \in [Tasks -> TaskRecs]
  BY IdleTypes DEF Init
<1> QED
  BY <1>1, <1>2, <1>3, <1>4 DEF TypeOK, TaskRecs

\* Every event a task appends keeps the projection a run.
LEMMA LogTypes ==
  ASSUME log \in Runs, NEW n \in Nodes, NEW i \in Iters
  PROVE  /\ NodeStarted(log, n, i) \in Runs /\ NodeCompleted(log, n, i) \in Runs
         /\ NodeSkipped(log, n, i) \in Runs /\ RunReopened(log) \in Runs
         /\ RunCompleted(log) \in Runs /\ RunInterrupted(log) \in Runs
<1>1. NodeStarted(log, n, i) \in Runs
  BY StartedStep DEF OnlyNode
<1>2. NodeCompleted(log, n, i) \in Runs
  <2>1. CASE Present(log, n)
    BY <2>1, CompletedStep DEF OnlyNode
  <2> QED
    BY <2>1 DEF NodeCompleted
<1>3. NodeSkipped(log, n, i) \in Runs
  <2>1. CASE Present(log, n)
    BY <1>2, <2>1 DEF NodeSkipped
  <2>2. CASE ~Present(log, n)
    BY <2>2, SkippedStep DEF OnlyNode
  <2> QED
    BY <2>1, <2>2
<1> QED
  BY <1>1, <1>2, <1>3, ReopenedStep, RunEventStep

LEMMA FiringTypes ==
  ASSUME TypeOK, NEW n \in Nodes, NEW f \in Firings(n)
  PROVE  f \subseteq Conditional
<1>1. PICK g \in Verdicts[n] : f = (fired \ UNION Verdicts[n]) \cup g
  BY DEF Firings
<1>2. g \subseteq Conditional
  BY <1>1 DEF Conditional
<1> QED
  BY <1>1, <1>2 DEF TypeOK

LEMMA PerformType ==
  ASSUME TypeOK, NEW t \in Tasks, Perform(t)
  PROVE  TypeOK'
<1>1. task' \in [Tasks -> TaskRecs]
  BY PerformDecides
<1>2. PICK d \in task[t].todo :
        CASE d.act.do = "spawn" -> DoSpawn(d.act.node, d.act.iter)
          [] d.act.do = "lap" -> DoLap(d.act.iter)
          [] d.act.do = "complete" -> DoComplete
          [] d.act.do = "park" -> DoPark(d.act.code)
          [] d.act.do = "skip" -> DoSkip(d.act.node)
          [] d.act.do = "resume_run" -> DoResume
          [] OTHER -> DoCommand(d.act)
  BY DEF Perform
<1> DEFINE x == d.act
<1>3. x \in Actions
  BY DEF TypeOK, Decisions
<1> DEFINE Rest == /\ log' \in Runs /\ loop' \in [iter : 0..MaxIter, done : BOOLEAN]
                   /\ cap' \in Iters /\ budget' \in Nat /\ spent' \in Nat
                   /\ forced' \in Nodes \cup {End, None} /\ code' \in Codes
                   /\ fired' \subseteq Conditional /\ commands' \in 0..MaxCommands
<1>4. ASSUME x.do = "spawn" PROVE Rest
  <2>1. x.node \in Nodes /\ x.iter \in Iters /\ DoSpawn(x.node, x.iter)
    BY <1>2, <1>3, <1>4, ActionKinds
  <2> QED
    BY <2>1, LogTypes DEF DoSpawn, TypeOK
<1>5. ASSUME x.do = "lap" PROVE Rest
  <2>1. x.iter \in 0..MaxIter /\ DoLap(x.iter)
    BY <1>2, <1>3, <1>5, ActionKinds, IterBounds
  <2> QED
    BY <2>1 DEF DoLap, TypeOK
<1>6. ASSUME x.do \in {"complete", "resume_run"} PROVE Rest
  <2>1. \E n \in Nodes, i \in Iters : TRUE
    BY LoopAssumption, IterBounds
  <2>2. DoComplete \/ DoResume
    BY <1>2, <1>6
  <2>3. RunCompleted(log) \in Runs /\ RunReopened(log) \in Runs
    BY <2>1, LogTypes DEF TypeOK
  <2> QED
    BY <2>2, <2>3 DEF DoComplete, DoResume, TypeOK, Codes
<1>7. ASSUME x.do = "park" PROVE Rest
  <2>1. x.code \in Codes /\ DoPark(x.code)
    BY <1>2, <1>3, <1>7, ActionKinds
  <2>2. RunInterrupted(log) \in Runs
    BY RunEventStep DEF TypeOK
  <2> QED
    BY <2>1, <2>2 DEF DoPark, TypeOK
<1>8. ASSUME x.do = "skip" PROVE Rest
  <2>1. x.node \in Nodes /\ DoSkip(x.node) /\ 1 \in Iters
    BY <1>2, <1>3, <1>8, ActionKinds, IterBounds
  <2>2. log' \in Runs
    <3>1. log \in Runs /\ NodeSkipped(log, x.node, 1) \in Runs
      BY <2>1, LogTypes DEF TypeOK
    <3> QED
      BY <2>1, <3>1 DEF DoSkip
  <2>3. fired' \subseteq Conditional
    BY <2>1, FiringTypes DEF DoSkip, TypeOK
  <2> QED
    BY <2>1, <2>2, <2>3 DEF DoSkip, TypeOK
<1>9. ASSUME x.do \notin {"spawn", "lap", "complete", "park", "skip", "resume_run"} PROVE Rest
  <2>1. x \in Commands /\ DoCommand(x)
    BY <1>2, <1>3, <1>9, ActionKinds
  <2>2. CurrentIter \in 0..MaxIter
    BY IterBounds DEF CurrentIter, TypeOK
  <2>3. /\ x.do \in {"end_region", "set_region_max_iter", "set_region_max_cost", "force_route"}
        /\ x.do = "set_region_max_iter" => x.iter \in Iters
        /\ x.do = "set_region_max_cost" => x.usd \in Nat
        /\ x.do = "force_route" => x.target \in Nodes \cup {End}
    BY <2>1, CommandKinds
  <2>4. UNCHANGED <<log, spent, code, fired, commands>>
    BY <2>1 DEF DoCommand
  <2>5. /\ loop' \in [iter : 0..MaxIter, done : BOOLEAN] /\ cap' \in Iters
        /\ budget' \in Nat /\ forced' \in Nodes \cup {End, None}
    <3> HIDE DEF x
    <3>1. CASE x.do = "end_region"
      <4>1. /\ loop' = [iter |-> CurrentIter, done |-> TRUE]
            /\ cap' = cap /\ budget' = budget /\ forced' = forced
        BY <2>1, <3>1 DEF DoCommand
      <4> QED
        BY <2>2, <4>1 DEF TypeOK
    <3>2. CASE x.do = "set_region_max_iter"
      BY <2>1, <2>3, <3>2 DEF DoCommand, TypeOK
    <3>3. CASE x.do = "set_region_max_cost"
      BY <2>1, <2>3, <3>3 DEF DoCommand, TypeOK
    <3>4. CASE x.do = "force_route"
      BY <2>1, <2>3, <3>4 DEF DoCommand, TypeOK
    <3> QED
      BY <2>3, <3>1, <3>2, <3>3, <3>4
  <2> QED
    BY <2>4, <2>5 DEF TypeOK
<1>10. Rest
  BY <1>4, <1>5, <1>6, <1>7, <1>8, <1>9
<1> QED
  BY <1>1, <1>10 DEF TypeOK, TaskRecs

\* No node ever waits: a start is refused and dropped.
NoneWaiting == \A n \in Nodes : log.nodes[n].st # "waiting"

\* What the projection keeps over every event a task appends.
Grows(n, i) ==
  /\ log' \in Runs
  /\ \A m \in Nodes, j \in Iters :
       log'.nodes[m].row[j] # "none" => log.nodes[m].row[j] # "none" \/ (m = n /\ j = i)
  /\ NoneWaiting => NoneWaiting'

LEMMA StartedGrows ==
  ASSUME log \in Runs, NEW n \in Nodes, NEW i \in Iters, log' = NodeStarted(log, n, i)
  PROVE  Grows(n, i)
<1>1. OnlyNode(log, log', n) /\ log'.nodes[n].st = "running" /\ RowsBut(log'.nodes[n], log.nodes[n], i)
  BY StartedStep
<1> QED
  BY <1>1 DEF OnlyNode, RowsBut, Grows, NoneWaiting

LEMMA CompletedGrows ==
  ASSUME log \in Runs, NEW n \in Nodes, NEW i \in Iters, log' = NodeCompleted(log, n, i)
  PROVE  Grows(n, i)
<1>1. CASE Present(log, n)
  <2>1. /\ OnlyNode(log, log', n) /\ log'.nodes[n].st = "completed"
        /\ RowSet(log'.nodes[n], log.nodes[n], i, "completed")
    BY <1>1, CompletedStep
  <2> QED
    BY <2>1 DEF OnlyNode, RowSet, RowsBut, Grows, NoneWaiting
<1>2. CASE ~Present(log, n)
  BY <1>2 DEF NodeCompleted, Grows, NoneWaiting
<1> QED
  BY <1>1, <1>2

LEMMA SkippedGrows ==
  ASSUME log \in Runs, NEW n \in Nodes, NEW i \in Iters, log' = NodeSkipped(log, n, i)
  PROVE  Grows(n, i)
<1>1. CASE Present(log, n)
  BY <1>1, CompletedGrows DEF NodeSkipped
<1>2. CASE ~Present(log, n)
  <2>1. /\ OnlyNode(log, log', n) /\ log'.nodes[n].st = "skipped"
        /\ \A j \in Iters : log'.nodes[n].row[j] = IF j = i THEN "skipped" ELSE "none"
    BY <1>2, SkippedStep
  <2> QED
    BY <2>1 DEF OnlyNode, Grows, NoneWaiting
<1> QED
  BY <1>1, <1>2

LEMMA OthersGrow ==
  ASSUME log \in Runs, log' \in {log, RunReopened(log), RunCompleted(log), RunInterrupted(log)},
         NEW n, NEW i
  PROVE  Grows(n, i)
<1>1. CASE log' = log
  BY <1>1 DEF Grows, NoneWaiting
<1>2. CASE log' = RunReopened(log)
  <2>1. log' \in Runs /\ \A m \in Nodes : log'.nodes[m] \in {log.nodes[m], AbsentNode}
    BY <1>2, ReopenedStep
  <2> QED
    BY <2>1 DEF Grows, NoneWaiting, AbsentNode
<1>3. CASE log' \in {RunCompleted(log), RunInterrupted(log)}
  <2>1. log' \in Runs /\ log'.nodes = log.nodes
    BY <1>3, RunEventStep
  <2> QED
    BY <2>1 DEF Grows, NoneWaiting
<1> QED
  BY <1>1, <1>2, <1>3

\* The iteration an agent completes is one it was started at.
LEMMA LiveIters ==
  ASSUME log \in Runs, NoneWaiting, NEW n \in Nodes, NEW i \in LiveIteration(View(log), n)
  PROVE  i \in Iters /\ log.nodes[n].row[i] # "none"
<1>1. View(log).nodes[n].st # "waiting" /\ View(log).nodes[n].row = log.nodes[n].row
  BY ViewKeeps DEF NoneWaiting
<1>2. i \in LiveRows(View(log), n)
  BY <1>1 DEF LiveIteration
<1> QED
  BY <1>1, <1>2 DEF LiveRows, HoldsSession

LEMMA CompleteType ==
  ASSUME TypeOK, NoneWaiting, NEW n \in Nodes, CompleteNode(n)
  PROVE  TypeOK' /\ \A t \in Tasks : task'[t].todo \subseteq task[t].todo
<1>1. PICK order \in {CompletionFirst, SweepFirst} : task' = [task EXCEPT ![n] = Begin(order)]
  BY DEF CompleteNode
<1>2. Begin(order) \in TaskRecs /\ Begin(order).todo = {}
  BY IdleTypes
<1>3. task' \in [Tasks -> TaskRecs] /\ \A t \in Tasks : task'[t].todo \subseteq task[t].todo
  BY <1>1, <1>2 DEF TypeOK, TaskRecs
<1>4. PICK i \in LiveIteration(View(log), n) : log' = NodeCompleted(log, n, i)
  BY DEF CompleteNode
<1>5. log' \in Runs
  BY <1>4, LiveIters, LogTypes DEF TypeOK
<1>6. fired' \subseteq Conditional /\ spent' \in Nat
  BY FiringTypes DEF CompleteNode, TypeOK
<1> QED
  BY <1>3, <1>5, <1>6 DEF CompleteNode, TypeOK, TaskRecs

LEMMA CommandType ==
  ASSUME TypeOK, NEW x \in Commands, Command(x)
  PROVE  TypeOK' /\ \A t \in Tasks : Decides(t)
<1> DEFINE first == [at |-> <<0, 0, 1>>, act |-> x]
           second == [at |-> <<0, 0, 2>>, act |-> Resume]
<1>1. first \in Decisions /\ second \in Decisions
  BY ActionTypes DEF Decisions, Places
<1>2. NewDecision(first) /\ NewDecision(second)
  BY <1>1, CommandKinds DEF NewDecision, Resume
<1> HIDE DEF first, second
<1>3. PICK todo \in SUBSET {first, second} :
        task' = [task EXCEPT ![Operator] = [Begin(<<"redrive">>) EXCEPT !.todo = todo]]
  <2>1. CASE View(log).status = "awaiting" /\ View(log).reason # "none"
    BY <2>1 DEF Command, first, second
  <2>2. CASE ~(View(log).status = "awaiting" /\ View(log).reason # "none")
    <3>1. {first} \cup {} = {first}
      OBVIOUS
    <3> QED
      BY <2>2, <3>1 DEF Command, first, second
  <2> QED
    BY <2>1, <2>2
<1>4. Begin(<<"redrive">>) \in TaskRecs
  BY IdleTypes
<1> DEFINE rec == [Begin(<<"redrive">>) EXCEPT !.todo = todo]
<1>5. rec \in TaskRecs /\ rec.todo = todo
  BY <1>1, <1>4 DEF TaskRecs
<1> HIDE DEF rec
<1>6. task' = [task EXCEPT ![Operator] = rec]
  BY <1>3 DEF rec
<1>7. task' \in [Tasks -> TaskRecs] /\ \A t \in Tasks : task'[t].todo \in {task[t].todo, todo}
  BY <1>5, <1>6 DEF TypeOK, TaskRecs
<1>8. commands' \in 0..MaxCommands
  BY LoopAssumption DEF Command, TypeOK
<1>9. TypeOK'
  BY <1>7, <1>8 DEF Command, TypeOK, TaskRecs
<1> QED
  BY <1>2, <1>7, <1>9 DEF Decides

\* What an action a task carries out may start, and count.
Carries(t) ==
  /\ NoneWaiting => NoneWaiting'
  /\ \A m \in Nodes, j \in Iters :
       log'.nodes[m].row[j] # "none" =>
         \/ log.nodes[m].row[j] # "none" \/ j = 1
         \/ \E d \in task[t].todo : d.act.do = "spawn" /\ d.act.node = m /\ d.act.iter = j
  /\ \/ loop'.iter \in {loop.iter, 1}
     \/ \E d \in task[t].todo : d.act.do = "lap" /\ d.act.iter = loop'.iter

LEMMA PerformCarries ==
  ASSUME TypeOK, NEW t \in Tasks, Perform(t)
  PROVE  Carries(t)
<1>1. PICK d \in task[t].todo :
        CASE d.act.do = "spawn" -> DoSpawn(d.act.node, d.act.iter)
          [] d.act.do = "lap" -> DoLap(d.act.iter)
          [] d.act.do = "complete" -> DoComplete
          [] d.act.do = "park" -> DoPark(d.act.code)
          [] d.act.do = "skip" -> DoSkip(d.act.node)
          [] d.act.do = "resume_run" -> DoResume
          [] OTHER -> DoCommand(d.act)
  BY DEF Perform
<1>2. d.act \in Actions /\ log \in Runs /\ loop \in [iter : 0..MaxIter, done : BOOLEAN]
  BY DEF TypeOK, Decisions
<1>3. ASSUME d.act.do = "spawn" PROVE Carries(t)
  <2>1. d.act.node \in Nodes /\ d.act.iter \in Iters /\ DoSpawn(d.act.node, d.act.iter)
    BY <1>1, <1>2, <1>3, ActionKinds
  <2>2. Grows(d.act.node, d.act.iter)
    BY <1>2, <2>1, StartedGrows, OthersGrow DEF DoSpawn
  <2> QED
    BY <1>3, <2>1, <2>2 DEF DoSpawn, Carries, Grows
<1>4. ASSUME d.act.do = "lap" PROVE Carries(t)
  <2>1. log' = log /\ loop'.iter = d.act.iter
    BY <1>1, <1>2, <1>4 DEF DoLap
  <2> QED
    BY <1>4, <2>1 DEF Carries, NoneWaiting
<1>5. ASSUME d.act.do \in {"complete", "park", "resume_run"} PROVE Carries(t)
  <2>1. loop' = loop /\ log' \in {RunReopened(log), RunCompleted(log), RunInterrupted(log)}
    BY <1>1, <1>5 DEF DoComplete, DoPark, DoResume
  <2>2. Grows(1, 1)
    BY <1>2, <2>1, OthersGrow
  <2> QED
    BY <2>1, <2>2 DEF Carries, Grows
<1>6. ASSUME d.act.do = "skip" PROVE Carries(t)
  <2>1. d.act.node \in Nodes /\ DoSkip(d.act.node) /\ 1 \in Iters
    BY <1>1, <1>2, <1>6, ActionKinds, IterBounds
  <2>2. loop' = loop /\ log' \in {log, NodeSkipped(log, d.act.node, 1)}
    BY <2>1 DEF DoSkip
  <2>3. Grows(d.act.node, 1)
    BY <1>2, <2>1, <2>2, SkippedGrows, OthersGrow
  <2> QED
    BY <2>2, <2>3 DEF Carries, Grows
<1>7. ASSUME d.act.do \notin {"spawn", "lap", "complete", "park", "skip", "resume_run"} PROVE Carries(t)
  <2>1. d.act \in Commands /\ DoCommand(d.act)
    BY <1>1, <1>2, <1>7, ActionKinds
  <2>2. log' = log
    BY <2>1 DEF DoCommand
  <2>3. loop' = loop \/ loop' = [iter |-> CurrentIter, done |-> TRUE]
    BY <2>1, CommandKinds DEF DoCommand
  <2>4. loop'.iter \in {loop.iter, 1}
    BY <2>3 DEF CurrentIter
  <2> QED
    BY <2>2, <2>4 DEF Carries, NoneWaiting
<1> QED
  BY <1>3, <1>4, <1>5, <1>6, <1>7

(***************************************************************************)
(* Every step                                                              *)
(***************************************************************************)
LEMMA TaskStepIs ==
  ASSUME NEW t, TaskStep(t)
  PROVE  Perform(t) \/ Reads(t)
  BY DEF TaskStep, Reads

\* A step of LoopRegion, as the invariants see it.
Sees ==
  /\ TypeOK' /\ NoneWaiting'
  /\ \A u \in Tasks : Decides(u)
  /\ \/ \E t \in Tasks : Carries(t)
     \/ /\ \A m \in Nodes, j \in Iters : log'.nodes[m].row[j] # "none" => log.nodes[m].row[j] # "none"
        /\ loop'.iter = loop.iter

LEMMA ReadsSee ==
  ASSUME TypeOK, NoneWaiting, NEW t \in Tasks, Reads(t)
  PROVE  Sees
<1>1. /\ task' \in [Tasks -> TaskRecs]
      /\ UNCHANGED <<log, loop, cap, budget, spent, forced, code, fired, commands>>
      /\ \A u \in Tasks : Decides(u)
  BY ReadsDecide
<1>2. TypeOK'
  BY <1>1 DEF TypeOK, TaskRecs
<1>3. NoneWaiting'
  BY <1>1 DEF NoneWaiting
<1> QED
  BY <1>1, <1>2, <1>3 DEF Sees

LEMMA CompleteSees ==
  ASSUME TypeOK, NoneWaiting, NEW n \in Nodes, CompleteNode(n)
  PROVE  Sees
<1>1. PICK i \in LiveIteration(View(log), n) : log' = NodeCompleted(log, n, i)
  BY DEF CompleteNode
<1>2. log \in Runs /\ i \in Iters /\ log.nodes[n].row[i] # "none"
  BY LiveIters DEF TypeOK
<1>3. Grows(n, i)
  BY <1>1, <1>2, CompletedGrows
<1>4. loop' = loop
  BY DEF CompleteNode
<1> QED
  BY <1>2, <1>3, <1>4, CompleteType DEF Grows, Sees, Decides

LEMMA StepSees ==
  ASSUME TypeOK, NoneWaiting, [Next]_vars
  PROVE  Sees
<1>1. ASSUME NEW t \in Tasks, Perform(t) PROVE Sees
  BY <1>1, PerformType, PerformDecides, PerformCarries DEF Sees, Decides, Carries
<1>2. ASSUME NEW t \in Tasks, Reads(t) PROVE Sees
  BY <1>2, ReadsSee
<1>3. ASSUME NEW n \in Nodes, CompleteNode(n) PROVE Sees
  BY <1>3, CompleteSees
<1>4. ASSUME NEW x \in Commands, Command(x) PROVE Sees
  <2>1. log' = log /\ loop' = loop
    BY <1>4 DEF Command
  <2>2. NoneWaiting'
    BY <2>1 DEF NoneWaiting
  <2> QED
    BY <1>4, <2>1, <2>2, CommandType DEF Sees
<1>5. CASE UNCHANGED vars
  BY <1>5 DEF vars, Sees, Decides, TypeOK, NoneWaiting
<1> QED
  BY <1>1, <1>2, <1>3, <1>4, <1>5, TaskStepIs DEF Next

\* Types: in every reachable state the projection is a run, the counters are
\* in range and each task holds decisions the daemon can carry out.
THEOREM LoopTypeOK == Spec => []TypeOK
<1>1. Init => TypeOK /\ NoneWaiting
  BY InitType DEF Init, NoneWaiting, FreshRun, AbsentNode
<1>2. TypeOK /\ NoneWaiting /\ [Next]_vars => (TypeOK /\ NoneWaiting)'
  BY StepSees DEF Sees
<1> QED
  BY <1>1, <1>2, PTL DEF Spec

LEMMA NoneWaits == Spec => [](TypeOK /\ NoneWaiting)
<1>1. Init => TypeOK /\ NoneWaiting
  BY InitType DEF Init, NoneWaiting, FreshRun, AbsentNode
<1>2. TypeOK /\ NoneWaiting /\ [Next]_vars => (TypeOK /\ NoneWaiting)'
  BY StepSees DEF Sees
<1> QED
  BY <1>1, <1>2, PTL DEF Spec

(***************************************************************************)
(* The cap                                                                 *)
(***************************************************************************)
\* What is still to be carried out is within the cap: it was when it was
\* decided, and the cap has not been lowered.
PendingWithinCap ==
  \A t \in Tasks : \A d \in task[t].todo :
    d.act.do = "lap" \/ (d.act.do = "spawn" /\ d.act.node \in Members) => d.act.iter <= cap

\* Within a run whose cap is not lowered, the region never counts, and no
\* member ever runs, a lap beyond the cap, however late the lap is started.
THEOREM LapsStayWithinCap == Spec /\ [][cap' >= cap]_cap => []LapsWithinCap
<1> DEFINE Inv == LapsWithinCap /\ PendingWithinCap
<1>1. Init => Inv
  <2> SUFFICES ASSUME Init PROVE Inv
    OBVIOUS
  <2>1. \A t \in Tasks : task[t].todo = {}
    BY IdleTypes DEF Init
  <2>2. loop.iter = 0 /\ cap \in Nat /\ \A m \in Nodes, i \in Iters : log.nodes[m].row[i] = "none"
    BY LoopAssumption, IterBounds DEF Init, FreshRun, AbsentNode
  <2>3. loop.iter <= cap /\ Members \subseteq Nodes
    BY <2>2, LoopAssumption
  <2> QED
    BY <2>1, <2>2, <2>3 DEF LapsWithinCap, PendingWithinCap
<1>2. Inv /\ TypeOK /\ NoneWaiting /\ [Next]_vars /\ [cap' >= cap]_cap => Inv'
  <2> SUFFICES ASSUME Inv, TypeOK, NoneWaiting, [Next]_vars, [cap' >= cap]_cap PROVE Inv'
    OBVIOUS
  <2>1. Sees
    BY StepSees
  <2>2. cap \in Nat /\ cap' \in Nat /\ 1 <= cap /\ cap <= cap'
    BY <2>1, IterBounds DEF Sees, TypeOK
  <2>3. loop.iter \in Nat /\ loop'.iter \in Nat
    BY <2>1, IterBounds DEF Sees, TypeOK
  <2>4. \A t \in Tasks : \A d \in task[t].todo :
          /\ d.act.do = "lap" => d.act.iter \in Iters
          /\ d.act.do = "spawn" => d.act.iter \in Iters
    BY ActionKinds DEF TypeOK, Decisions
  <2>5. LapsWithinCap'
    <3>1. ASSUME NEW t \in Tasks, Carries(t) PROVE LapsWithinCap'
      <4>1. loop'.iter <= cap'
        BY <2>2, <2>3, <3>1 DEF Carries, PendingWithinCap, LapsWithinCap
      <4>2. ASSUME NEW m \in Members, NEW j \in Iters, log'.nodes[m].row[j] # "none" PROVE j <= cap'
        <5>1. m \in Nodes /\ j \in Nat
          BY LoopAssumption, IterBounds
        <5>2. CASE log.nodes[m].row[j] # "none"
          BY <2>2, <5>1, <5>2 DEF LapsWithinCap
        <5>3. CASE j = 1
          BY <2>2, <5>3
        <5>4. ASSUME NEW d \in task[t].todo, d.act.do = "spawn", d.act.node = m, d.act.iter = j
              PROVE  j <= cap'
          BY <2>2, <5>1, <5>4 DEF PendingWithinCap
        <5> QED
          BY <3>1, <4>2, <5>1, <5>2, <5>3, <5>4 DEF Carries
      <4> QED
        BY <4>1, <4>2 DEF LapsWithinCap
    <3>2. ASSUME \A m \in Nodes, j \in Iters : log'.nodes[m].row[j] # "none" => log.nodes[m].row[j] # "none",
                 loop'.iter = loop.iter
          PROVE  LapsWithinCap'
      <4>1. loop'.iter <= cap'
        BY <2>2, <2>3, <3>2 DEF LapsWithinCap
      <4>2. ASSUME NEW m \in Members, NEW j \in Iters, log'.nodes[m].row[j] # "none" PROVE j <= cap'
        <5>1. m \in Nodes /\ j \in Nat /\ j <= cap
          BY <3>2, <4>2, LoopAssumption, IterBounds DEF LapsWithinCap
        <5> QED
          BY <2>2, <5>1
      <4> QED
        BY <4>1, <4>2 DEF LapsWithinCap
    <3> QED
      BY <2>1, <3>1, <3>2 DEF Sees
  <2>6. PendingWithinCap'
    <3> SUFFICES ASSUME NEW t \in Tasks, NEW d \in task'[t].todo,
                        d.act.do = "lap" \/ (d.act.do = "spawn" /\ d.act.node \in Members)
                 PROVE  d.act.iter <= cap'
      BY DEF PendingWithinCap
    <3>1. d.act.iter \in Iters
      BY <2>1, ActionKinds DEF Sees, TypeOK, Decisions
    <3>2. CASE d \in task[t].todo
      BY <2>2, <3>1, <3>2, IterBounds DEF PendingWithinCap
    <3>3. CASE NewDecision(d)
      <4>1. d.act.iter <= cap
        BY <2>2, <3>3 DEF NewDecision, OutFits
      <4> QED
        BY <2>2, <3>1, <4>1, IterBounds
    <3> QED
      BY <2>1, <3>2, <3>3 DEF Sees, Decides
  <2> QED
    BY <2>5, <2>6
<1>3. Spec => [](TypeOK /\ NoneWaiting)
  BY NoneWaits
<1>4. Inv => LapsWithinCap
  OBVIOUS
<1> QED
  BY <1>1, <1>2, <1>3, <1>4, PTL DEF Spec

\* A closed region is closed for good: once nothing decided before is left, no
\* step of anyone decides another lap of it.
THEOREM ClosedStaysClosed == Spec => ClosedForGood
<1>1. TypeOK /\ NoneWaiting /\ [Next]_vars => [loop.done /\ ~LapPending => ~LapPending']_vars
  <2> SUFFICES ASSUME TypeOK, NoneWaiting, [Next]_vars, loop.done, ~LapPending PROVE ~LapPending'
    OBVIOUS
  <2>1. Sees /\ Ended
    BY StepSees DEF Ended
  <2>2. ASSUME NEW t \in Tasks, NEW d \in task'[t].todo, d.act.do = "lap", d.act.iter > 1 PROVE FALSE
    <3>1. d \in task[t].todo \/ NewDecision(d)
      BY <2>1 DEF Sees, Decides
    <3>2. d \notin task[t].todo
      BY <2>2 DEF LapPending
    <3> QED
      BY <2>1, <2>2, <3>1, <3>2 DEF NewDecision, OutFits
  <2> QED
    BY <2>2 DEF LapPending
<1> QED
  BY <1>1, NoneWaits, PTL DEF Spec, ClosedForGood

(***************************************************************************)
(* Whole laps                                                              *)
(***************************************************************************)
\* The laps a member has started, and those it has finished.
Lap(m) == log.nodes[m].iter
Finished(m) == IF log.nodes[m].st = "running" THEN Lap(m) - 1 ELSE Lap(m)

\* A member's node and rows tell of its laps: all settled but the last, which
\* has the status of the node.
TellsLaps(m) ==
  /\ log.nodes[m].st \in {"absent", "running", "completed"}
  /\ log.nodes[m].st = "absent" <=> Lap(m) = 0
  /\ \A i \in Iters : /\ i < Lap(m) => log.nodes[m].row[i] = "completed"
                      /\ i = Lap(m) => log.nodes[m].row[i] = log.nodes[m].st
                      /\ i > Lap(m) => log.nodes[m].row[i] = "none"

\* No member is ahead of those before it, nor the first by more than a lap.
InOrder(body) ==
  /\ \A j, k \in 1..Len(body) : j < k => Lap(body[k]) <= Finished(body[j])
  /\ \A k \in 1..Len(body) : Lap(Entry) <= Finished(body[k]) + 1

\* What a start may be decided on.
MayStart(body, n, i) ==
  /\ n = Entry => i = 1 \/ \A k \in 1..Len(body) : i <= Finished(body[k]) + 1
  /\ \A k \in 2..Len(body) : n = body[k] => i <= Finished(body[k - 1])

Pending(body) ==
  \A t \in Tasks :
    /\ \A d \in task[t].todo : /\ d.act.do = "spawn" => MayStart(body, d.act.node, d.act.iter)
                               /\ d.act.do = "skip" => d.act.node \notin Members
    /\ task[t].fires \cap Members = {}

\* A member whose tail is not over has settled, and does not start meanwhile.
Tails(body) ==
  \A k \in 1..Len(body) : task[body[k]] # Idle =>
    /\ log.nodes[body[k]].st = "completed"
    /\ k = 1 => Finished(body[Len(body)]) < Lap(Entry)
    /\ k > 1 => Finished(body[k - 1]) <= Lap(body[k])

LapInv(body) ==
  /\ \A m \in Members : TellsLaps(m)
  /\ InOrder(body) /\ Pending(body) /\ Tails(body)

LEMMA BodyFacts ==
  ASSUME NEW body, Chain(body)
  PROVE  /\ Len(body) \in Nat /\ Len(body) >= 2 /\ body[1] = Entry
         /\ \A k \in 1..Len(body) : body[k] \in Members /\ body[k] \in Nodes /\ body[k] \in Tasks
         /\ \A k \in 2..Len(body) : body[k] # Entry
         /\ \A m \in Members : \E k \in 1..Len(body) : m = body[k]
<1>1. Len(body) \in Nat /\ Len(body) >= 2 /\ body[1] = Entry
  BY DEF Chain
<1>2. \A k \in 1..Len(body) : body[k] \in Members
  BY <1>1 DEF Chain
<1>3. ASSUME NEW k \in 2..Len(body) PROVE body[k] # Entry
  <2>1. k \in 1..Len(body) /\ 1 \in 1..Len(body) /\ k # 1
    BY <1>1
  <2>2. \A i, j \in 1..Len(body) : body[i] = body[j] => i = j
    BY DEF Chain
  <2> QED
    BY <1>1, <2>1, <2>2
<1>4. \A m \in Members : \E k \in 1..Len(body) : m = body[k]
  BY DEF Chain
<1>5. Members \subseteq Nodes /\ Nodes \subseteq Tasks
  BY LoopAssumption DEF Tasks
<1> QED
  BY <1>1, <1>2, <1>3, <1>4, <1>5

\* A member's laps in numbers, and as the readers of the log see them.
LEMMA LapNumbers ==
  ASSUME TypeOK, NEW m \in Nodes, TellsLaps(m)
  PROVE  /\ Lap(m) \in Nat /\ Lap(m) <= MaxIter /\ Finished(m) \in Nat
         /\ Finished(m) <= Lap(m) /\ Lap(m) <= Finished(m) + 1
         /\ log.nodes[m].st = "completed" => Finished(m) = Lap(m) /\ 1 <= Lap(m)
         /\ \A i \in Iters : i <= Finished(m) <=> log.nodes[m].row[i] = "completed"
<1>1. Lap(m) \in Nat /\ Lap(m) <= MaxIter
  BY NodeType, IterBounds DEF TypeOK, NodeStates, Lap
<1>2. log.nodes[m].st = "running" => 1 <= Lap(m)
  BY <1>1 DEF TellsLaps
<1>3. log.nodes[m].st = "completed" => 1 <= Lap(m)
  BY <1>1 DEF TellsLaps
<1>4. /\ Finished(m) \in Nat /\ Finished(m) <= Lap(m) /\ Lap(m) <= Finished(m) + 1
      /\ log.nodes[m].st = "completed" => Finished(m) = Lap(m)
  BY <1>1, <1>2 DEF Finished
<1>5. ASSUME NEW i \in Iters PROVE i <= Finished(m) <=> log.nodes[m].row[i] = "completed"
  BY <1>1, <1>4, IterBounds DEF TellsLaps, Finished
<1> QED
  BY <1>1, <1>3, <1>4, <1>5

LEMMA LapViews ==
  ASSUME TypeOK, NEW m \in Nodes, TellsLaps(m)
  PROVE  /\ Absent(m) <=> log.nodes[m].st = "absent"
         /\ ~Absent(m) => IterOf(m) = Lap(m)
         /\ Settled(m) <=> log.nodes[m].st = "completed"
         /\ LiveIteration(View(log), m) = IF log.nodes[m].st = "running" THEN {Lap(m)} ELSE {}
<1>1. Lap(m) \in Nat /\ Lap(m) <= MaxIter
  BY LapNumbers
<1>2. /\ View(log).nodes[m].st = log.nodes[m].st /\ View(log).nodes[m].row = log.nodes[m].row
      /\ View(log).nodes[m].iter = IF Rows(log, m) = {} THEN log.nodes[m].iter ELSE LatestRow(log, m)
  BY ViewKeeps DEF TypeOK
<1>3. Absent(m) <=> log.nodes[m].st = "absent"
  BY DEF Absent, Present
<1>4. Settled(m) <=> log.nodes[m].st = "completed"
  BY <1>2 DEF Settled, SettledComplete, TellsLaps
<1>5. ~Absent(m) => View(log).nodes[m].iter = Lap(m)
  <2> SUFFICES ASSUME ~Absent(m) PROVE View(log).nodes[m].iter = Lap(m)
    OBVIOUS
  <2>1. Lap(m) \in Iters /\ log.nodes[m].row[Lap(m)] # "none"
    BY <1>1, <1>3, IterBounds DEF TellsLaps
  <2>2. Lap(m) \in Rows(log, m) /\ \A i \in Rows(log, m) : i <= Lap(m)
    BY <2>1, <1>1, IterBounds DEF Rows, TellsLaps
  <2>3. LatestRow(log, m) \in Rows(log, m) /\ \A i \in Rows(log, m) : i <= LatestRow(log, m)
    BY <2>2, LatestRowIsMax
  <2>4. LatestRow(log, m) \in Nat
    BY <2>3, IterBounds DEF Rows
  <2>5. LatestRow(log, m) <= Lap(m) /\ Lap(m) <= LatestRow(log, m)
    BY <2>2, <2>3
  <2> QED
    BY <1>1, <1>2, <2>2, <2>4, <2>5
<1>6. LiveRows(View(log), m) = IF log.nodes[m].st = "running" THEN {Lap(m)} ELSE {}
  BY <1>1, <1>2, IterBounds DEF LiveRows, HoldsSession, TellsLaps
<1>7. View(log).nodes[m].st # "waiting"
  BY <1>2 DEF TellsLaps
<1>8. LiveIteration(View(log), m) = IF log.nodes[m].st = "running" THEN {Lap(m)} ELSE {}
  BY <1>1, <1>6, <1>7 DEF LiveIteration
<1> QED
  BY <1>3, <1>4, <1>5, <1>8 DEF IterOf

LEMMA SureNeverDies ==
  ASSUME NEW S, Sure(S), NEW n \in S
  PROVE  n \notin Dead
<1> DEFINE D == (Nodes \cup {End}) \ S
<1>1. D \in SUBSET (Nodes \cup {End})
  OBVIOUS
<1>2. ASSUME NEW m \in S, In(m) # {}, \A e \in In(m) : EdgeDead(e, D) PROVE FALSE
  <2>1. PICK e \in In(m) \ Conditional : e[1] \in S
    BY <1>2 DEF Sure
  <2>2. EdgeDead(e, D) /\ Fires(e)
    BY <1>2, <2>1 DEF Fires
  <2> QED
    BY <2>1, <2>2 DEF EdgeDead
<1>3. n \notin D
  OBVIOUS
<1> HIDE DEF D
<1>4. \A m \in Nodes \cup {End} :
        Absent(m) /\ In(m) # {} /\ (\A e \in In(m) : EdgeDead(e, D)) => m \in D
  BY <1>2 DEF D
<1> QED
  BY <1>1, <1>3, <1>4 DEF Dead

(***************************************************************************)
(* What is decided about a chain                                           *)
(***************************************************************************)
Fits(body, x) ==
  /\ x.do = "spawn" => MayStart(body, x.node, x.iter)
  /\ x.do # "skip"

LEMMA RouteFits ==
  ASSUME TypeOK, NEW body, Chain(body), LapInv(body), log.nodes[body[Len(body)]].st = "completed",
         NEW target
  PROVE  Fits(body, Route(target))
<1> DEFINE N == Len(body)
<1>0. N \in Nat /\ N >= 2 /\ \A k \in 1..N : body[k] \in Nodes /\ TellsLaps(body[k])
  BY BodyFacts DEF LapInv
<1>1. 1 <= Lap(body[N]) /\ Lap(body[N]) \in Nat
  BY <1>0, LapNumbers
<1>2. ASSUME NEW k \in 2..N PROVE 1 <= Finished(body[k - 1])
  <2>1. k - 1 \in 1..N /\ k - 1 < N /\ N \in 1..N
    BY <1>0
  <2>2. Lap(body[N]) <= Finished(body[k - 1])
    BY <2>1 DEF LapInv, InOrder
  <2> QED
    BY <1>0, <1>1, <2>1, <2>2, LapNumbers
<1>3. MayStart(body, target, 1)
  BY <1>2 DEF MayStart
<1> QED
  BY <1>3 DEF Fits, Route, Complete, Spawn

LEMMA EdgeFits ==
  ASSUME TypeOK, NEW body, Chain(body), LapInv(body), NEW k \in DOMAIN Wiring,
         Wiring[k][1] \in Members => Settled(Wiring[k][1]), NEW x \in EdgeActions(Wiring[k])
  PROVE  Fits(body, x[2])
<1> DEFINE e == Wiring[k]
           N == Len(body)
<1>0. /\ N \in Nat /\ N >= 2 /\ body[1] = Entry
      /\ \A j \in 1..N : body[j] \in Nodes /\ body[j] \in Members /\ TellsLaps(body[j])
      /\ \A j \in 2..N : body[j] # Entry
  BY BodyFacts DEF LapInv
<1>1. CASE e[2] = End
  <2>1. x = <<1, Complete>>
    BY <1>1 DEF EdgeActions
  <2> QED
    BY <2>1 DEF Fits, Complete
<1>2. CASE e[2] # End /\ IsBack(e)
  <2>1. x \in Reentry(e[1])
    BY <1>2 DEF EdgeActions
  <2>2. e[1] = body[N] /\ N \in 1..N
    BY <1>0, <1>2, EdgeEnds DEF Chain
  <2>3. /\ log.nodes[body[N]].st = "completed" /\ Finished(body[N]) = Lap(body[N])
        /\ IterOf(body[N]) = Lap(body[N]) /\ Lap(body[N]) \in Nat
    BY <1>0, <2>2, LapViews, LapNumbers
  <2>4. ASSUME x \in ExitActions PROVE Fits(body, x[2])
    <3>1. (\E s, target : x = <<s, Route(target)>>) \/ (\E s, c : x = <<s, Park(c)>>)
      BY <2>4 DEF ExitActions
    <3> QED
      BY <2>3, <3>1, RouteFits DEF Fits, Park
  <2>5. ASSUME x \in BudgetPark PROVE Fits(body, x[2])
    BY <2>5 DEF BudgetPark, Fits, Park
  <2>6. ASSUME x \in NextLap, ~(CurrentIter > IterOf(e[1])) PROVE Fits(body, x[2])
    <3>1. CASE x = <<1, StartLap(CurrentIter + 1)>>
      BY <3>1 DEF Fits, StartLap
    <3>2. CASE x = <<2, Spawn(Entry, CurrentIter + 1)>>
      <4>1. CurrentIter <= Lap(body[N]) /\ CurrentIter \in Nat
        BY <2>2, <2>3, <2>6, CapBound
      <4>2. ASSUME NEW j \in 1..N PROVE CurrentIter + 1 <= Finished(body[j]) + 1
        <5>1. Finished(body[j]) \in Nat
          BY <1>0, LapNumbers
        <5>2. j < N => Lap(body[N]) <= Finished(body[j])
          BY <2>2 DEF LapInv, InOrder
        <5>3. j < N \/ j = N
          BY <1>0
        <5> QED
          BY <2>3, <4>1, <5>1, <5>2, <5>3
      <4>3. MayStart(body, Entry, CurrentIter + 1)
        BY <1>0, <4>2 DEF MayStart
      <4> QED
        BY <3>2, <4>3 DEF Fits, Spawn
    <3> QED
      BY <2>6, <3>1, <3>2 DEF NextLap
  <2> QED
    BY <2>1, <2>4, <2>5, <2>6 DEF Reentry, Ended
<1>3. CASE e[2] # End /\ ~IsBack(e)
  <2>1. e \in Edges /\ e[2] \in Nodes /\ e[1] \in Nodes
    BY <1>3, EdgeEnds
  <2>2. CASE x = <<1, StartLap(1)>>
    BY <2>2 DEF Fits, StartLap
  <2> DEFINE i == ForwardIter(e[1], e[2])
  <2>3. CASE x = <<2, Spawn(e[2], i)>> /\ i # 0
    <3>1. CASE e[2] = Entry
      <4>1. e[1] \notin Members
        BY <1>3, <3>1 DEF IsBack
      <4>2. ~Reaches(e[2], e[1])
        BY <2>1, <4>1, LoopAssumption
      <4>3. i = 1
        BY <2>3, <4>2 DEF ForwardIter
      <4>4. MayStart(body, Entry, 1)
        BY <1>0 DEF MayStart
      <4> QED
        BY <2>3, <3>1, <4>3, <4>4 DEF Fits, Spawn
    <3>2. ASSUME NEW j \in 2..N, e[2] = body[j] PROVE Fits(body, x[2])
      <4>1. In(body[j]) = {<<body[j - 1], body[j]>>}
        BY DEF Chain
      <4>2. e[1] = body[j - 1] /\ j - 1 \in 1..N /\ j \in 1..N
        BY <1>0, <2>1, <3>2, <4>1 DEF In
      <4>3. /\ log.nodes[e[1]].st = "completed" /\ Finished(e[1]) = Lap(e[1]) /\ 1 <= Lap(e[1])
            /\ IterOf(e[1]) = Lap(e[1]) /\ Lap(e[1]) \in Nat
        BY <1>0, <2>1, <4>2, LapViews, LapNumbers
      <4>4. e[1] \in Members /\ e[2] \in Members /\ IterOf(e[2]) \in Nat
        BY <1>0, <3>2, <4>2, IterOfType DEF TypeOK
      <4>5. i <= Lap(e[1])
        <5>1. CASE Absent(e[2])
          BY <2>3, <4>3, <5>1 DEF ForwardIter
        <5>2. CASE ~Absent(e[2])
          <6>1. ~(IterOf(e[2]) >= IterOf(e[1])) /\ i = IterOf(e[2]) + 1
            BY <2>3, <4>4, <5>2 DEF ForwardIter
          <6> QED
            BY <4>3, <4>4, <6>1
        <5> QED
          BY <5>1, <5>2
      <4>6. MayStart(body, e[2], i)
        <5>1. ASSUME NEW l \in 2..N, e[2] = body[l] PROVE l = j
          <6>1. l \in 1..N /\ j \in 1..N /\ body[l] = body[j]
            BY <1>0, <3>2, <5>1
          <6>2. \A l1, l2 \in 1..N : body[l1] = body[l2] => l1 = l2
            BY DEF Chain
          <6> QED
            BY <6>1, <6>2
        <5>2. e[2] # Entry /\ i <= Finished(body[j - 1])
          BY <1>0, <3>2, <4>2, <4>3, <4>5
        <5> HIDE DEF i
        <5> QED
          BY <5>1, <5>2 DEF MayStart
      <4> QED
        BY <2>3, <4>6 DEF Fits, Spawn
    <3>3. CASE e[2] \notin Members
      <4>1. MayStart(body, e[2], i)
        BY <1>0, <3>3, LoopAssumption DEF MayStart
      <4> QED
        BY <2>3, <4>1 DEF Fits, Spawn
    <3> QED
      <4>1. e[2] \in Members => \E j \in 1..N : e[2] = body[j]
        BY BodyFacts
      <4> QED
        BY <1>0, <3>1, <3>2, <3>3, <4>1
  <2> QED
    BY <1>3, <2>2, <2>3 DEF EdgeActions, Forward
<1> QED
  BY <1>1, <1>2, <1>3

LEMMA OutgoingFits ==
  ASSUME TypeOK, NEW body, Chain(body), LapInv(body), NEW n, n \in Members => Settled(n),
         NEW turn, NEW d \in OutgoingActions(n, turn)
  PROVE  Fits(body, d.act)
<1> DEFINE out == {k \in DOMAIN Wiring : Wiring[k][1] = n /\ Fires(Wiring[k])}
           decided == UNION {{[at |-> <<turn, k, x[1]>>, act |-> x[2]] : x \in EdgeActions(Wiring[k])}
                               : k \in out}
           unrouted == [at |-> <<turn, Len(Wiring) + 1, 1>>, act |-> Park("unrouted")]
<1>1. d \in decided \/ d = unrouted
  BY DEF OutgoingActions
<1>2. ASSUME NEW k \in out, NEW x \in EdgeActions(Wiring[k]), d = [at |-> <<turn, k, x[1]>>, act |-> x[2]]
      PROVE  Fits(body, d.act)
  <2>1. k \in DOMAIN Wiring /\ Wiring[k][1] = n
    OBVIOUS
  <2>2. Fits(body, x[2])
    BY <2>1, EdgeFits
  <2> QED
    BY <1>2, <2>2
<1>3. CASE d = unrouted
  BY <1>3 DEF Fits, Park
<1> QED
  BY <1>1, <1>2, <1>3

\* What a step leaves the tasks: none is woken but by a completion, and what
\* is decided is fit.
FitDecision(body, x) ==
  /\ x.do = "spawn" => MayStart(body, x.node, x.iter)
  /\ x.do = "skip" => x.node \notin Members

Tasked(body, t) ==
  /\ task'[t] # Idle => task[t] # Idle
  /\ \A d \in task'[t].todo : d \in task[t].todo \/ FitDecision(body, d.act)
  /\ \A n \in task'[t].fires :
       n \in task[t].fires \/ \E d \in task[t].todo : d.act.do = "skip" /\ d.act.node = n

LEMMA PerformTasks ==
  ASSUME TypeOK, NEW t \in Tasks, Perform(t), NEW body
  PROVE  \A u \in Tasks : Tasked(body, u)
<1>1. PICK d \in task[t].todo : Done(t, d)
  BY DEF Perform
<1>2. task[t] # Idle
  BY <1>1, IdleTypes
<1> DEFINE todo == IF d.act.do \in {"complete", "park"} THEN {} ELSE task[t].todo \ {d}
           fires == IF d.act.do = "skip" /\ Accepts THEN task[t].fires \cup {d.act.node} ELSE task[t].fires
<1>3. task' = [task EXCEPT ![t].todo = todo, ![t].fires = fires]
  BY <1>1 DEF Done, TypeOK
<1>4. /\ todo \subseteq task[t].todo
      /\ \A n \in fires : n \in task[t].fires \/ (d.act.do = "skip" /\ n = d.act.node)
  OBVIOUS
<1> HIDE DEF todo, fires
<1>5. task \in [Tasks -> TaskRecs]
  BY DEF TypeOK, TaskRecs
<1>6. task'[t].todo = todo /\ task'[t].fires = fires /\ \A u \in Tasks \ {t} : task'[u] = task[u]
  BY <1>3, <1>5 DEF TaskRecs
<1> QED
  BY <1>1, <1>2, <1>4, <1>6 DEF Tasked

\* Where a decision comes from.
Origin(t, d) ==
  \/ \E n, turn : /\ d \in OutgoingActions(n, turn)
                  /\ n \in task[t].fires \/ Settled(n) \/ (n = t /\ t \in Nodes)
  \/ \E n \in Unreachable : d.act = Skip(n)
  \/ \E n \in ReadyNodes : d.act = Spawn(n, 1)

ReadOf(t) ==
  /\ task[t] # Idle
  /\ \A u \in Tasks : /\ task'[u] # Idle => task[u] # Idle
                      /\ task'[u].fires \subseteq task[u].fires
                      /\ \A d \in task'[u].todo : d \in task[u].todo \/ Origin(t, d)

LEMMA ReadGives ==
  ASSUME TypeOK, NEW t \in Tasks, NEW phase, Enter(t, phase), NEW todo, Read(t, todo),
         \A d \in todo : Origin(t, d)
  PROVE  ReadOf(t)
<1>1. task \in [Tasks -> TaskRecs] /\ task[t] # Idle
  BY DEF TypeOK, TaskRecs, Enter, Idle
<1> DEFINE rest == Tail(task[t].plan)
<1>2. task' = [task EXCEPT ![t].plan = rest, ![t].todo = todo]
  BY DEF Read
<1> HIDE DEF rest
<1>3. task'[t].todo = todo /\ task'[t].fires = task[t].fires /\ \A u \in Tasks \ {t} : task'[u] = task[u]
  BY <1>1, <1>2 DEF TaskRecs
<1> QED
  BY <1>1, <1>3 DEF ReadOf

LEMMA ReadsGive ==
  ASSUME TypeOK, NEW t \in Tasks, Reads(t)
  PROVE  ReadOf(t)
<1>1. ASSUME t \in Nodes, Fire(t) PROVE ReadOf(t)
  BY <1>1, ReadGives DEF Fire, Origin
<1>2. ASSUME FireSkipped(t) PROVE ReadOf(t)
  <2>1. PICK n \in task[t].fires :
          task' = [task EXCEPT ![t].fires = @ \ {n}, ![t].todo = OutgoingActions(n, 0)]
    BY <1>2 DEF FireSkipped
  <2> DEFINE out == OutgoingActions(n, 0)
             fires == task[t].fires \ {n}
  <2>2. \A d \in out : Origin(t, d)
    BY DEF Origin
  <2>3. task \in [Tasks -> TaskRecs] /\ task[t] # Idle
    BY DEF TypeOK, TaskRecs, Idle
  <2>4. task' = [task EXCEPT ![t].fires = fires, ![t].todo = out] /\ fires \subseteq task[t].fires
    BY <2>1
  <2> HIDE DEF out, fires
  <2>5. task'[t].todo = out /\ task'[t].fires = fires /\ \A u \in Tasks \ {t} : task'[u] = task[u]
    BY <2>3, <2>4 DEF TaskRecs
  <2> QED
    BY <2>2, <2>3, <2>4, <2>5 DEF ReadOf
<1>3. ASSUME Sweep(t) PROVE ReadOf(t)
  <2> DEFINE skips == InAnyOrder({Skip(n) : n \in Unreachable})
  <2>1. \A d \in skips : Origin(t, d)
    BY DEF InAnyOrder, Origin
  <2> HIDE DEF skips
  <2>2. task \in [Tasks -> TaskRecs] /\ task[t] # Idle
    BY <1>3 DEF TypeOK, TaskRecs, Idle, Sweep, Enter
  <2>3. ASSUME task' = [task EXCEPT ![t].todo = skips] PROVE ReadOf(t)
    <3>1. task'[t].todo = skips /\ task'[t].fires = task[t].fires /\ \A u \in Tasks \ {t} : task'[u] = task[u]
      BY <2>2, <2>3 DEF TaskRecs
    <3> QED
      BY <2>1, <2>2, <3>1 DEF ReadOf
  <2>4. ASSUME Read(t, {}) PROVE ReadOf(t)
    BY <1>3, <2>4, ReadGives DEF Sweep
  <2> QED
    BY <1>3, <2>3, <2>4 DEF Sweep, skips
<1>4. ASSUME Ready(t) PROVE ReadOf(t)
  <2> DEFINE starts == {Spawn(n, 1) : n \in IF Accepts THEN ReadyNodes ELSE {}}
  <2>1. \A d \in InAnyOrder(starts) : Origin(t, d)
    BY DEF InAnyOrder, Origin
  <2>2. Enter(t, "ready") /\ Read(t, InAnyOrder(starts))
    BY <1>4 DEF Ready
  <2> HIDE DEF starts
  <2> QED
    BY <2>1, <2>2, ReadGives
<1>5. ASSUME Redrive(t) PROVE ReadOf(t)
  <2> DEFINE settled == {n \in Nodes : Settled(n)}
  <2>1. PICK turn \in Turns(settled) :
          Read(t, {d \in UNION {OutgoingActions(n, turn[n]) : n \in settled} :
                     d.act.do = "spawn" => ~SpawnSuperfluous(View(log), d.act.node, d.act.iter)})
    BY <1>5 DEF Redrive
  <2> DEFINE all == UNION {OutgoingActions(n, turn[n]) : n \in settled}
             some == {d \in all : d.act.do = "spawn" => ~SpawnSuperfluous(View(log), d.act.node, d.act.iter)}
  <2>2. \A d \in all : Origin(t, d)
    BY DEF Origin
  <2>3. Enter(t, "redrive") /\ Read(t, some) /\ some \subseteq all
    BY <1>5, <2>1 DEF Redrive
  <2> HIDE DEF all, some
  <2> QED
    BY <2>2, <2>3, ReadGives
<1> QED
  BY <1>1, <1>2, <1>3, <1>4, <1>5 DEF Reads

\* A task that fires a member's edges finds it settled.
LEMMA MemberSettled ==
  ASSUME TypeOK, NEW body, Whole(body), LapInv(body), NEW t \in Tasks, t \in Members, task[t] # Idle
  PROVE  Settled(t)
<1>1. TellsLaps(t) /\ t \in Nodes
  BY LoopAssumption DEF LapInv
<1>2. log.nodes[t].st = "completed"
  BY BodyFacts DEF Whole, LapInv, Tails
<1> QED
  BY <1>1, <1>2, LapViews

LEMMA ReadsTasks ==
  ASSUME TypeOK, NEW body, Whole(body), LapInv(body), NEW t \in Tasks, Reads(t)
  PROVE  \A u \in Tasks : Tasked(body, u)
<1>0. Chain(body) /\ \A m \in Members : TellsLaps(m) /\ m \in Nodes
  BY LoopAssumption DEF Whole, LapInv
<1>1. ReadOf(t)
  BY ReadsGive
<1>2. ASSUME NEW d, Origin(t, d) PROVE FitDecision(body, d.act)
  <2>1. ASSUME NEW n, NEW turn, d \in OutgoingActions(n, turn),
               n \in task[t].fires \/ Settled(n) \/ (n = t /\ t \in Nodes)
        PROVE  FitDecision(body, d.act)
    <3>1. n \in Members => Settled(n)
      BY <1>1, <2>1, MemberSettled DEF LapInv, Pending, ReadOf
    <3> QED
      BY <1>0, <2>1, <3>1, OutgoingFits DEF Fits, FitDecision
  <2>2. ASSUME NEW n \in Unreachable, d.act = Skip(n) PROVE FitDecision(body, d.act)
    <3>1. n \notin Members
      BY SureNeverDies DEF Whole, Unreachable
    <3> QED
      BY <2>2, <3>1 DEF Skip, FitDecision
  <2>3. ASSUME NEW n \in ReadyNodes, d.act = Spawn(n, 1) PROVE FitDecision(body, d.act)
    <3>1. ASSUME NEW k \in 2..Len(body), n = body[k] PROVE 1 <= Finished(body[k - 1])
      <4>1. k - 1 \in 1..Len(body)
        BY <1>0, BodyFacts
      <4>2. <<body[k - 1], body[k]>> \in In(n) \ Conditional
        <5>1. /\ In(body[k]) = {<<body[k - 1], body[k]>>}
              /\ <<body[k - 1], body[k]>> \notin Conditional
          BY <1>0 DEF Chain
        <5> QED
          BY <3>1, <5>1
      <4>3. Settled(body[k - 1])
        BY <4>2 DEF ReadyNodes
      <4>4. body[k - 1] \in Nodes /\ TellsLaps(body[k - 1])
        BY <1>0, <4>1, BodyFacts
      <4>5. log.nodes[body[k - 1]].st = "completed"
        BY <4>3, <4>4, LapViews
      <4> QED
        BY <4>4, <4>5, LapNumbers
    <3>2. MayStart(body, n, 1)
      BY <3>1 DEF MayStart
    <3> QED
      BY <2>3, <3>2 DEF Spawn, FitDecision
  <2> QED
    BY <1>2, <2>1, <2>2, <2>3 DEF Origin
<1> QED
  BY <1>1, <1>2 DEF ReadOf, Tasked

(***************************************************************************)
(* The laps of a chain, step by step                                       *)
(***************************************************************************)
\* A step that starts and ends nothing in the region, in numbers.
Quiet == \A m \in Members : log'.nodes[m] = log.nodes[m]

\* What follows of the tasks' decisions when no member has lost a lap.
LEMMA StillPending ==
  ASSUME TypeOK, TypeOK', NEW body, LapInv(body), \A t \in Tasks : Tasked(body, t),
         \A k \in 1..Len(body) : /\ Finished(body[k]) \in Nat /\ Finished(body[k])' \in Nat
                                 /\ Finished(body[k]) <= Finished(body[k])',
         Len(body) \in Nat
  PROVE  Pending(body)'
<1>1. ASSUME NEW n, NEW i \in Nat, MayStart(body, n, i) PROVE MayStart(body, n, i)'
  <2>1. ASSUME n = Entry PROVE i = 1 \/ \A k \in 1..Len(body) : i <= Finished(body[k])' + 1
    BY <1>1, <2>1 DEF MayStart
  <2>2. ASSUME NEW k \in 2..Len(body), n = body[k] PROVE i <= Finished(body[k - 1])'
    <3>1. k - 1 \in 1..Len(body) /\ i <= Finished(body[k - 1])
      BY <1>1, <2>2 DEF MayStart
    <3> QED
      BY <3>1
  <2> QED
    BY <2>1, <2>2 DEF MayStart
<1>2. ASSUME NEW t \in Tasks, NEW d \in task'[t].todo
      PROVE  /\ d.act.do = "spawn" => MayStart(body, d.act.node, d.act.iter)'
             /\ d.act.do = "skip" => d.act.node \notin Members
  <2>1. FitDecision(body, d.act)
    BY <1>2 DEF LapInv, Pending, Tasked, FitDecision
  <2>2. d.act.do = "spawn" => d.act.iter \in Nat
    <3>1. d.act \in Actions
      BY <1>2 DEF TypeOK, Decisions
    <3> QED
      BY <3>1, ActionKinds, IterBounds
  <2> QED
    BY <1>1, <2>1, <2>2 DEF FitDecision
<1>3. ASSUME NEW t \in Tasks PROVE task'[t].fires \cap Members = {}
  BY DEF LapInv, Pending, Tasked
<1> QED
  BY <1>2, <1>3 DEF Pending

\* The laps of a chain lie within one of each other.
LEMMA LapsClose ==
  ASSUME TypeOK, NEW body, Chain(body), LapInv(body), NEW k \in 1..Len(body)
  PROVE  /\ Lap(body[k]) \in Nat /\ Finished(body[k]) \in Nat /\ Lap(Entry) \in Nat
         /\ Lap(body[k]) <= Lap(Entry) /\ Lap(Entry) <= Finished(body[k]) + 1
<1>1. /\ Len(body) \in Nat /\ Len(body) >= 2 /\ body[1] = Entry
      /\ \A j \in 1..Len(body) : body[j] \in Nodes /\ TellsLaps(body[j])
  BY BodyFacts DEF LapInv
<1>2. 1 \in 1..Len(body) /\ (k = 1 \/ 1 < k)
  BY <1>1
<1>3. 1 < k => Lap(body[k]) <= Finished(body[1])
  BY <1>2 DEF LapInv, InOrder
<1>4. Lap(Entry) <= Finished(body[k]) + 1
  BY DEF LapInv, InOrder
<1>5. /\ Lap(body[k]) \in Nat /\ Finished(body[k]) \in Nat
      /\ Lap(Entry) \in Nat /\ Finished(Entry) \in Nat /\ Finished(Entry) <= Lap(Entry)
  BY <1>1, <1>2, LapNumbers
<1> QED
  BY <1>1, <1>2, <1>3, <1>4, <1>5

LEMMA StartIsNext ==
  ASSUME TypeOK, NEW body, Chain(body), LapInv(body), NEW k \in 1..Len(body), NEW i \in Iters,
         MayStart(body, body[k], i), ValidateStart(View(log), body[k], i) = "allow",
         LiveIteration(View(log), body[k]) = {}
  PROVE  /\ i = Lap(body[k]) + 1 /\ log.nodes[body[k]].st # "running"
         /\ \A j \in 1..Len(body) : i <= Finished(body[j]) + 1
<1>0. /\ Len(body) \in Nat /\ body[1] = Entry
      /\ \A j \in 1..Len(body) : body[j] \in Nodes /\ TellsLaps(body[j])
      /\ \A j \in 2..Len(body) : body[j] # Entry
  BY BodyFacts DEF LapInv
<1>1. i \in Nat /\ 1 <= i
  BY IterBounds
<1>2. ASSUME NEW j \in 1..Len(body) PROVE i <= Finished(body[j]) + 1
  <2>0. Finished(body[j]) \in Nat /\ Lap(Entry) <= Finished(body[j]) + 1 /\ Lap(Entry) \in Nat
    BY LapsClose
  <2>1. CASE k = 1
    BY <1>0, <1>1, <2>0, <2>1 DEF MayStart
  <2>2. CASE k # 1
    <3>1. k \in 2..Len(body) /\ k - 1 \in 1..Len(body)
      BY <1>0, <2>2
    <3>2. i <= Finished(body[k - 1])
      BY <3>1 DEF MayStart
    <3>3. Finished(body[k - 1]) <= Lap(body[k - 1])
      BY <1>0, <3>1, LapNumbers
    <3>4. Lap(body[k - 1]) <= Lap(Entry) /\ Lap(body[k - 1]) \in Nat /\ Finished(body[k - 1]) \in Nat
      BY <3>1, LapsClose
    <3> QED
      BY <1>1, <2>0, <3>2, <3>3, <3>4
  <2> QED
    BY <2>1, <2>2
<1>3. log.nodes[body[k]].st # "running"
  BY <1>0, LapViews
<1>4. Finished(body[k]) = Lap(body[k]) /\ Lap(body[k]) \in Nat
  BY <1>0, <1>3, LapNumbers DEF Finished
<1>5. log.nodes[body[k]].row[i] # "completed"
  BY <1>0, ViewKeeps DEF ValidateStart, SettledComplete, TypeOK
<1>6. ~(i <= Lap(body[k]))
  BY <1>0, <1>4, <1>5, LapNumbers
<1> QED
  BY <1>1, <1>2, <1>3, <1>4, <1>6

\* What WholeLaps says of a step.
WholeStep ==
  \A m \in Members, i \in Iters :
    log.nodes[m].row[i] = "none" /\ log'.nodes[m].row[i] # "none" =>
      /\ i > 1 => \A other \in Members : SettledComplete(log.nodes[other].row[i - 1])
      /\ \A e \in In(m) : e[1] \in Members /\ ~IsBack(e) =>
           SettledComplete(log.nodes[e[1]].row[i])

LEMMA QuietLaps ==
  ASSUME TypeOK, TypeOK', NEW body, Whole(body), LapInv(body), Quiet,
         \A t \in Tasks : Tasked(body, t)
  PROVE  LapInv(body)' /\ WholeStep
<1>0. /\ Len(body) \in Nat /\ Len(body) >= 2 /\ body[1] = Entry
      /\ \A k \in 1..Len(body) : body[k] \in Nodes /\ body[k] \in Members /\ body[k] \in Tasks
  BY BodyFacts DEF Whole
<1>1. \A m \in Members : log'.nodes[m] = log.nodes[m] /\ Lap(m)' = Lap(m) /\ Finished(m)' = Finished(m)
  BY DEF Quiet, Lap, Finished
<1>2. \A m \in Members : TellsLaps(m)'
  BY <1>1 DEF LapInv, TellsLaps
<1>3. InOrder(body)'
  BY <1>0, <1>1 DEF LapInv, InOrder
<1>4. \A k \in 1..Len(body) : Finished(body[k]) \in Nat
  BY LapsClose DEF Whole
<1>5. Pending(body)'
  BY <1>0, <1>1, <1>4, StillPending
<1>6. Tails(body)'
  <2> SUFFICES ASSUME NEW k \in 1..Len(body), task'[body[k]] # Idle
               PROVE  /\ log'.nodes[body[k]].st = "completed"
                      /\ k = 1 => Finished(body[Len(body)])' < Lap(Entry)'
                      /\ k > 1 => Finished(body[k - 1])' <= Lap(body[k])'
    BY DEF Tails
  <2>1. task[body[k]] # Idle
    BY <1>0 DEF Tasked
  <2>2. /\ log.nodes[body[k]].st = "completed"
        /\ k = 1 => Finished(body[Len(body)]) < Lap(Entry)
        /\ k > 1 => Finished(body[k - 1]) <= Lap(body[k])
    BY <2>1 DEF LapInv, Tails
  <2>3. Len(body) \in 1..Len(body) /\ 1 \in 1..Len(body) /\ (k > 1 => k - 1 \in 1..Len(body))
    BY <1>0
  <2> QED
    BY <1>0, <1>1, <2>2, <2>3
<1>7. WholeStep
  BY <1>1 DEF WholeStep
<1> QED
  BY <1>2, <1>3, <1>5, <1>6, <1>7 DEF LapInv

\* A member starts its next lap.
LEMMA StartLaps ==
  ASSUME TypeOK, TypeOK', NEW body, Whole(body), LapInv(body), NEW n \in Members, NEW i \in Iters,
         MayStart(body, n, i), ValidateStart(View(log), n, i) = "allow",
         LiveIteration(View(log), n) = {}, log' = NodeStarted(log, n, i),
         \A t \in Tasks : Tasked(body, t)
  PROVE  LapInv(body)' /\ WholeStep
<1> DEFINE N == Len(body)
<1>0. /\ N \in Nat /\ N >= 2 /\ body[1] = Entry /\ n \in Nodes /\ Chain(body)
      /\ \A k \in 1..N : body[k] \in Nodes /\ body[k] \in Members /\ body[k] \in Tasks /\ TellsLaps(body[k])
      /\ \A k \in 2..N : body[k] # Entry
      /\ 1 \in 1..N /\ N \in 1..N
  BY BodyFacts, LoopAssumption DEF Whole, LapInv
<1>1. PICK k \in 1..N : n = body[k]
  BY <1>0 DEF Chain
<1>2. /\ i = Lap(n) + 1 /\ log.nodes[n].st # "running"
      /\ \A j \in 1..N : i <= Finished(body[j]) + 1
  BY <1>0, <1>1, StartIsNext
<1>3. /\ OnlyNode(log, log', n) /\ log'.nodes[n].st = "running" /\ log'.nodes[n].iter = i
      /\ log'.nodes[n].row[i] = "running" /\ RowsBut(log'.nodes[n], log.nodes[n], i)
  <2>1. n \in Nodes /\ log \in Runs
    BY <1>0 DEF TypeOK
  <2> QED
    BY <2>1, StartedStep
<1>4. \A j \in 1..N : /\ Finished(body[j]) \in Nat /\ Lap(body[j]) \in Nat
                      /\ Finished(body[j]) <= Lap(body[j])
                      /\ body[j] # n => /\ log'.nodes[body[j]] = log.nodes[body[j]]
                                        /\ Lap(body[j])' = Lap(body[j]) /\ Finished(body[j])' = Finished(body[j])
  <2> SUFFICES ASSUME NEW j \in 1..N
               PROVE  /\ Finished(body[j]) \in Nat /\ Lap(body[j]) \in Nat
                      /\ Finished(body[j]) <= Lap(body[j])
                      /\ body[j] # n => /\ log'.nodes[body[j]] = log.nodes[body[j]]
                                        /\ Lap(body[j])' = Lap(body[j]) /\ Finished(body[j])' = Finished(body[j])
    OBVIOUS
  <2>1. body[j] \in Nodes /\ TellsLaps(body[j])
    BY <1>0
  <2>2. body[j] # n => log'.nodes[body[j]] = log.nodes[body[j]]
    BY <1>3, <2>1 DEF OnlyNode
  <2> QED
    BY <2>1, <2>2, LapNumbers DEF Lap, Finished
<1>5. /\ Finished(n) = Lap(n) /\ Lap(n) \in Nat /\ Lap(n)' = i
      /\ Finished(n)' = i - 1 /\ Finished(n)' = Finished(n) /\ i \in Nat /\ 1 <= i
  <2>1. Lap(n) \in Nat /\ Lap(n)' = i /\ i \in Nat /\ 1 <= i
    BY <1>1, <1>3, <1>4, IterBounds DEF Lap
  <2>2. Finished(n) = Lap(n) /\ Finished(n)' = Lap(n)' - 1
    BY <1>2, <1>3 DEF Finished
  <2> QED
    BY <1>2, <2>1, <2>2
<1>6. \A j \in 1..N : Finished(body[j])' = Finished(body[j])
  BY <1>4, <1>5
<1>7. \A m \in Members : TellsLaps(m)'
  <2>1. ASSUME NEW m \in Members, m # n PROVE TellsLaps(m)'
    <3>1. log'.nodes[m] = log.nodes[m] /\ Lap(m)' = Lap(m)
      BY <1>3, <2>1, LoopAssumption DEF OnlyNode, Lap
    <3> QED
      BY <3>1 DEF LapInv, TellsLaps
  <2>2. TellsLaps(n)'
    <3>1. TellsLaps(n) /\ log.nodes[n].st # "running"
      BY <1>2 DEF LapInv
    <3>2. ASSUME NEW j \in Iters
          PROVE  /\ j < i => log'.nodes[n].row[j] = "completed"
                 /\ j = i => log'.nodes[n].row[j] = "running"
                 /\ j > i => log'.nodes[n].row[j] = "none"
      <4>1. j \in Nat
        BY IterBounds
      <4>2. j # i => log'.nodes[n].row[j] = log.nodes[n].row[j]
        BY <1>3 DEF RowsBut
      <4>3. j < i => log.nodes[n].row[j] = "completed"
        <5>1. j < i => j <= Finished(n)
          BY <1>2, <1>5, <4>1
        <5> QED
          BY <1>0, <3>1, <5>1, LapNumbers
      <4>4. j > i => log.nodes[n].row[j] = "none"
        BY <1>2, <1>5, <3>1, <4>1 DEF TellsLaps
      <4> QED
        BY <1>3, <1>5, <4>1, <4>2, <4>3, <4>4
    <3> QED
      BY <1>3, <1>5, <3>2 DEF TellsLaps
  <2> QED
    BY <2>1, <2>2
<1>8. InOrder(body)'
  <2>1. ASSUME NEW j \in 1..N, NEW l \in 1..N, j < l PROVE Lap(body[l])' <= Finished(body[j])'
    <3>1. CASE l # k
      <4>1. body[l] # n
        BY <1>0, <1>1, <3>1 DEF Chain
      <4> QED
        BY <1>4, <1>6, <2>1, <4>1 DEF LapInv, InOrder
    <3>2. CASE l = k
      <4>1. k \in 2..N /\ k - 1 \in 1..N
        BY <1>0, <2>1, <3>2
      <4>2. i <= Finished(body[k - 1])
        BY <1>1, <4>1 DEF MayStart
      <4>3. CASE j = k - 1
        BY <1>1, <1>5, <1>6, <3>2, <4>2, <4>3
      <4>4. CASE j # k - 1
        <5>1. j < k - 1
          BY <2>1, <3>2, <4>1, <4>4
        <5>2. Lap(body[k - 1]) <= Finished(body[j])
          BY <4>1, <5>1 DEF LapInv, InOrder
        <5>3. i <= Finished(body[j])
          <6>1. /\ Finished(body[k - 1]) \in Nat /\ Lap(body[k - 1]) \in Nat
                /\ Finished(body[k - 1]) <= Lap(body[k - 1]) /\ Finished(body[j]) \in Nat
            BY <1>4, <4>1
          <6> QED
            BY <1>5, <4>2, <5>2, <6>1
        <5> QED
          BY <1>1, <1>5, <1>6, <3>2, <5>3
      <4> QED
        BY <4>3, <4>4
    <3> QED
      BY <3>1, <3>2
  <2>2. ASSUME NEW j \in 1..N PROVE Lap(Entry)' <= Finished(body[j])' + 1
    <3>1. CASE k = 1
      BY <1>0, <1>1, <1>2, <1>5, <1>6, <3>1
    <3>2. CASE k # 1
      <4>1. Entry # n
        BY <1>0, <1>1, <3>2
      <4>2. Lap(Entry)' = Lap(Entry) /\ Lap(Entry) <= Finished(body[j]) + 1
        BY <1>0, <1>4, <4>1 DEF LapInv, InOrder
      <4> QED
        BY <1>6, <4>2
    <3> QED
      BY <3>1, <3>2
  <2> QED
    BY <2>1, <2>2 DEF InOrder
<1>9. Pending(body)'
  <2>1. \A j \in 1..N : /\ Finished(body[j]) \in Nat /\ Finished(body[j])' \in Nat
                        /\ Finished(body[j]) <= Finished(body[j])'
    BY <1>4, <1>6
  <2> QED
    BY <1>0, <2>1, StillPending
<1>10. Tails(body)'
  <2> SUFFICES ASSUME NEW j \in 1..N, task'[body[j]] # Idle
               PROVE  /\ log'.nodes[body[j]].st = "completed"
                      /\ j = 1 => Finished(body[N])' < Lap(Entry)'
                      /\ j > 1 => Finished(body[j - 1])' <= Lap(body[j])'
    BY DEF Tails
  <2>1. task[body[j]] # Idle
    BY <1>0 DEF Tasked
  <2>2. /\ log.nodes[body[j]].st = "completed"
        /\ j = 1 => Finished(body[N]) < Lap(Entry)
        /\ j > 1 => Finished(body[j - 1]) <= Lap(body[j])
    BY <2>1 DEF LapInv, Tails
  <2>3. j # k
    <3>1. ASSUME j = k, k = 1 PROVE FALSE
      <4>1. Finished(body[N]) < Lap(n) /\ i <= Finished(body[N]) + 1
        BY <1>0, <1>1, <1>2, <2>2, <3>1
      <4>2. Finished(body[N]) \in Nat
        BY <1>0, <1>4
      <4> QED
        BY <1>2, <1>5, <4>1, <4>2
    <3>2. ASSUME j = k, k # 1 PROVE FALSE
      <4>1. k \in 2..N /\ k - 1 \in 1..N
        BY <1>0, <3>2
      <4>2. i <= Finished(body[k - 1]) /\ Finished(body[k - 1]) <= Lap(n)
        <5>1. i <= Finished(body[k - 1])
          BY <1>1, <4>1 DEF MayStart
        <5> QED
          BY <1>1, <2>2, <3>2, <4>1, <5>1
      <4>3. Finished(body[k - 1]) \in Nat
        BY <1>4, <4>1
      <4> QED
        BY <1>2, <1>5, <4>2, <4>3
    <3> QED
      BY <3>1, <3>2
  <2>4. body[j] # n
    BY <1>0, <1>1, <2>3 DEF Chain
  <2>5. j > 1 => j - 1 \in 1..N
    BY <1>0
  <2> QED
    BY <1>0, <1>4, <1>6, <2>2, <2>4, <2>5
<1>11. WholeStep
  <2> SUFFICES ASSUME NEW m \in Members, NEW j \in Iters,
                      log.nodes[m].row[j] = "none", log'.nodes[m].row[j] # "none"
               PROVE  /\ j > 1 => \A other \in Members : SettledComplete(log.nodes[other].row[j - 1])
                      /\ \A e \in In(m) : e[1] \in Members /\ ~IsBack(e) =>
                           SettledComplete(log.nodes[e[1]].row[j])
    BY DEF WholeStep
  <2>1. m = n /\ j = i
    BY <1>3, LoopAssumption DEF OnlyNode, RowsBut
  <2>2. ASSUME NEW other \in Members, j > 1 PROVE SettledComplete(log.nodes[other].row[j - 1])
    <3>1. PICK l \in 1..N : other = body[l]
      BY BodyFacts DEF Whole
    <3>2. i - 1 \in Iters /\ i - 1 <= Finished(body[l])
      <4>1. Finished(body[l]) \in Nat /\ i <= Finished(body[l]) + 1
        BY <1>2, <1>4
      <4> QED
        BY <1>5, <2>1, <2>2, <4>1, IterBounds
    <3> QED
      BY <1>0, <2>1, <3>1, <3>2, LapNumbers DEF SettledComplete
  <2>3. ASSUME NEW e \in In(m), e[1] \in Members, ~IsBack(e) PROVE SettledComplete(log.nodes[e[1]].row[j])
    <3>1. n # Entry
      BY <2>1, <2>3 DEF In, IsBack
    <3>2. k \in 2..N /\ k - 1 \in 1..N
      BY <1>0, <1>1, <3>1
    <3>3. In(body[k]) = {<<body[k - 1], body[k]>>} /\ i <= Finished(body[k - 1])
      BY <1>0, <1>1, <3>2 DEF Chain, MayStart
    <3>4. e[1] = body[k - 1]
      BY <1>1, <2>1, <3>3
    <3> QED
      BY <1>0, <2>1, <3>2, <3>3, <3>4, LapNumbers DEF SettledComplete
  <2> QED
    BY <2>2, <2>3
<1> QED
  BY <1>7, <1>8, <1>9, <1>10, <1>11 DEF LapInv

\* A completion leaves every task but the node's own idle, and that one to
\* begin its tail.
LEMMA CompleteTasks ==
  ASSUME TypeOK, Prompt, NEW n \in Nodes, CompleteNode(n)
  PROVE  \A t \in Tasks : /\ task'[t].todo = {} /\ task'[t].fires = {}
                          /\ t # n => task'[t] = Idle
<1>1. PICK order \in {CompletionFirst, SweepFirst} : task' = [task EXCEPT ![n] = Begin(order)]
  BY DEF CompleteNode
<1>2. \A t \in Tasks : task[t] = Idle
  BY DEF CompleteNode
<1>3. Begin(order).todo = {} /\ Begin(order).fires = {} /\ Idle.todo = {} /\ Idle.fires = {}
  BY DEF Begin, Idle
<1>4. \A t \in Tasks : task'[t] = IF t = n THEN Begin(order) ELSE Idle
  BY <1>1, <1>2 DEF TypeOK
<1> QED
  BY <1>3, <1>4

\* A member finishes its lap.
LEMMA CompleteLaps ==
  ASSUME TypeOK, TypeOK', Prompt, NEW body, Whole(body), LapInv(body), NEW n \in Members, CompleteNode(n)
  PROVE  LapInv(body)' /\ WholeStep
<1> DEFINE N == Len(body)
<1>0. /\ N \in Nat /\ N >= 2 /\ body[1] = Entry /\ n \in Nodes /\ Chain(body)
      /\ \A k \in 1..N : body[k] \in Nodes /\ body[k] \in Members /\ body[k] \in Tasks /\ TellsLaps(body[k])
      /\ 1 \in 1..N /\ N \in 1..N
  BY BodyFacts, LoopAssumption DEF Whole, LapInv
<1>1. PICK k \in 1..N : n = body[k]
  BY <1>0 DEF Chain
<1>2. PICK i \in LiveIteration(View(log), n) : log' = NodeCompleted(log, n, i)
  BY DEF CompleteNode
<1>3. i = Lap(n) /\ log.nodes[n].st = "running"
  BY <1>0, <1>1, <1>2, LapViews
<1>4. Lap(n) \in Iters /\ Lap(n) \in Nat /\ Finished(n) = Lap(n) - 1
  <2>1. n \in Nodes /\ TellsLaps(n)
    BY <1>0, <1>1
  <2>2. Lap(n) \in Nat /\ Lap(n) <= MaxIter
    BY <2>1, LapNumbers
  <2>3. 1 <= Lap(n)
    BY <1>3, <2>1, <2>2 DEF TellsLaps
  <2> QED
    BY <1>3, <2>2, <2>3, IterBounds DEF Finished
<1>5. /\ OnlyNode(log, log', n) /\ log'.nodes[n].st = "completed" /\ Lap(n)' = Lap(n)
      /\ RowSet(log'.nodes[n], log.nodes[n], i, "completed")
  BY <1>0, <1>2, <1>3, <1>4, CompletedStep DEF TypeOK, Present, Lap
<1>6. Finished(n)' = Lap(n)
  BY <1>5 DEF Finished
<1>7. \A j \in 1..N : /\ Finished(body[j]) \in Nat /\ Lap(body[j]) \in Nat /\ Lap(body[j])' = Lap(body[j])
                      /\ body[j] # n => /\ log'.nodes[body[j]] = log.nodes[body[j]]
                                        /\ Finished(body[j])' = Finished(body[j])
  BY <1>0, <1>5, LapNumbers DEF OnlyNode, Lap, Finished
<1>8. \A j \in 1..N : Finished(body[j])' \in Nat /\ Finished(body[j]) <= Finished(body[j])'
  <2> SUFFICES ASSUME NEW j \in 1..N PROVE Finished(body[j])' \in Nat /\ Finished(body[j]) <= Finished(body[j])'
    OBVIOUS
  <2>1. CASE body[j] = n
    BY <1>4, <1>6, <2>1
  <2>2. CASE body[j] # n
    <3>1. Finished(body[j])' = Finished(body[j]) /\ Finished(body[j]) \in Nat
      BY <1>7, <2>2
    <3> QED
      BY <3>1
  <2> QED
    BY <2>1, <2>2
<1>9. \A m \in Members : TellsLaps(m)'
  <2>1. ASSUME NEW m \in Members, m # n PROVE TellsLaps(m)'
    <3>1. log'.nodes[m] = log.nodes[m] /\ Lap(m)' = Lap(m)
      BY <1>5, <2>1, LoopAssumption DEF OnlyNode, Lap
    <3> QED
      BY <3>1 DEF LapInv, TellsLaps
  <2>2. TellsLaps(n)'
    <3>1. TellsLaps(n)
      BY DEF LapInv
    <3>2. \A j \in Iters : log'.nodes[n].row[j] = IF j = Lap(n) THEN "completed" ELSE log.nodes[n].row[j]
      BY <1>3, <1>4, <1>5, <3>1 DEF RowSet, RowsBut, TellsLaps
    <3>3. Lap(n) # 0
      BY <1>4, IterBounds
    <3>4. \A j \in Iters : /\ j < Lap(n) => log'.nodes[n].row[j] = "completed"
                           /\ j = Lap(n) => log'.nodes[n].row[j] = "completed"
                           /\ j > Lap(n) => log'.nodes[n].row[j] = "none"
      BY <1>4, <3>1, <3>2, IterBounds DEF TellsLaps
    <3> QED
      BY <1>5, <3>3, <3>4 DEF TellsLaps
  <2> QED
    BY <2>1, <2>2
<1>10. InOrder(body)'
  <2>1. ASSUME NEW j \in 1..N, NEW l \in 1..N, j < l PROVE Lap(body[l])' <= Finished(body[j])'
    <3>1. Lap(body[l]) <= Finished(body[j])
      BY <2>1 DEF LapInv, InOrder
    <3>2. Lap(body[l]) \in Nat /\ Finished(body[j]) \in Nat /\ Lap(body[l])' = Lap(body[l])
      BY <1>7
    <3>3. Finished(body[j])' \in Nat /\ Finished(body[j]) <= Finished(body[j])'
      BY <1>8
    <3> QED
      BY <3>1, <3>2, <3>3
  <2>2. ASSUME NEW j \in 1..N PROVE Lap(Entry)' <= Finished(body[j])' + 1
    <3>1. Lap(Entry) <= Finished(body[j]) + 1
      BY DEF LapInv, InOrder
    <3>2. Lap(Entry) \in Nat /\ Lap(Entry)' = Lap(Entry) /\ Finished(body[j]) \in Nat
      BY <1>0, <1>7
    <3>3. Finished(body[j])' \in Nat /\ Finished(body[j]) <= Finished(body[j])'
      BY <1>8
    <3> QED
      BY <3>1, <3>2, <3>3
  <2> QED
    BY <2>1, <2>2 DEF InOrder
<1>11. Pending(body)'
  BY <1>0, CompleteTasks DEF Pending
<1>12. Tails(body)'
  <2> SUFFICES ASSUME NEW j \in 1..N, task'[body[j]] # Idle
               PROVE  /\ log'.nodes[body[j]].st = "completed"
                      /\ j = 1 => Finished(body[N])' < Lap(Entry)'
                      /\ j > 1 => Finished(body[j - 1])' <= Lap(body[j])'
    BY DEF Tails
  <2>1. body[j] = n
    BY <1>0, CompleteTasks
  <2>2. \A l \in 1..N : l # j => body[l] # n
    BY <1>0, <2>1 DEF Chain
  <2>3. ASSUME j = 1 PROVE Finished(body[N])' < Lap(Entry)'
    <3>1. Finished(body[N])' = Finished(body[N]) /\ Finished(body[N]) \in Nat /\ Lap(body[N]) \in Nat
      BY <1>0, <1>7, <2>2, <2>3
    <3>2. Finished(body[N]) <= Lap(body[N])
      BY <1>0, LapNumbers
    <3>3. Lap(body[N]) <= Finished(n)
      BY <1>0, <2>1, <2>3 DEF LapInv, InOrder
    <3> QED
      BY <1>0, <1>4, <1>5, <2>1, <2>3, <3>1, <3>2, <3>3
  <2>4. ASSUME j > 1 PROVE Finished(body[j - 1])' <= Lap(body[j])'
    <3>1. j - 1 \in 1..N /\ j - 1 # j
      BY <1>0, <2>4
    <3>2. Finished(body[j - 1])' = Finished(body[j - 1])
      BY <1>7, <2>2, <3>1
    <3>3. Finished(body[j - 1]) <= Lap(body[j - 1])
      BY <1>0, <3>1, LapNumbers
    <3>4. Lap(body[j - 1]) <= Lap(Entry) /\ Lap(body[j - 1]) \in Nat /\ Finished(body[j - 1]) \in Nat
      BY <1>0, <3>1, LapsClose
    <3>5. Lap(Entry) <= Finished(n) + 1 /\ Lap(Entry) \in Nat
      BY <1>0, <2>1, LapsClose
    <3> QED
      BY <1>4, <1>5, <2>1, <3>2, <3>3, <3>4, <3>5
  <2> QED
    BY <1>5, <2>1, <2>3, <2>4
<1>13. WholeStep
  <2>1. ASSUME NEW m \in Members, NEW j \in Iters, log.nodes[m].row[j] = "none"
        PROVE  log'.nodes[m].row[j] = "none"
    BY <1>5, <2>1, LoopAssumption DEF OnlyNode, RowSet, RowsBut
  <2> QED
    BY <2>1 DEF WholeStep
<1> QED
  BY <1>9, <1>10, <1>11, <1>12, <1>13 DEF LapInv

\* A node outside the region completes.
LEMMA CompleteOutside ==
  ASSUME TypeOK, TypeOK', NoneWaiting, Prompt, NEW body, Whole(body), LapInv(body),
         NEW n \in Nodes \ Members, CompleteNode(n)
  PROVE  LapInv(body)' /\ WholeStep
<1>1. PICK i \in LiveIteration(View(log), n) : log' = NodeCompleted(log, n, i)
  BY DEF CompleteNode
<1>2. i \in Iters /\ log.nodes[n].row[i] # "none" /\ log \in Runs
  BY LiveIters DEF TypeOK
<1>3. Quiet
  <2>1. CASE Present(log, n)
    <3>1. OnlyNode(log, log', n)
      BY <1>1, <1>2, <2>1, CompletedStep
    <3> QED
      BY <3>1, LoopAssumption DEF OnlyNode, Quiet
  <2>2. CASE ~Present(log, n)
    BY <1>1, <2>2 DEF NodeCompleted, Quiet
  <2> QED
    BY <2>1, <2>2
<1>4. \A m \in Members : m # n
  OBVIOUS
<1>5. /\ Len(body) \in Nat /\ Len(body) >= 2 /\ body[1] = Entry
      /\ \A k \in 1..Len(body) : body[k] \in Nodes /\ body[k] \in Members /\ body[k] \in Tasks
  BY BodyFacts DEF Whole
<1>6. \A t \in Tasks : task[t] = Idle
  BY DEF CompleteNode
<1>7. \A t \in Tasks : task'[t].todo = {} /\ task'[t].fires = {} /\ (t # n => task'[t] = Idle)
  BY CompleteTasks
<1>8. Pending(body)'
  BY <1>7 DEF Pending
<1>9. Tails(body)'
  BY <1>4, <1>5, <1>7 DEF Tails
<1>10. \A m \in Members : log'.nodes[m] = log.nodes[m] /\ Lap(m)' = Lap(m) /\ Finished(m)' = Finished(m)
  BY <1>3 DEF Quiet, Lap, Finished
<1>11. (\A m \in Members : TellsLaps(m)') /\ InOrder(body)'
  BY <1>5, <1>10 DEF LapInv, TellsLaps, InOrder
<1>12. WholeStep
  BY <1>10 DEF WholeStep
<1> QED
  BY <1>8, <1>9, <1>11, <1>12 DEF LapInv

\* What a task carries out starts a member's lap or nothing of the region.
LEMMA PerformLog ==
  ASSUME TypeOK, NEW body, LapInv(body), NEW t \in Tasks, Perform(t)
  PROVE  \/ Quiet
         \/ \E d \in task[t].todo :
              /\ d.act.do = "spawn" /\ d.act.node \in Members /\ d.act.iter \in Iters
              /\ ValidateStart(View(log), d.act.node, d.act.iter) = "allow"
              /\ LiveIteration(View(log), d.act.node) = {}
              /\ log' = NodeStarted(log, d.act.node, d.act.iter)
<1>0. log \in Runs /\ Members \subseteq Nodes
  BY LoopAssumption DEF TypeOK
<1>1. PICK d \in task[t].todo :
        CASE d.act.do = "spawn" -> DoSpawn(d.act.node, d.act.iter)
          [] d.act.do = "lap" -> DoLap(d.act.iter)
          [] d.act.do = "complete" -> DoComplete
          [] d.act.do = "park" -> DoPark(d.act.code)
          [] d.act.do = "skip" -> DoSkip(d.act.node)
          [] d.act.do = "resume_run" -> DoResume
          [] OTHER -> DoCommand(d.act)
  BY DEF Perform
<1>2. d.act \in Actions
  BY DEF TypeOK, Decisions
<1>3. CASE d.act.do = "spawn"
  <2>1. d.act.node \in Nodes /\ d.act.iter \in Iters /\ DoSpawn(d.act.node, d.act.iter)
    BY <1>1, <1>2, <1>3, ActionKinds
  <2>2. CASE log' = log
    BY <2>2 DEF Quiet
  <2>3. CASE log' # log /\ d.act.node \in Members
    BY <1>3, <2>1, <2>3 DEF DoSpawn
  <2>4. CASE log' # log /\ d.act.node \notin Members
    <3>1. OnlyNode(log, log', d.act.node)
      BY <1>0, <2>1, <2>4, StartedStep DEF DoSpawn
    <3> QED
      BY <1>0, <2>4, <3>1 DEF OnlyNode, Quiet
  <2> QED
    BY <2>2, <2>3, <2>4
<1>4. CASE d.act.do \in {"complete", "park"}
  <2>1. DoComplete \/ DoPark(d.act.code)
    BY <1>1, <1>4
  <2>2. log' \in {RunCompleted(log), RunInterrupted(log)}
    BY <2>1 DEF DoComplete, DoPark
  <2>3. log'.nodes = log.nodes
    BY <1>0, <2>2, RunEventStep
  <2> QED
    BY <2>3 DEF Quiet
<1>5. CASE d.act.do = "skip"
  <2>1. d.act.node \in Nodes /\ DoSkip(d.act.node) /\ 1 \in Iters
    BY <1>1, <1>2, <1>5, ActionKinds, IterBounds
  <2>2. d.act.node \notin Members
    BY <1>5 DEF LapInv, Pending
  <2>3. log' = log \/ log' = NodeSkipped(log, d.act.node, 1)
    BY <2>1 DEF DoSkip
  <2>4. CASE log' = NodeSkipped(log, d.act.node, 1) /\ Present(log, d.act.node)
    <3>1. OnlyNode(log, log', d.act.node)
      BY <1>0, <2>1, <2>4, CompletedStep DEF NodeSkipped
    <3> QED
      BY <1>0, <2>2, <3>1 DEF OnlyNode, Quiet
  <2>5. CASE log' = NodeSkipped(log, d.act.node, 1) /\ ~Present(log, d.act.node)
    <3>1. OnlyNode(log, log', d.act.node)
      BY <1>0, <2>1, <2>5, SkippedStep
    <3> QED
      BY <1>0, <2>2, <3>1 DEF OnlyNode, Quiet
  <2> QED
    BY <2>3, <2>4, <2>5 DEF Quiet
<1>6. CASE d.act.do = "resume_run"
  <2>1. log' = RunReopened(log)
    BY <1>1, <1>6 DEF DoResume
  <2>2. \A m \in Members : log.nodes[m].st # "interrupted"
    BY DEF LapInv, TellsLaps
  <2> QED
    BY <1>0, <2>1, <2>2 DEF RunReopened, Quiet
<1>7. CASE d.act.do \notin {"spawn", "complete", "park", "skip", "resume_run"}
  <2>1. log' = log
    BY <1>1, <1>7 DEF DoLap, DoCommand
  <2> QED
    BY <2>1 DEF Quiet
<1> QED
  BY <1>3, <1>4, <1>5, <1>6, <1>7

LEMMA LapStep ==
  ASSUME TypeOK, NoneWaiting, Prompt, NEW body, Whole(body), LapInv(body), [Next]_vars
  PROVE  LapInv(body)' /\ WholeStep
<1>0. TypeOK'
  BY StepSees DEF Sees
<1>1. ASSUME NEW t \in Tasks, Perform(t) PROVE LapInv(body)' /\ WholeStep
  <2>1. \A u \in Tasks : Tasked(body, u)
    BY <1>1, PerformTasks
  <2>2. CASE Quiet
    BY <1>0, <2>1, <2>2, QuietLaps
  <2>3. ASSUME NEW d \in task[t].todo,
               d.act.do = "spawn", d.act.node \in Members, d.act.iter \in Iters,
               ValidateStart(View(log), d.act.node, d.act.iter) = "allow",
               LiveIteration(View(log), d.act.node) = {},
               log' = NodeStarted(log, d.act.node, d.act.iter)
        PROVE  LapInv(body)' /\ WholeStep
    <3>1. MayStart(body, d.act.node, d.act.iter)
      BY <2>3 DEF LapInv, Pending
    <3> QED
      BY <1>0, <2>1, <2>3, <3>1, StartLaps
  <2> QED
    BY <1>1, <2>2, <2>3, PerformLog
<1>2. ASSUME NEW t \in Tasks, Reads(t) PROVE LapInv(body)' /\ WholeStep
  <2>1. \A u \in Tasks : Tasked(body, u)
    BY <1>2, ReadsTasks
  <2>2. Quiet
    BY <1>2, ReadsDecide DEF Quiet
  <2> QED
    BY <1>0, <2>1, <2>2, QuietLaps
<1>3. ASSUME NEW n \in Nodes, CompleteNode(n) PROVE LapInv(body)' /\ WholeStep
  BY <1>0, <1>3, CompleteLaps, CompleteOutside
<1>4. ASSUME NEW x \in Commands, Command(x) PROVE LapInv(body)' /\ WholeStep
  <2>1. Quiet
    BY <1>4 DEF Command, Quiet
  <2>2. ASSUME NEW t \in Tasks, t # Operator PROVE task'[t] = task[t]
    BY <1>4, <2>2 DEF Command, TypeOK
  <2>3. /\ \A d \in task'[Operator].todo : d.act = x \/ d.act = Resume
        /\ task'[Operator].fires = {}
    <3>1. Operator \in Tasks
      BY DEF Tasks
    <3> QED
      BY <1>4, <3>1 DEF Command, TypeOK, Begin, Idle
  <2>4. \A d \in task'[Operator].todo : FitDecision(body, d.act)
    BY <2>3, CommandKinds DEF FitDecision, Resume
  <2>5. LapInv(body)' /\ WholeStep
    <3>1. \A k \in 1..Len(body) : body[k] \in Nodes /\ body[k] \in Members /\ body[k] \in Tasks
      BY BodyFacts DEF Whole
    <3>2. \A k \in 1..Len(body) : body[k] # Operator
      BY <3>1, LoopAssumption
    <3>3. \A t \in Tasks : t # Operator => Tasked(body, t)
      BY <2>2 DEF Tasked
    <3>4. /\ Len(body) \in Nat /\ Len(body) >= 2 /\ body[1] = Entry
          /\ Len(body) \in 1..Len(body) /\ 1 \in 1..Len(body)
      BY BodyFacts DEF Whole
    <3>5. \A m \in Members : log'.nodes[m] = log.nodes[m] /\ Lap(m)' = Lap(m) /\ Finished(m)' = Finished(m)
      BY <2>1 DEF Quiet, Lap, Finished
    <3>6. (\A m \in Members : TellsLaps(m)') /\ InOrder(body)'
      BY <3>1, <3>4, <3>5 DEF LapInv, TellsLaps, InOrder
    <3>7. Tails(body)'
      <4> SUFFICES ASSUME NEW k \in 1..Len(body), task'[body[k]] # Idle
                   PROVE  /\ log'.nodes[body[k]].st = "completed"
                          /\ k = 1 => Finished(body[Len(body)])' < Lap(Entry)'
                          /\ k > 1 => Finished(body[k - 1])' <= Lap(body[k])'
        BY DEF Tails
      <4>1. task[body[k]] # Idle
        BY <2>2, <3>1, <3>2
      <4>2. k > 1 => k - 1 \in 1..Len(body)
        BY <3>4
      <4> QED
        BY <3>1, <3>4, <3>5, <4>1, <4>2 DEF LapInv, Tails
    <3>8. \A n, i : MayStart(body, n, i)' <=> MayStart(body, n, i)
      <4>1. \A k \in 2..Len(body) : k - 1 \in 1..Len(body)
        BY <3>4
      <4> QED
        BY <3>1, <3>5, <4>1 DEF MayStart
    <3>9. Pending(body)'
      <4>1. ASSUME NEW t \in Tasks, NEW d \in task'[t].todo
            PROVE  FitDecision(body, d.act) /\ task'[t].fires \cap Members = {}
        BY <2>2, <2>3, <2>4 DEF LapInv, Pending, FitDecision
      <4>2. \A t \in Tasks : task'[t].fires \cap Members = {}
        BY <2>2, <2>3 DEF LapInv, Pending
      <4> QED
        BY <3>8, <4>1, <4>2 DEF Pending, FitDecision
    <3>10. WholeStep
      BY <3>5 DEF WholeStep
    <3> QED
      BY <3>6, <3>7, <3>9, <3>10 DEF LapInv
  <2> QED
    BY <2>5
<1>5. CASE UNCHANGED vars
  <2>1. Quiet /\ \A u \in Tasks : Tasked(body, u)
    BY <1>5 DEF vars, Quiet, Tasked
  <2> QED
    BY <1>0, <2>1, QuietLaps
<1> QED
  BY <1>1, <1>2, <1>3, <1>4, <1>5, TaskStepIs DEF Next

LEMMA LapInit ==
  ASSUME NEW body, Whole(body), Init
  PROVE  LapInv(body)
<1>1. /\ Len(body) \in Nat
      /\ \A k \in 1..Len(body) : body[k] \in Members /\ body[k] \in Nodes /\ body[k] \in Tasks /\ body[k] # Launch
      /\ Members \subseteq Nodes /\ Entry \in Members
  BY BodyFacts, LoopAssumption DEF Whole
<1>2. \A m \in Nodes : /\ log.nodes[m].st = "absent" /\ Lap(m) = 0 /\ Finished(m) = 0
                       /\ \A i \in Iters : log.nodes[m].row[i] = "none"
  BY DEF Init, FreshRun, AbsentNode, Lap, Finished
<1>3. \A m \in Members : TellsLaps(m)
  BY <1>1, <1>2, IterBounds DEF TellsLaps
<1>4. InOrder(body)
  BY <1>1, <1>2 DEF InOrder
<1>5. Pending(body)
  <2>1. \A t \in Tasks : task[t].todo = {} /\ task[t].fires = {}
    BY DEF Init, Begin, Idle
  <2> QED
    BY <2>1 DEF Pending
<1>6. Tails(body)
  BY <1>1 DEF Tails, Init
<1> QED
  BY <1>3, <1>4, <1>5, <1>6 DEF LapInv

\* Laps are whole in every region whose body is a chain of members that always
\* run, whatever surrounds it, as long as the daemon is done with a node before
\* the next agent is: no member starts a lap before every other has finished
\* the one before it, and the member that feeds it this one.
THEOREM LapsAreWhole ==
  ASSUME Prompt, NEW CONSTANT body, Whole(body)
  PROVE  Spec => WholeLaps
<1>1. Init => LapInv(body)
  BY LapInit
<1>2. LapInv(body) /\ TypeOK /\ NoneWaiting /\ [Next]_vars => LapInv(body)'
  BY LapStep
<1>3. LapInv(body) /\ TypeOK /\ NoneWaiting /\ [Next]_vars => [WholeStep]_vars
  BY LapStep
<1>4. [][WholeStep]_vars => WholeLaps
  <2>1. [WholeStep]_vars =>
          [\A m \in Members, i \in Iters :
             log.nodes[m].row[i] = "none" /\ log'.nodes[m].row[i] # "none" =>
               /\ i > 1 => \A other \in Members : SettledComplete(log.nodes[other].row[i - 1])
               /\ \A e \in In(m) : e[1] \in Members /\ ~IsBack(e) =>
                    SettledComplete(log.nodes[e[1]].row[i])]_vars
    BY DEF WholeStep
  <2> QED
    BY <2>1, PTL DEF WholeLaps
<1> QED
  BY <1>1, <1>2, <1>3, <1>4, NoneWaits, PTL DEF Spec

(***************************************************************************)
(* The end of the run                                                      *)
(***************************************************************************)
\* A node outside the region runs once.
Once(x) ==
  /\ log.nodes[x].st \in {"absent", "running", "completed", "skipped"}
  /\ \A i \in Iters : log.nodes[x].row[i] =
       IF i = 1 /\ log.nodes[x].st # "absent" THEN log.nodes[x].st ELSE "none"

\* It is fed, or it will never be.
Fed(x) == In(x) = {} \/ \E e \in In(x) : Settled(e[1]) /\ Fires(e)
Gone(x) == Absent(x) /\ ~Fed(x) /\ \A e \in In(x) : Settled(e[1])
DoneWith(x) == Settled(x) \/ Gone(x)
AllDone == \A x \in Outside : DoneWith(x)

\* The last member has left the region.
Exited(body) == Settled(LastOf(body)) /\ Fires(Exit(body))

EndFits(body, x) ==
  /\ x.do = "spawn" /\ x.node \notin Members => x.iter = 1 /\ Fed(x.node)
  /\ x.do = "spawn" /\ x.node = Entry =>
       AllDone /\ (x.iter <= 1 \/ x.iter <= Lap(LastOf(body)) \/ Fires(Back(body)))
  /\ x.do = "skip" => DoneWith(x.node)
  /\ x.do = "complete" => Exited(body)

EndInv(body) ==
  /\ \A x \in Outside : Once(x) /\ (task[x] # Idle => Settled(x))
  /\ \A t \in Tasks : /\ \A d \in task[t].todo : EndFits(body, d.act)
                      /\ \A n \in task[t].fires : Settled(n)
  /\ Lap(Entry) > 0 => AllDone
  /\ Lap(Entry) <= 1 \/ Lap(Entry) <= Lap(LastOf(body)) \/ Fires(Back(body))
  /\ log.status = "completed" => Exited(body)
  /\ ~(Fires(Back(body)) /\ Fires(Exit(body)))

\* What EndsRun says, in pieces.
LEMMA EndFacts ==
  ASSUME NEW body, EndsRun(body)
  PROVE  /\ Chain(body) /\ Whole(body) /\ LastOf(body) \in Members /\ LastOf(body) \in Nodes
         /\ LastOf(body) # Entry /\ Entry \in Nodes /\ Members \subseteq Nodes
         /\ Back(body)[1] = LastOf(body) /\ Exit(body)[1] = LastOf(body)
         /\ \A e \in In(End) : e = Exit(body)
         /\ \A e \in Edges : Leaving(e) => e = Exit(body)
         /\ \A e \in Edges : IsBack(e) => e = Back(body)
         /\ \A x \in Outside : x \in Nodes /\ x \notin Members /\ <<x, Entry>> \in In(Entry) \ Conditional
         /\ \A x \in Outside : \A e \in In(x) : e[1] \in Outside /\ e \in Edges
<1>1. Chain(body) /\ Whole(body) /\ In(End) = {Exit(body)} /\ \A e \in Edges : Leaving(e) => e = Exit(body)
  BY DEF EndsRun, Whole
<1>2. LastOf(body) \in Members /\ LastOf(body) # Entry
  BY <1>1, BodyFacts DEF LastOf
<1>3. Members \subseteq Nodes /\ Entry \in Members /\ End \notin Nodes
  BY LoopAssumption
<1>4. ASSUME NEW e \in Edges, IsBack(e) PROVE e = Back(body)
  <2>1. e[1] = LastOf(body) /\ e[2] = Entry
    BY <1>1, <1>4 DEF Chain, IsBack, LastOf
  <2> QED
    BY <2>1, EdgeEndsToo DEF Back
<1>5. ASSUME NEW x \in Outside PROVE <<x, Entry>> \in In(Entry) \ Conditional
  BY <1>5 DEF EndsRun, In
<1>6. ASSUME NEW x \in Outside, NEW e \in In(x) PROVE e[1] \in Outside /\ e \in Edges
  <2>1. e \in Edges /\ e[2] = x /\ e[1] \in Nodes
    BY EdgeEndsToo DEF In
  <2>2. e[1] \notin Members
    BY <1>1, <1>3, <2>1 DEF Leaving, Outside, Exit
  <2> QED
    BY <2>1, <2>2 DEF Outside
<1> QED
  BY <1>1, <1>2, <1>3, <1>4, <1>5, <1>6 DEF Back, Exit, Outside

LEMMA OnceViews ==
  ASSUME TypeOK, NEW x \in Nodes, Once(x)
  PROVE  /\ Absent(x) <=> log.nodes[x].st = "absent"
         /\ Settled(x) <=> log.nodes[x].st \in {"completed", "skipped"}
         /\ LiveIteration(View(log), x) = IF log.nodes[x].st = "running" THEN {1} ELSE {}
<1>1. View(log).nodes[x].st = log.nodes[x].st /\ View(log).nodes[x].row = log.nodes[x].row
  BY ViewKeeps DEF TypeOK
<1>2. LiveRows(View(log), x) = IF log.nodes[x].st = "running" THEN {1} ELSE {}
  BY <1>1, IterBounds DEF LiveRows, HoldsSession, Once
<1> QED
  BY <1>1, <1>2 DEF Absent, Present, Settled, SettledComplete, LiveIteration, Once

\* The rule of the dead is true of each of them.
LEMMA DeadRule ==
  ASSUME NEW n \in Dead
  PROVE  Absent(n) /\ In(n) # {} /\ \A e \in In(n) : EdgeDead(e, Dead)
<1> DEFINE All == Nodes \cup {End}
           D == {m \in Dead : Absent(m) /\ In(m) # {} /\ \A e \in In(m) : EdgeDead(e, Dead)}
<1>1. Dead \subseteq All
  BY DEF Dead
<1>2. ASSUME NEW A, NEW B, A \subseteq B, NEW e, EdgeDead(e, A) PROVE EdgeDead(e, B)
  BY <1>2 DEF EdgeDead
<1>3. ASSUME NEW m \in All, Absent(m), In(m) # {}, \A e \in In(m) : EdgeDead(e, Dead) PROVE m \in Dead
  <2> SUFFICES ASSUME NEW X \in SUBSET All,
                      \A q \in All : Absent(q) /\ In(q) # {} /\ (\A e \in In(q) : EdgeDead(e, X)) => q \in X
               PROVE  m \in X
    BY DEF Dead
  <2>1. Dead \subseteq X
    BY DEF Dead
  <2>2. \A e \in In(m) : EdgeDead(e, X)
    BY <1>2, <1>3, <2>1
  <2> QED
    BY <1>3, <2>2
<1>4. ASSUME NEW m \in All, Absent(m), In(m) # {}, \A e \in In(m) : EdgeDead(e, D) PROVE m \in D
  <2>1. \A e \in In(m) : EdgeDead(e, Dead)
    BY <1>2, <1>4
  <2> QED
    BY <1>3, <1>4, <2>1
<1>5. D \in SUBSET All
  BY <1>1
<1>6. n \in D
  <2>1. n \in All
    BY <1>1
  <2> HIDE DEF D
  <2> QED
    BY <1>4, <1>5, <2>1 DEF Dead
<1> QED
  BY <1>6

\* A node outside the region that is dead stays without input.
LEMMA DeadIsGone ==
  ASSUME NEW body, EndsRun(body), NEW x \in Outside, x \in Dead
  PROVE  Gone(x)
<1>1. Absent(x) /\ In(x) # {} /\ \A e \in In(x) : EdgeDead(e, Dead)
  BY DeadRule
<1>2. PICK S : Sure(S) /\ \A e \in In(x) : e[1] \in S
  BY DEF EndsRun
<1>3. ASSUME NEW e \in In(x) PROVE Settled(e[1]) /\ ~Fires(e)
  <2>1. e[1] \notin Dead /\ EdgeDead(e, Dead)
    BY <1>1, <1>2, SureNeverDies
  <2> QED
    BY <2>1 DEF EdgeDead
<1> QED
  BY <1>1, <1>3 DEF Gone, Fed

(***************************************************************************)
(* What is decided in a run that its region ends                           *)
(***************************************************************************)
LEMMA EndEdgeFits ==
  ASSUME TypeOK, NEW body, EndsRun(body), LapInv(body), EndInv(body), forced = None,
         NEW k \in DOMAIN Wiring, Settled(Wiring[k][1]), Fires(Wiring[k]), NEW x \in EdgeActions(Wiring[k])
  PROVE  EndFits(body, x[2])
<1> DEFINE e == Wiring[k]
<1>0. /\ e \in Edges /\ e[1] \in Nodes /\ e[2] \in Nodes \cup {End} /\ e \in In(e[2]) /\ Entry \in Members
      /\ TellsLaps(LastOf(body)) /\ TellsLaps(Entry)
  BY EdgeEnds, EndFacts, LoopAssumption DEF In, LapInv
<1>1. CASE e[2] = End
  <2>1. x = <<1, Complete>>
    BY <1>1 DEF EdgeActions
  <2>2. e = Exit(body) /\ e[1] = LastOf(body)
    BY <1>0, <1>1, EndFacts
  <2> QED
    BY <2>1, <2>2 DEF EndFits, Complete, Exited
<1>2. CASE e[2] # End /\ IsBack(e)
  <2>1. x \in Reentry(e[1])
    BY <1>2 DEF EdgeActions
  <2>2. e = Back(body) /\ e[1] = LastOf(body)
    BY <1>0, <1>2, EndFacts
  <2>3. ASSUME x \in ExitActions PROVE EndFits(body, x[2])
    <3>1. ~Fires(Exit(body))
      BY <2>2 DEF EndInv
    <3>2. {l \in DOMAIN Wiring : Leaving(Wiring[l]) /\ Fires(Wiring[l])} = {}
      BY <3>1, EdgeEnds, EndFacts
    <3>3. \E c : x = <<1, Park(c)>>
      BY <2>3, <3>2 DEF ExitActions
    <3> QED
      BY <3>3 DEF EndFits, Park
  <2>4. ASSUME x \in BudgetPark PROVE EndFits(body, x[2])
    BY <2>4 DEF BudgetPark, EndFits, Park
  <2>5. ASSUME x \in NextLap PROVE EndFits(body, x[2])
    <3>1. CASE x = <<1, StartLap(CurrentIter + 1)>>
      BY <3>1 DEF EndFits, StartLap
    <3>2. CASE x = <<2, Spawn(Entry, CurrentIter + 1)>>
      <4>1. log.nodes[LastOf(body)].st = "completed"
        BY <1>0, <2>2, EndFacts, LapViews
      <4>2. 1 <= Lap(LastOf(body)) /\ Lap(LastOf(body)) \in Nat
        BY <1>0, <4>1, EndFacts, LapNumbers
      <4>3. Lap(LastOf(body)) <= Lap(Entry) /\ Lap(Entry) \in Nat
        <5>1. Len(body) \in 1..Len(body)
          BY BodyFacts, EndFacts
        <5> QED
          BY <5>1, LapsClose, EndFacts DEF LastOf
      <4>4. AllDone
        BY <4>2, <4>3 DEF EndInv
      <4> QED
        BY <1>0, <2>2, <3>2, <4>4 DEF EndFits, Spawn
    <3> QED
      BY <2>5, <3>1, <3>2 DEF NextLap
  <2> QED
    BY <2>1, <2>3, <2>4, <2>5 DEF Reentry
<1>3. CASE e[2] # End /\ ~IsBack(e)
  <2> DEFINE i == ForwardIter(e[1], e[2])
  <2>1. CASE x = <<1, StartLap(1)>>
    BY <2>1 DEF EndFits, StartLap
  <2>2. CASE x = <<2, Spawn(e[2], i)>> /\ i # 0 /\ UpstreamDone(e[2], e[1])
    <3>1. ~({e[1], e[2]} \subseteq Members) => i = 1
      <4>1. ~({e[1], e[2]} \subseteq Members) => ~Reaches(e[2], e[1])
        BY <1>0, LoopAssumption
      <4> QED
        BY <2>2, <4>1 DEF ForwardIter
    <3>2. CASE e[2] \notin Members
      <4>1. i = 1 /\ Fed(e[2])
        BY <1>0, <3>1, <3>2 DEF Fed
      <4> HIDE DEF i
      <4> QED
        BY <1>0, <2>2, <3>2, <4>1 DEF EndFits, Spawn
    <3>3. CASE e[2] = Entry
      <4>1. e[1] \notin Members /\ i = 1
        BY <1>3, <3>1, <3>3 DEF IsBack
      <4>2. ASSUME NEW y \in Outside PROVE DoneWith(y)
        <5>1. <<y, Entry>> \in In(Entry) /\ y # Entry /\ y \notin Members
          BY <1>0, EndFacts
        <5>2. y = e[1] \/ Settled(y) \/ y \in Dead
          BY <2>2, <3>3, <5>1 DEF UpstreamDone, IsBack
        <5> QED
          BY <5>2, DeadIsGone DEF DoneWith
      <4> HIDE DEF i
      <4> QED
        BY <1>0, <2>2, <3>3, <4>1, <4>2 DEF EndFits, Spawn, AllDone
    <3>4. CASE e[2] \in Members /\ e[2] # Entry
      <4> HIDE DEF i
      <4> QED
        BY <2>2, <3>4 DEF EndFits, Spawn
    <3> QED
      BY <3>2, <3>3, <3>4
  <2> QED
    BY <1>3, <2>1, <2>2 DEF EdgeActions, Forward
<1> QED
  BY <1>1, <1>2, <1>3

LEMMA EndOutgoingFits ==
  ASSUME TypeOK, NEW body, EndsRun(body), LapInv(body), EndInv(body), forced = None,
         NEW n, Settled(n), NEW turn, NEW d \in OutgoingActions(n, turn)
  PROVE  EndFits(body, d.act)
<1> DEFINE out == {k \in DOMAIN Wiring : Wiring[k][1] = n /\ Fires(Wiring[k])}
           decided == UNION {{[at |-> <<turn, k, x[1]>>, act |-> x[2]] : x \in EdgeActions(Wiring[k])}
                               : k \in out}
           unrouted == [at |-> <<turn, Len(Wiring) + 1, 1>>, act |-> Park("unrouted")]
<1>1. d \in decided \/ d = unrouted
  BY DEF OutgoingActions
<1>2. ASSUME NEW k \in out, NEW x \in EdgeActions(Wiring[k]), d = [at |-> <<turn, k, x[1]>>, act |-> x[2]]
      PROVE  EndFits(body, d.act)
  <2>1. k \in DOMAIN Wiring /\ Wiring[k][1] = n /\ Fires(Wiring[k])
    OBVIOUS
  <2>2. EndFits(body, x[2])
    BY <2>1, EndEdgeFits
  <2> QED
    BY <1>2, <2>2
<1>3. CASE d = unrouted
  BY <1>3 DEF EndFits, Park
<1> QED
  BY <1>1, <1>2, <1>3

LEMMA EndReadsFit ==
  ASSUME TypeOK, NEW body, EndsRun(body), LapInv(body), EndInv(body), forced = None,
         NEW t \in Tasks, ReadOf(t), NEW d, Origin(t, d)
  PROVE  EndFits(body, d.act)
<1>1. ASSUME NEW n, NEW turn, d \in OutgoingActions(n, turn),
             n \in task[t].fires \/ Settled(n) \/ (n = t /\ t \in Nodes)
      PROVE  EndFits(body, d.act)
  <2>1. Settled(n)
    <3>1. CASE n = t /\ t \in Nodes
      <4>1. t \in Members => Settled(t)
        BY EndFacts, MemberSettled DEF ReadOf
      <4>2. t \in Outside => Settled(t)
        BY DEF EndInv, ReadOf
      <4> QED
        BY <3>1, <4>1, <4>2 DEF Outside
    <3> QED
      BY <1>1, <3>1 DEF EndInv
  <2> QED
    BY <1>1, <2>1, EndOutgoingFits
<1>2. ASSUME NEW n \in Unreachable, d.act = Skip(n) PROVE EndFits(body, d.act)
  <2>1. n \in Dead /\ n \in Nodes
    BY DEF Unreachable, Dead
  <2>2. n \notin Members
    BY <2>1, SureNeverDies, EndFacts DEF Whole
  <2>3. DoneWith(n)
    BY <2>1, <2>2, DeadIsGone DEF Outside, DoneWith
  <2> QED
    BY <1>2, <2>3 DEF EndFits, Skip
<1>3. ASSUME NEW n \in ReadyNodes, d.act = Spawn(n, 1) PROVE EndFits(body, d.act)
  <2>1. Fed(n)
    BY DEF ReadyNodes, Fed, Fires
  <2>2. ASSUME n = Entry, NEW x \in Outside PROVE DoneWith(x)
    <3>1. <<x, Entry>> \in In(n) \ Conditional
      BY <2>2, EndFacts
    <3>2. Settled(<<x, Entry>>[1])
      BY <3>1 DEF ReadyNodes
    <3> QED
      BY <3>2 DEF DoneWith
  <2> QED
    BY <1>3, <2>1, <2>2 DEF EndFits, Spawn, AllDone
<1> QED
  BY <1>1, <1>2, <1>3 DEF Origin

(***************************************************************************)
(* What a step leaves of the nodes outside the region                      *)
(***************************************************************************)
Outcome ==
  /\ \A x \in Outside : /\ Once(x)' /\ (Settled(x) => Settled(x)')
                        /\ Gone(x) => Absent(x)' \/ Settled(x)'
  /\ \A e \in Edges : e[1] \in Outside /\ Settled(e[1]) => (Fires(e)' <=> Fires(e))

LEMMA OutcomeKeeps ==
  ASSUME NEW body, EndsRun(body), Outcome
  PROVE  /\ \A x \in Outside : (Fed(x) => Fed(x)') /\ (DoneWith(x) => DoneWith(x)')
         /\ AllDone => AllDone'
<1>1. ASSUME NEW x \in Outside, Fed(x) PROVE Fed(x)'
  <2>1. CASE In(x) = {}
    BY <2>1 DEF Fed
  <2>2. ASSUME NEW e \in In(x), Settled(e[1]), Fires(e) PROVE Fed(x)'
    <3>1. e[1] \in Outside /\ e \in Edges
      BY EndFacts
    <3>2. Settled(e[1])' /\ Fires(e)'
      BY <2>2, <3>1 DEF Outcome
    <3> QED
      BY <3>2 DEF Fed
  <2> QED
    BY <1>1, <2>1, <2>2 DEF Fed
<1>2. ASSUME NEW x \in Outside, DoneWith(x) PROVE DoneWith(x)'
  <2>1. CASE Settled(x)
    BY <2>1 DEF Outcome, DoneWith
  <2>2. CASE Gone(x)
    <3>1. ASSUME NEW e \in In(x) PROVE Settled(e[1])' /\ ~Fires(e)'
      <4>1. Settled(e[1]) /\ ~Fires(e) /\ e[1] \in Outside /\ e \in Edges
        BY <2>2, EndFacts DEF Gone, Fed
      <4> QED
        BY <4>1 DEF Outcome
    <3>2. In(x) # {}
      BY <2>2 DEF Gone, Fed
    <3>3. Absent(x)' => Gone(x)'
      BY <3>1, <3>2 DEF Gone, Fed
    <3> QED
      BY <2>2, <3>3 DEF Outcome, DoneWith
  <2> QED
    BY <1>2, <2>1, <2>2 DEF DoneWith
<1> QED
  BY <1>1, <1>2 DEF AllDone

LEMMA OnceSame ==
  ASSUME TypeOK, TypeOK', NEW x \in Nodes, Once(x), log'.nodes[x] = log.nodes[x]
  PROVE  /\ Once(x)' /\ (Settled(x)' <=> Settled(x)) /\ (Absent(x)' <=> Absent(x))
<1>1. Once(x)'
  BY DEF Once
<1>2. Absent(x)' <=> Absent(x)
  BY DEF Absent, Present
<1>3. Settled(x) <=> log.nodes[x].st \in {"completed", "skipped"}
  BY OnceViews
<1>4. Settled(x)' <=> log'.nodes[x].st \in {"completed", "skipped"}
  <2>1. View(log').nodes[x].st = log'.nodes[x].st
    BY ViewKeeps DEF TypeOK
  <2> QED
    BY <2>1 DEF Settled, SettledComplete
<1> QED
  BY <1>1, <1>2, <1>3, <1>4

\* Nothing outside the region is touched.
LEMMA OutcomeQuiet ==
  ASSUME TypeOK, TypeOK', \A x \in Outside : Once(x) /\ log'.nodes[x] = log.nodes[x], fired' = fired
  PROVE  Outcome
<1>1. \A x \in Outside : Once(x)' /\ (Settled(x)' <=> Settled(x)) /\ (Absent(x)' <=> Absent(x))
  BY OnceSame DEF Outside
<1>2. \A e : Fires(e)' <=> Fires(e)
  BY DEF Fires
<1> QED
  BY <1>1, <1>2 DEF Outcome, Gone

\* A node outside the region that is fed starts, for the first time.
LEMMA OutcomeStart ==
  ASSUME TypeOK, TypeOK', \A x \in Outside : Once(x), NEW n \in Outside, Fed(n),
         ValidateStart(View(log), n, 1) = "allow", log' = NodeStarted(log, n, 1), fired' = fired
  PROVE  Outcome
<1>0. n \in Nodes /\ 1 \in Iters /\ log \in Runs
  BY IterBounds DEF Outside, TypeOK
<1>1. /\ OnlyNode(log, log', n) /\ log'.nodes[n].st = "running" /\ log'.nodes[n].row[1] = "running"
      /\ RowsBut(log'.nodes[n], log.nodes[n], 1)
  BY <1>0, StartedStep
<1>2. ~Settled(n)
  <2>1. View(log).nodes[n].row = log.nodes[n].row
    BY <1>0, ViewKeeps
  <2>2. ~SettledComplete(log.nodes[n].row[1])
    BY <2>1 DEF ValidateStart
  <2> QED
    BY <1>0, <2>2, OnceViews DEF Once, SettledComplete
<1>3. Once(n)'
  BY <1>0, <1>1 DEF Once, RowsBut
<1>4. \A x \in Outside \ {n} : Once(x)' /\ (Settled(x)' <=> Settled(x)) /\ (Absent(x)' <=> Absent(x))
  BY <1>1, OnceSame DEF Outside, OnlyNode
<1>5. \A e : Fires(e)' <=> Fires(e)
  BY DEF Fires
<1> QED
  BY <1>2, <1>3, <1>4, <1>5 DEF Outcome, Gone

\* A node's verdict is about its own edges.
LEMMA FiringsOwn ==
  ASSUME NEW n \in Nodes, NEW f \in Firings(n), fired' = f, NEW e, e[1] # n
  PROVE  Fires(e)' <=> Fires(e)
<1>1. PICK g \in Verdicts[n] : f = (fired \ UNION Verdicts[n]) \cup g
  BY DEF Firings
<1>2. e \notin UNION Verdicts[n]
  BY LoopAssumption
<1> QED
  BY <1>1, <1>2 DEF Fires

\* A node settles that had not.
LEMMA OutcomeSettle ==
  ASSUME TypeOK, TypeOK', \A x \in Outside : Once(x), NEW n \in Nodes,
         \A x \in Nodes \ {n} : log'.nodes[x] = log.nodes[x],
         n \in Outside => ~Settled(n) /\ Once(n)' /\ Settled(n)',
         NEW f \in Firings(n), fired' = f
  PROVE  Outcome
<1>1. \A x \in Outside \ {n} : Once(x)' /\ (Settled(x)' <=> Settled(x)) /\ (Absent(x)' <=> Absent(x))
  BY OnceSame DEF Outside
<1>2. \A e : e[1] # n => (Fires(e)' <=> Fires(e))
  BY FiringsOwn
<1> QED
  BY <1>1, <1>2 DEF Outcome, Gone

(***************************************************************************)
(* What a step leaves of the end of the run                                *)
(***************************************************************************)
\* A decision stays fit.
LEMMA StaysFit ==
  ASSUME NEW body, EndsRun(body), Outcome, NEW x \in Actions, EndFits(body, x),
         x.do = "skip" => x.node \notin Members,
         Lap(LastOf(body)) \in Nat, Lap(LastOf(body))' \in Nat, Lap(LastOf(body)) <= Lap(LastOf(body))',
         Fires(Back(body))' <=> Fires(Back(body)),
         Exited(body) => Exited(body)'
  PROVE  EndFits(body, x)'
<1>1. ASSUME x.do = "spawn", x.node \notin Members PROVE x.iter = 1 /\ Fed(x.node)'
  <2>1. x.node \in Outside
    BY <1>1, ActionKinds DEF Outside
  <2> QED
    BY <1>1, <2>1, OutcomeKeeps DEF EndFits
<1>2. ASSUME x.do = "spawn", x.node = Entry
      PROVE  AllDone' /\ (x.iter <= 1 \/ x.iter <= Lap(LastOf(body))' \/ Fires(Back(body))')
  <2>1. AllDone /\ (x.iter <= 1 \/ x.iter <= Lap(LastOf(body)) \/ Fires(Back(body)))
    BY <1>2 DEF EndFits
  <2>2. AllDone'
    BY <2>1, OutcomeKeeps
  <2>3. x.iter \in Nat
    BY <1>2, ActionKinds, IterBounds
  <2> QED
    BY <2>1, <2>2, <2>3
<1>3. ASSUME x.do = "skip" PROVE DoneWith(x.node)'
  <2>1. x.node \in Outside
    BY <1>3, ActionKinds DEF Outside
  <2> QED
    BY <1>3, <2>1, OutcomeKeeps DEF EndFits
<1> QED
  BY <1>1, <1>2, <1>3 DEF EndFits

\* A step other than a completion keeps what is known of the end of the run.
Keeps(body) ==
  /\ \A t \in Tasks :
       /\ task'[t] # Idle => task[t] # Idle \/ t \notin Outside
       /\ \A d \in task'[t].todo : d \in task[t].todo \/ EndFits(body, d.act)
       /\ \A n \in task'[t].fires : n \in task[t].fires \/ Settled(n)'
  /\ Lap(LastOf(body)) <= Lap(LastOf(body))'
  /\ \A e \in {Back(body), Exit(body)} : Fires(e)' <=> Fires(e)
  /\ Exited(body) => Settled(LastOf(body))'
  /\ \/ Lap(Entry)' = Lap(Entry)
     \/ AllDone /\ (Lap(Entry)' <= 1 \/ Lap(Entry)' <= Lap(LastOf(body)) \/ Fires(Back(body)))
  /\ log'.status = "completed" => Exited(body)

LEMMA EndKept ==
  ASSUME TypeOK, TypeOK', NEW body, EndsRun(body), LapInv(body), LapInv(body)', EndInv(body),
         Outcome, Keeps(body)
  PROVE  EndInv(body)'
<1> DEFINE last == LastOf(body)
<1>0. /\ Lap(last) \in Nat /\ Lap(last)' \in Nat /\ Lap(last) <= Lap(last)'
      /\ Lap(Entry) \in Nat /\ Lap(Entry)' \in Nat
  <2>1. last \in Members /\ Entry \in Members /\ last \in Nodes /\ Entry \in Nodes
    BY EndFacts, LoopAssumption
  <2>2. TellsLaps(last) /\ TellsLaps(Entry) /\ TellsLaps(last)' /\ TellsLaps(Entry)'
    BY <2>1 DEF LapInv
  <2>3. Lap(last) \in Nat /\ Lap(Entry) \in Nat
    BY <2>1, <2>2, LapNumbers
  <2>4. Lap(last)' \in Nat /\ Lap(Entry)' \in Nat
    BY <2>1, NodeType, IterBounds DEF TypeOK, NodeStates, Lap
  <2> QED
    BY <2>3, <2>4 DEF Keeps
<1>1. /\ Fires(Back(body))' <=> Fires(Back(body))
      /\ Fires(Exit(body))' <=> Fires(Exit(body))
      /\ Exited(body) => Exited(body)'
  BY DEF Keeps, Exited
<1>2. \A x \in Outside : Once(x)' /\ (task'[x] # Idle => Settled(x)')
  BY DEF Keeps, Outcome, EndInv, Outside, Tasks
<1>3. ASSUME NEW t \in Tasks, NEW d \in task'[t].todo PROVE EndFits(body, d.act)'
  <2>1. d.act \in Actions /\ (d.act.do = "skip" => d.act.node \notin Members)
    BY <1>3 DEF TypeOK, Decisions, LapInv, Pending
  <2>2. EndFits(body, d.act)
    BY <1>3 DEF Keeps, EndInv
  <2> QED
    BY <1>0, <1>1, <2>1, <2>2, StaysFit
<1>4. ASSUME NEW t \in Tasks, NEW n \in task'[t].fires PROVE Settled(n)'
  <2>1. CASE n \in task[t].fires
    <3>1. n \in Outside /\ Settled(n)
      BY <2>1 DEF TypeOK, LapInv, Pending, EndInv, Outside
    <3> QED
      BY <3>1 DEF Outcome
  <2> QED
    BY <1>4, <2>1 DEF Keeps
<1>5. Lap(Entry)' > 0 => AllDone'
  BY OutcomeKeeps DEF EndInv, Keeps
<1>6. Lap(Entry)' <= 1 \/ Lap(Entry)' <= Lap(last)' \/ Fires(Back(body))'
  <2>1. Lap(Entry)' <= 1 \/ Lap(Entry)' <= Lap(last) \/ Fires(Back(body))
    BY DEF Keeps, EndInv
  <2> QED
    BY <1>0, <1>1, <2>1
<1>7. log'.status = "completed" => Exited(body)'
  BY <1>1 DEF Keeps
<1>8. ~(Fires(Back(body))' /\ Fires(Exit(body))')
  BY <1>1 DEF EndInv
<1> QED
  BY <1>2, <1>3, <1>4, <1>5, <1>6, <1>7, <1>8 DEF EndInv

\* The decision a task carries out, and what is left of the others.
Carried(t, d) ==
  /\ d \in task[t].todo /\ d.act \in Actions
  /\ CASE d.act.do = "spawn" -> DoSpawn(d.act.node, d.act.iter)
       [] d.act.do = "lap" -> DoLap(d.act.iter)
       [] d.act.do = "complete" -> DoComplete
       [] d.act.do = "park" -> DoPark(d.act.code)
       [] d.act.do = "skip" -> DoSkip(d.act.node)
       [] d.act.do = "resume_run" -> DoResume
       [] OTHER -> DoCommand(d.act)
  /\ \A u \in Tasks : /\ task'[u] # Idle => task[u] # Idle
                      /\ task'[u].todo \subseteq task[u].todo
                      /\ \A n \in task'[u].fires :
                           n \in task[u].fires \/ (d.act.do = "skip" /\ Accepts /\ n = d.act.node)

LEMMA PerformOne ==
  ASSUME TypeOK, NEW t \in Tasks, Perform(t)
  PROVE  \E d : Carried(t, d)
<1>1. PICK d \in task[t].todo :
        /\ Done(t, d)
        /\ CASE d.act.do = "spawn" -> DoSpawn(d.act.node, d.act.iter)
             [] d.act.do = "lap" -> DoLap(d.act.iter)
             [] d.act.do = "complete" -> DoComplete
             [] d.act.do = "park" -> DoPark(d.act.code)
             [] d.act.do = "skip" -> DoSkip(d.act.node)
             [] d.act.do = "resume_run" -> DoResume
             [] OTHER -> DoCommand(d.act)
  BY DEF Perform
<1>2. task[t] # Idle
  BY <1>1, IdleTypes
<1> DEFINE todo == IF d.act.do \in {"complete", "park"} THEN {} ELSE task[t].todo \ {d}
           fires == IF d.act.do = "skip" /\ Accepts THEN task[t].fires \cup {d.act.node} ELSE task[t].fires
<1>3. task' = [task EXCEPT ![t].todo = todo, ![t].fires = fires]
  BY <1>1 DEF Done, TypeOK
<1>4. /\ todo \subseteq task[t].todo
      /\ \A n \in fires : n \in task[t].fires \/ (d.act.do = "skip" /\ Accepts /\ n = d.act.node)
  OBVIOUS
<1> HIDE DEF todo, fires
<1>5. task \in [Tasks -> TaskRecs]
  BY DEF TypeOK, TaskRecs
<1>6. task'[t].todo = todo /\ task'[t].fires = fires /\ \A u \in Tasks \ {t} : task'[u] = task[u]
  BY <1>3, <1>5 DEF TaskRecs
<1>7. d.act \in Actions
  BY DEF TypeOK, Decisions
<1>8. Carried(t, d)
  BY <1>1, <1>2, <1>4, <1>6, <1>7 DEF Carried
<1> QED
  BY <1>8

\* What the steps that start and settle nothing leave.
LEMMA RestKeeps ==
  ASSUME TypeOK, TypeOK', NEW body, EndsRun(body), EndInv(body),
         \A n \in Nodes : log'.nodes[n] = log.nodes[n], fired' = fired,
         log'.status = "completed" => Exited(body),
         \A t \in Tasks :
           /\ task'[t] # Idle => task[t] # Idle \/ t \notin Outside
           /\ \A d \in task'[t].todo : d \in task[t].todo \/ EndFits(body, d.act)
           /\ task'[t].fires \subseteq task[t].fires
  PROVE  Outcome /\ Keeps(body)
<1>1. Outcome
  BY OutcomeQuiet DEF EndInv, Outside
<1>2. LastOf(body) \in Nodes /\ Entry \in Nodes
  BY EndFacts
<1>3. Lap(LastOf(body))' = Lap(LastOf(body)) /\ Lap(Entry)' = Lap(Entry)
  BY <1>2 DEF Lap
<1>4. Settled(LastOf(body)) => Settled(LastOf(body))'
  <2>1. log \in Runs /\ log' \in Runs
    BY DEF TypeOK
  <2>2. /\ View(log).nodes[LastOf(body)].st = log.nodes[LastOf(body)].st
        /\ View(log').nodes[LastOf(body)].st = log'.nodes[LastOf(body)].st
    BY <1>2, <2>1, ViewKeeps
  <2>3. LastOf(body)' = LastOf(body)
    BY DEF LastOf
  <2> QED
    BY <1>2, <2>2, <2>3 DEF Settled
<1>5. Lap(LastOf(body)) <= Lap(LastOf(body))'
  <2>1. Lap(LastOf(body)) \in Nat
    BY <1>2, NodeType, IterBounds DEF TypeOK, NodeStates, Lap
  <2> QED
    BY <1>3, <2>1
<1> QED
  BY <1>1, <1>3, <1>4, <1>5 DEF Keeps, Exited, Fires

\* A node outside the region, or a member, starts.
LEMMA SpawnKeeps ==
  ASSUME TypeOK, TypeOK', NEW body, EndsRun(body), LapInv(body), EndInv(body),
         NEW t \in Tasks, NEW d, Carried(t, d), d.act.do = "spawn"
  PROVE  Outcome /\ Keeps(body)
<1> DEFINE n == d.act.node  i == d.act.iter  last == LastOf(body)
<1>0. /\ n \in Nodes /\ i \in Iters /\ i \in Nat /\ DoSpawn(n, i) /\ log \in Runs
      /\ EndFits(body, d.act) /\ d.act.do = "spawn"
      /\ last \in Nodes /\ last \in Members /\ last # Entry /\ Entry \in Nodes /\ Entry \in Members
  BY ActionKinds, IterBounds, EndFacts, LoopAssumption DEF Carried, EndInv, TypeOK
<1>1. \A u \in Tasks : /\ task'[u] # Idle => task[u] # Idle
                       /\ task'[u].todo \subseteq task[u].todo
                       /\ task'[u].fires \subseteq task[u].fires
  BY DEF Carried
<1>2. CASE log' = log
  <2>1. log'.status = "completed" => Exited(body)
    BY <1>2 DEF EndInv
  <2>2. fired' = fired
    BY <1>0 DEF DoSpawn
  <2> QED
    BY <1>1, <1>2, <2>1, <2>2, RestKeeps
<1>3. CASE log' # log
  <2>1. /\ ValidateStart(View(log), n, i) = "allow" /\ LiveIteration(View(log), n) = {}
        /\ log' = NodeStarted(log, n, i) /\ fired' = fired
    BY <1>0, <1>3 DEF DoSpawn
  <2>2. OnlyNode(log, log', n) /\ log'.nodes[n].iter = i /\ log'.nodes[n].st = "running"
    BY <1>0, <2>1, StartedStep
  <2>3. log'.status = "completed" => Exited(body)
    BY <2>2 DEF OnlyNode, EndInv
  <2>4. \A e : Fires(e)' <=> Fires(e)
    BY <2>1 DEF Fires
  <2>5. \A m \in Nodes : TellsLaps(m) => Lap(m) \in Nat
    BY LapNumbers
  <2>6. \A m \in Nodes \ {n} : log'.nodes[m] = log.nodes[m] /\ Lap(m)' = Lap(m)
    BY <2>2 DEF OnlyNode, Lap
  <2>7. TellsLaps(last) /\ TellsLaps(Entry) /\ Lap(last) \in Nat /\ Lap(Entry) \in Nat
    BY <1>0, <2>5 DEF LapInv
  <2>8. n # last => Lap(last) <= Lap(last)' /\ (Settled(last) => Settled(last)')
    <3>1. View(log').nodes[last].st = log'.nodes[last].st /\ View(log).nodes[last].st = log.nodes[last].st
      BY <1>0, ViewKeeps DEF TypeOK
    <3> QED
      BY <1>0, <2>6, <2>7, <3>1 DEF Settled
  <2>9. CASE n \in Outside
    <3>1. i = 1 /\ Fed(n) /\ n \notin Members
      BY <1>0, <2>9 DEF EndFits, Outside
    <3>2. Outcome
      BY <2>1, <2>9, <3>1, OutcomeStart DEF EndInv
    <3>3. n # last /\ n # Entry
      BY <1>0, <3>1
    <3> QED
      BY <1>0, <1>1, <2>3, <2>4, <2>6, <2>8, <3>2, <3>3 DEF Keeps, Exited
  <2>10. CASE n \in Members
    <3>1. PICK k \in 1..Len(body) : n = body[k]
      BY <2>10, BodyFacts, EndFacts
    <3>2. MayStart(body, n, i)
      BY <1>0 DEF LapInv, Pending, Carried
    <3>3. i = Lap(n) + 1
      BY <1>0, <2>1, <3>1, <3>2, StartIsNext, EndFacts
    <3>4. Outcome
      <4>1. \A x \in Outside : log'.nodes[x] = log.nodes[x]
        BY <2>6, <2>10 DEF Outside
      <4> QED
        BY <2>1, <4>1, OutcomeQuiet DEF EndInv
    <3>5. CASE n = Entry
      <4>1. Lap(Entry)' = i
        BY <2>2, <3>5 DEF Lap
      <4>2. AllDone /\ (i <= 1 \/ i <= Lap(last) \/ Fires(Back(body)))
        BY <1>0, <3>5 DEF EndFits
      <4> QED
        BY <1>0, <1>1, <2>3, <2>4, <2>8, <3>4, <3>5, <4>1, <4>2 DEF Keeps, Exited
    <3>6. CASE n # Entry /\ n # last
      BY <1>0, <1>1, <2>3, <2>4, <2>6, <2>8, <3>4, <3>6 DEF Keeps, Exited
    <3>7. CASE n = last
      <4>1. Lap(last)' = Lap(last) + 1
        BY <2>2, <3>3, <3>7 DEF Lap
      <4>2. ~Exited(body)
        <5> SUFFICES ASSUME Exited(body) PROVE FALSE
          OBVIOUS
        <5>1. ~Fires(Back(body)) /\ log.nodes[last].st = "completed"
          BY <1>0, <2>7, LapViews DEF EndInv, Exited
        <5>2. 1 <= Lap(last)
          BY <1>0, <2>7, <5>1, LapNumbers
        <5>3. k # 1 /\ k \in 2..Len(body) /\ k - 1 \in 1..Len(body)
          <6>1. k # 1
            BY <1>0, <3>1, <3>7, BodyFacts, EndFacts
          <6> QED
            BY <6>1, BodyFacts, EndFacts
        <5>4. i <= Finished(body[k - 1])
          BY <3>1, <3>2, <5>3 DEF MayStart
        <5>5. /\ Finished(body[k - 1]) \in Nat /\ Lap(body[k - 1]) \in Nat
              /\ Finished(body[k - 1]) <= Lap(body[k - 1]) /\ Lap(body[k - 1]) <= Lap(Entry)
          <6>1. body[k - 1] \in Nodes /\ TellsLaps(body[k - 1])
            BY <5>3, BodyFacts, EndFacts DEF LapInv
          <6> QED
            BY <5>3, <6>1, LapNumbers, LapsClose, EndFacts
        <5>6. Lap(Entry) <= Lap(last)
          BY <2>7, <5>1, <5>2 DEF EndInv
        <5> HIDE DEF i, last
        <5> QED
          BY <1>0, <2>7, <3>3, <3>7, <5>4, <5>5, <5>6
      <4>3. Lap(last) <= Lap(last)'
        BY <2>7, <4>1
      <4> QED
        BY <1>0, <1>1, <2>3, <2>4, <2>6, <3>4, <3>7, <4>2, <4>3 DEF Keeps
    <3> QED
      BY <3>5, <3>6, <3>7
  <2> QED
    BY <1>0, <2>9, <2>10 DEF Outside
<1> QED
  BY <1>2, <1>3

\* A node outside the region is skipped.
LEMMA SkipKeeps ==
  ASSUME TypeOK, TypeOK', NEW body, EndsRun(body), LapInv(body), EndInv(body),
         NEW t \in Tasks, NEW d, Carried(t, d), d.act.do = "skip"
  PROVE  Outcome /\ Keeps(body)
<1> DEFINE n == d.act.node  last == LastOf(body)
<1>0. /\ n \in Nodes /\ n \notin Members /\ n \in Outside /\ DoSkip(n) /\ log \in Runs /\ 1 \in Iters
      /\ DoneWith(n) /\ Once(n) /\ last \in Nodes /\ last # n /\ Entry \in Nodes /\ Entry # n
  <2>1. d \in task[t].todo /\ n \in Nodes /\ DoSkip(n)
    BY ActionKinds DEF Carried
  <2>2. n \notin Members /\ DoneWith(n)
    BY <2>1 DEF LapInv, Pending, EndInv, EndFits
  <2>3. last \in Members /\ last \in Nodes /\ Entry \in Members /\ Entry \in Nodes
    BY EndFacts, LoopAssumption
  <2> QED
    BY <2>1, <2>2, <2>3, IterBounds DEF EndInv, TypeOK, Outside
<1>1. \A u \in Tasks : /\ task'[u] # Idle => task[u] # Idle
                       /\ task'[u].todo \subseteq task[u].todo
                       /\ \A m \in task'[u].fires : m \in task[u].fires \/ (Accepts /\ m = n)
  BY DEF Carried
<1>2. View(log).nodes[n].row = log.nodes[n].row
  BY <1>0, ViewKeeps
<1>3. Absent(n) <=> log.nodes[n].st = "absent"
  BY <1>0, OnceViews
<1>4. CASE ValidateCompletion(View(log), n, 1, TRUE) = "allow"
  <2>1. log' = NodeSkipped(log, n, 1) /\ \E f \in Firings(n) : fired' = f
    BY <1>0, <1>4 DEF DoSkip
  <2>2. ~Settled(n)
    <3>1. ~SettledComplete(log.nodes[n].row[1])
      BY <1>2, <1>4 DEF ValidateCompletion
    <3> QED
      BY <1>0, <3>1, OnceViews DEF Once, SettledComplete
  <2>3. ~Present(log, n)
    BY <1>0, <2>2 DEF DoneWith, Gone, Absent
  <2>4. /\ OnlyNode(log, log', n) /\ log'.nodes[n].st = "skipped"
        /\ \A j \in Iters : log'.nodes[n].row[j] = IF j = 1 THEN "skipped" ELSE "none"
    BY <1>0, <2>1, <2>3, SkippedStep
  <2>5. Once(n)'
    BY <2>4 DEF Once
  <2>6. Settled(n)'
    BY <1>0, <2>4, ViewKeeps DEF TypeOK, Settled, SettledComplete
  <2>7. \A m \in Nodes \ {n} : log'.nodes[m] = log.nodes[m] /\ Lap(m)' = Lap(m)
    BY <2>4 DEF OnlyNode, Lap
  <2>8. Outcome
    BY <1>0, <2>1, <2>2, <2>5, <2>6, <2>7, OutcomeSettle DEF EndInv
  <2>9. \A e \in {Back(body), Exit(body)} : Fires(e)' <=> Fires(e)
    <3>1. Back(body)[1] = last /\ Exit(body)[1] = last
      BY EndFacts
    <3> QED
      BY <1>0, <2>1, <3>1, FiringsOwn
  <2>10. Settled(last) => Settled(last)'
    <3>1. View(log').nodes[last].st = log'.nodes[last].st /\ View(log).nodes[last].st = log.nodes[last].st
      BY <1>0, ViewKeeps DEF TypeOK
    <3> QED
      BY <1>0, <2>7, <3>1 DEF Settled
  <2>11. Lap(last) <= Lap(last)'
    <3>1. Lap(last) \in Nat
      BY <1>0, NodeType, IterBounds DEF TypeOK, NodeStates, Lap
    <3> QED
      BY <1>0, <2>7, <3>1
  <2>12. log'.status = "completed" => Exited(body)
    BY <2>4 DEF OnlyNode, EndInv
  <2> QED
    BY <1>0, <1>1, <2>6, <2>7, <2>8, <2>9, <2>10, <2>11, <2>12 DEF Keeps, Exited
<1>5. CASE ValidateCompletion(View(log), n, 1, TRUE) # "allow"
  <2>1. log' = log /\ fired' = fired
    BY <1>0, <1>5 DEF DoSkip
  <2>2. Accepts => Settled(n)
    <3> SUFFICES ASSUME Accepts, ~Settled(n) PROVE FALSE
      OBVIOUS
    <3>1. log.nodes[n].st = "absent"
      BY <1>0, <1>3 DEF DoneWith, Gone
    <3>2. log.nodes[n].row[1] = "none"
      BY <1>0, <3>1 DEF Once
    <3> QED
      BY <1>2, <1>5, <3>2 DEF ValidateCompletion, Accepts, SettledComplete
  <2>3. Settled(n)' <=> Settled(n)
    BY <2>1 DEF Settled
  <2>4. Outcome
    BY <2>1, OutcomeQuiet DEF EndInv
  <2>5. \A e : Fires(e)' <=> Fires(e)
    BY <2>1 DEF Fires
  <2>6. Lap(last)' = Lap(last) /\ Lap(Entry)' = Lap(Entry) /\ (Settled(last)' <=> Settled(last))
    BY <2>1 DEF Lap, Settled
  <2>7. Lap(last) <= Lap(last)'
    <3>1. Lap(last) \in Nat
      BY <1>0, NodeType, IterBounds DEF TypeOK, NodeStates, Lap
    <3> QED
      BY <2>6, <3>1
  <2>8. log'.status = "completed" => Exited(body)
    BY <2>1 DEF EndInv
  <2> QED
    BY <1>0, <1>1, <2>2, <2>3, <2>4, <2>5, <2>6, <2>7, <2>8 DEF Keeps, Exited
<1> QED
  BY <1>4, <1>5

LEMMA PerformKeeps ==
  ASSUME TypeOK, TypeOK', NEW body, EndsRun(body), LapInv(body), EndInv(body),
         NEW t \in Tasks, Perform(t)
  PROVE  Outcome /\ Keeps(body)
<1>1. PICK d : Carried(t, d)
  BY PerformOne
<1>2. EndFits(body, d.act) /\ log \in Runs /\ d.act \in Actions
  BY <1>1 DEF Carried, EndInv, TypeOK
<1>3. CASE d.act.do = "spawn"
  BY <1>1, <1>3, SpawnKeeps
<1>4. CASE d.act.do = "skip"
  BY <1>1, <1>4, SkipKeeps
<1>5. CASE d.act.do \notin {"spawn", "skip"}
  <2>1. fired' = fired
    BY <1>1, <1>5 DEF Carried, DoLap, DoComplete, DoPark, DoResume, DoCommand
  <2>2. /\ \A n \in Nodes : log'.nodes[n] = log.nodes[n]
        /\ log'.status = "completed" => log.status = "completed" \/ d.act.do = "complete"
    <3>1. CASE d.act.do \in {"complete", "park"}
      <4>1. \/ d.act.do = "complete" /\ log' = RunCompleted(log)
            \/ d.act.do = "park" /\ log' = RunInterrupted(log)
        BY <1>1, <3>1 DEF Carried, DoComplete, DoPark
      <4>2. log'.nodes = log.nodes
        BY <1>2, <4>1, RunEventStep
      <4>3. d.act.do = "park" => log'.status \in {log.status, "awaiting"}
        BY <1>2, <3>1, <4>1 DEF RunInterrupted, Runs
      <4> QED
        BY <4>1, <4>2, <4>3
    <3>2. CASE d.act.do = "resume_run"
      <4>1. log' = RunReopened(log)
        BY <1>1, <3>2 DEF Carried, DoResume
      <4>2. \A n \in Nodes : log.nodes[n].st # "interrupted"
        BY DEF LapInv, TellsLaps, EndInv, Once, Outside
      <4> QED
        BY <1>2, <4>1, <4>2 DEF RunReopened, Runs
    <3>3. CASE d.act.do \notin {"spawn", "skip", "complete", "park", "resume_run"}
      <4>1. log' = log
        BY <1>1, <3>3 DEF Carried, DoLap, DoCommand
      <4> QED
        BY <4>1
    <3> QED
      BY <1>5, <3>1, <3>2, <3>3
  <2>3. log'.status = "completed" => Exited(body)
    BY <1>2, <2>2 DEF EndInv, EndFits
  <2>4. \A u \in Tasks : /\ task'[u] # Idle => task[u] # Idle
                         /\ task'[u].todo \subseteq task[u].todo
                         /\ task'[u].fires \subseteq task[u].fires
    BY <1>1, <1>5 DEF Carried
  <2> QED
    BY <2>1, <2>2, <2>3, <2>4, RestKeeps
<1> QED
  BY <1>3, <1>4, <1>5

\* A task decides: nothing in the log changes, and what it decides is fit.
LEMMA ReadsKeep ==
  ASSUME TypeOK, TypeOK', NEW body, EndsRun(body), LapInv(body), EndInv(body), forced = None,
         NEW t \in Tasks, Reads(t)
  PROVE  Outcome /\ Keeps(body)
<1>1. log' = log /\ fired' = fired
  BY ReadsDecide
<1>2. ReadOf(t)
  BY ReadsGive
<1>3. \A u \in Tasks : /\ task'[u] # Idle => task[u] # Idle
                       /\ \A d \in task'[u].todo : d \in task[u].todo \/ EndFits(body, d.act)
                       /\ task'[u].fires \subseteq task[u].fires
  BY <1>2, EndReadsFit DEF ReadOf
<1> QED
  BY <1>1, <1>3, RestKeeps DEF EndInv

LEMMA CommandKeeps ==
  ASSUME TypeOK, TypeOK', NEW body, EndsRun(body), EndInv(body), NEW x \in Commands, Command(x)
  PROVE  Outcome /\ Keeps(body)
<1>1. log' = log /\ fired' = fired
  BY DEF Command
<1>2. ASSUME NEW t \in Tasks, t # Operator PROVE task'[t] = task[t]
  BY <1>2 DEF Command, TypeOK
<1>3. Operator \in Tasks /\ Operator \notin Outside
  BY LoopAssumption DEF Tasks, Outside
<1>4. (\A d \in task'[Operator].todo : d.act = x \/ d.act = Resume) /\ task'[Operator].fires = {}
  BY <1>3 DEF Command, TypeOK, Begin, Idle
<1>5. \A d \in task'[Operator].todo : EndFits(body, d.act)
  BY <1>4, CommandKinds DEF EndFits, Resume
<1> QED
  BY <1>1, <1>2, <1>3, <1>4, <1>5, RestKeeps DEF EndInv

\* A verdict of the last member does not both go back and leave.
LEMMA OneWay ==
  ASSUME NEW body, EndsRun(body), NEW f \in Firings(LastOf(body)), fired' = f
  PROVE  ~(Fires(Back(body))' /\ Fires(Exit(body))')
<1> DEFINE last == LastOf(body)
<1>1. PICK g \in Verdicts[last] : f = (fired \ UNION Verdicts[last]) \cup g
  BY DEF Firings
<1>2. ASSUME NEW e \in Conditional, e[1] = last PROVE e \in UNION Verdicts[last]
  <2>1. PICK n \in Nodes : e \in UNION Verdicts[n]
    BY DEF Conditional
  <2>2. e[1] = n
    BY <2>1, LoopAssumption
  <2> QED
    BY <1>2, <2>1, <2>2
<1>3. Back(body)[1] = last /\ Exit(body)[1] = last /\ Back(body) \in Conditional /\ Exit(body) \in Conditional
  BY EndFacts DEF EndsRun
<1>4. Back(body) \notin g \/ Exit(body) \notin g
  BY DEF EndsRun
<1> QED
  BY <1>1, <1>2, <1>3, <1>4 DEF Fires

\* An agent is done: the daemon has nothing else left to do.
LEMMA CompleteEnds ==
  ASSUME TypeOK, TypeOK', NoneWaiting, Prompt, NEW body, EndsRun(body), LapInv(body), EndInv(body),
         NEW n \in Nodes, CompleteNode(n)
  PROVE  EndInv(body)'
<1> DEFINE last == LastOf(body)
<1>0. /\ last \in Nodes /\ last \in Members /\ Entry \in Nodes /\ Entry \in Members
      /\ TellsLaps(last) /\ TellsLaps(Entry) /\ Lap(last) \in Nat /\ Lap(Entry) \in Nat /\ log \in Runs
      /\ Back(body)[1] = last /\ Exit(body)[1] = last
  <2>1. last \in Members /\ Entry \in Members /\ last \in Nodes /\ Entry \in Nodes
    BY EndFacts, LoopAssumption
  <2>2. TellsLaps(last) /\ TellsLaps(Entry)
    BY <2>1 DEF LapInv
  <2> QED
    BY <2>1, <2>2, LapNumbers, EndFacts DEF TypeOK
<1>1. PICK i \in LiveIteration(View(log), n) :
        log' = NodeCompleted(log, n, i) /\ ValidateCompletion(View(log), n, i, FALSE) = "allow"
  BY DEF CompleteNode
<1>2. PICK f \in Firings(n) : fired' = f
  BY DEF CompleteNode
<1>3. /\ i \in Iters /\ log.nodes[n].st = "running"
      /\ n \in Outside => i = 1 /\ Once(n)
      /\ n \in Members => i = Lap(n)
  <2>1. i \in Iters
    BY <1>0, LiveIters
  <2>2. CASE n \in Members
    <3>1. TellsLaps(n)
      BY <2>2 DEF LapInv
    <3> QED
      BY <2>1, <2>2, <3>1, LapViews DEF Outside
  <2>3. CASE n \in Outside
    <3>1. Once(n)
      BY <2>3 DEF EndInv
    <3> QED
      BY <2>1, <2>3, <3>1, OnceViews DEF Outside
  <2> QED
    BY <2>2, <2>3 DEF Outside
<1>4. /\ OnlyNode(log, log', n) /\ log'.nodes[n].st = "completed"
      /\ log'.nodes[n].iter = log.nodes[n].iter
      /\ RowSet(log'.nodes[n], log.nodes[n], i, "completed")
  <2>1. Present(log, n)
    BY <1>3 DEF Present
  <2> QED
    BY <1>0, <1>1, <1>3, <2>1, CompletedStep
<1>5. Settled(n)'
  BY <1>4, ViewKeeps DEF TypeOK, Settled, SettledComplete
<1>6. \A m \in Nodes : Lap(m)' = Lap(m)
  BY <1>4 DEF OnlyNode, Lap
<1>7. Outcome
  <2>1. n \in Outside => ~Settled(n) /\ Once(n)'
    <3> SUFFICES ASSUME n \in Outside PROVE ~Settled(n) /\ Once(n)'
      OBVIOUS
    <3>1. Once(n) /\ i = 1
      BY <1>3
    <3>2. ~Settled(n)
      BY <1>3, <3>1, OnceViews
    <3>3. Once(n)'
      BY <1>3, <1>4, <3>1 DEF Once, RowSet, RowsBut
    <3> QED
      BY <3>2, <3>3
  <2>2. \A x \in Nodes \ {n} : log'.nodes[x] = log.nodes[x]
    BY <1>4 DEF OnlyNode
  <2> QED
    BY <1>2, <1>5, <2>1, <2>2, OutcomeSettle DEF EndInv
<1>8. \A t \in Tasks : /\ task'[t].todo = {} /\ task'[t].fires = {}
                       /\ t # n => task'[t] = Idle
  BY CompleteTasks
<1>9. \A x \in Outside : Once(x)' /\ (task'[x] # Idle => Settled(x)')
  BY <1>5, <1>7, <1>8 DEF Outcome, Outside, Tasks
<1>10. Lap(Entry)' > 0 => AllDone'
  BY <1>0, <1>6, <1>7, OutcomeKeeps DEF EndInv
<1>11. Lap(Entry)' <= 1 \/ Lap(Entry)' <= Lap(last)' \/ Fires(Back(body))'
  <2>1. CASE n = last
    <3>1. Finished(last) = Lap(last) - 1
      BY <1>3, <2>1 DEF Finished
    <3>2. Lap(Entry) <= Finished(last) + 1
      <4>1. Len(body) \in 1..Len(body)
        BY BodyFacts, EndFacts
      <4> QED
        BY <4>1, LapsClose, EndFacts DEF LastOf
    <3> QED
      BY <1>0, <1>6, <3>1, <3>2
  <2>2. CASE n # last
    <3>1. Fires(Back(body))' <=> Fires(Back(body))
      BY <1>0, <1>2, <2>2, FiringsOwn
    <3> QED
      BY <1>0, <1>6, <3>1 DEF EndInv
  <2> QED
    BY <2>1, <2>2
<1>12. log'.status # "completed"
  <2>1. RunAcceptsLifecycle(View(log))
    BY <1>1 DEF ValidateCompletion
  <2>2. log.status # "completed"
    BY <2>1 DEF RunAcceptsLifecycle, View, ViewStatus
  <2> QED
    BY <1>4, <2>2 DEF OnlyNode
<1>13. ~(Fires(Back(body))' /\ Fires(Exit(body))')
  <2>1. CASE n = last
    BY <1>2, <2>1, OneWay
  <2>2. CASE n # last
    <3>1. (Fires(Back(body))' <=> Fires(Back(body))) /\ (Fires(Exit(body))' <=> Fires(Exit(body)))
      BY <1>0, <1>2, <2>2, FiringsOwn
    <3> QED
      BY <3>1 DEF EndInv
  <2> QED
    BY <2>1, <2>2
<1> QED
  BY <1>8, <1>9, <1>10, <1>11, <1>12, <1>13 DEF EndInv

\* A run whose exit is forced may end anywhere; it is not forced unawares.
LEMMA ForcedStays ==
  ASSUME TypeOK, [Next]_vars, forced' = None
  PROVE  forced = None
<1>1. ASSUME NEW t \in Tasks, Perform(t) PROVE forced = None
  <2>1. PICK d : Carried(t, d)
    BY <1>1, PerformOne
  <2>2. CASE d.act.do \in {"spawn", "lap", "complete", "park", "skip", "resume_run"}
    BY <2>1, <2>2 DEF Carried, DoSpawn, DoLap, DoComplete, DoPark, DoSkip, DoResume
  <2>3. CASE d.act.do \notin {"spawn", "lap", "complete", "park", "skip", "resume_run"}
    <3>1. d.act \in Commands /\ DoCommand(d.act)
      BY <2>1, <2>3, ActionKinds DEF Carried
    <3>2. forced' = forced \/ forced' \in Nodes \cup {End}
      BY <3>1, CommandKinds DEF DoCommand
    <3> QED
      BY <3>2, LoopAssumption
  <2> QED
    BY <2>2, <2>3
<1>2. ASSUME NEW t \in Tasks, Reads(t) PROVE forced = None
  BY <1>2, ReadsDecide
<1>3. CASE \E n \in Nodes : CompleteNode(n)
  BY <1>3 DEF CompleteNode
<1>4. CASE \E x \in Commands : Command(x)
  BY <1>4 DEF Command
<1>5. CASE UNCHANGED vars
  BY <1>5 DEF vars
<1> QED
  BY <1>1, <1>2, <1>3, <1>4, <1>5, TaskStepIs DEF Next

LEMMA EndStep ==
  ASSUME TypeOK, NoneWaiting, Prompt, NEW body, EndsRun(body), LapInv(body), EndInv(body),
         forced = None, [Next]_vars
  PROVE  EndInv(body)'
<1>0. TypeOK' /\ LapInv(body)'
  BY StepSees, LapStep, EndFacts DEF Sees
<1>1. ASSUME Outcome, Keeps(body) PROVE EndInv(body)'
  BY <1>0, <1>1, EndKept
<1>2. ASSUME NEW t \in Tasks, Perform(t) PROVE EndInv(body)'
  BY <1>0, <1>1, <1>2, PerformKeeps
<1>3. ASSUME NEW t \in Tasks, Reads(t) PROVE EndInv(body)'
  BY <1>0, <1>1, <1>3, ReadsKeep
<1>4. ASSUME NEW n \in Nodes, CompleteNode(n) PROVE EndInv(body)'
  BY <1>0, <1>4, CompleteEnds
<1>5. ASSUME NEW x \in Commands, Command(x) PROVE EndInv(body)'
  BY <1>0, <1>1, <1>5, CommandKeeps
<1>6. CASE UNCHANGED vars
  <2>1. /\ \A n \in Nodes : log'.nodes[n] = log.nodes[n]
        /\ fired' = fired /\ log'.status = log.status /\ task' = task
    BY <1>6 DEF vars
  <2>2. log'.status = "completed" => Exited(body)
    BY <2>1 DEF EndInv
  <2>3. Outcome /\ Keeps(body)
    BY <1>0, <2>1, <2>2, RestKeeps
  <2> QED
    BY <1>1, <2>3
<1> QED
  BY <1>2, <1>3, <1>4, <1>5, <1>6, TaskStepIs DEF Next

LEMMA EndInit ==
  ASSUME NEW body, EndsRun(body), Init
  PROVE  EndInv(body)
<1>1. \A n \in Nodes : /\ log.nodes[n].st = "absent" /\ Lap(n) = 0
                       /\ \A i \in Iters : log.nodes[n].row[i] = "none"
  BY DEF Init, FreshRun, AbsentNode, Lap
<1>2. \A x \in Outside : Once(x) /\ task[x] = Idle
  BY <1>1, LoopAssumption DEF Outside, Once, Init, Tasks
<1>3. \A t \in Tasks : task[t].todo = {} /\ task[t].fires = {}
  BY DEF Init, Begin, Idle
<1>4. log.status = "running"
  BY DEF Init, FreshRun
<1>5. ~Fires(Back(body))
  BY DEF EndsRun, Init, Fires
<1>6. Lap(Entry) = 0
  BY <1>1, LoopAssumption
<1> QED
  BY <1>2, <1>3, <1>4, <1>5, <1>6 DEF EndInv

\* When the last member's verdict has left the region, nobody is at work.
LEMMA NobodyAtWork ==
  ASSUME TypeOK, NEW body, EndsRun(body), LapInv(body), EndInv(body), Exited(body)
  PROVE  AtWork = {}
<1> DEFINE last == LastOf(body)
<1>0. /\ last \in Nodes /\ last \in Members /\ TellsLaps(last) /\ Lap(last) \in Nat
      /\ Len(body) \in Nat /\ Len(body) \in 1..Len(body) /\ last = body[Len(body)]
  <2>1. last \in Members /\ last \in Nodes
    BY EndFacts
  <2>2. TellsLaps(last)
    BY <2>1 DEF LapInv
  <2> QED
    BY <2>1, <2>2, LapNumbers, BodyFacts, EndFacts DEF LastOf
<1>1. log.nodes[last].st = "completed" /\ 1 <= Lap(last)
  BY <1>0, LapViews, LapNumbers DEF Exited
<1>2. Lap(Entry) \in Nat /\ Lap(last) <= Lap(Entry) /\ Lap(Entry) <= Lap(last)
  <2>1. Lap(Entry) \in Nat /\ Lap(last) <= Lap(Entry)
    BY <1>0, LapsClose, EndFacts
  <2> QED
    BY <1>0, <1>1, <2>1 DEF EndInv, Exited
<1>3. ASSUME NEW m \in Members PROVE log.nodes[m].st # "running"
  <2>1. PICK k \in 1..Len(body) : m = body[k]
    BY BodyFacts, EndFacts
  <2>2. /\ m \in Nodes /\ TellsLaps(m) /\ Lap(m) \in Nat /\ Finished(m) \in Nat /\ Lap(m) <= Lap(Entry)
    BY <2>1, LapsClose, EndFacts DEF LapInv
  <2>3. CASE k = Len(body)
    BY <1>0, <1>1, <2>1, <2>3
  <2>4. CASE k # Len(body)
    <3>1. k < Len(body)
      BY <1>0, <2>4
    <3>2. Lap(last) <= Finished(m)
      BY <1>0, <2>1, <3>1 DEF LapInv, InOrder
    <3> QED
      BY <1>0, <1>2, <2>2, <3>2 DEF Finished
  <2> QED
    BY <2>3, <2>4
<1>4. ASSUME NEW x \in Outside PROVE ~HoldsSession(log.nodes[x].st)
  <2>1. DoneWith(x) /\ Once(x) /\ x \in Nodes
    BY <1>0, <1>1, <1>2 DEF EndInv, AllDone, Outside
  <2>2. log.nodes[x].st \in {"completed", "skipped", "absent"}
    BY <2>1, OnceViews DEF DoneWith, Gone
  <2> QED
    BY <2>2 DEF HoldsSession
<1>5. ASSUME NEW m \in Members PROVE ~HoldsSession(log.nodes[m].st)
  BY <1>3 DEF LapInv, TellsLaps, HoldsSession
<1> QED
  BY <1>4, <1>5 DEF AtWork, Outside

\* A run that its region ends completes only when every agent is done, unless
\* the operator has routed its exit elsewhere: a chain of sure members whose
\* last verdict goes back or to End, behind nodes that all feed the entry.
THEOREM RunsEndWhole ==
  ASSUME Prompt, NEW CONSTANT body, EndsRun(body)
  PROVE  Spec => []RunEndsWhole
<1> DEFINE Inv == LapInv(body) /\ (forced = None => EndInv(body))
<1>1. Init => Inv
  BY LapInit, EndInit, EndFacts
<1>2. TypeOK /\ NoneWaiting /\ Inv /\ [Next]_vars => Inv'
  <2> SUFFICES ASSUME TypeOK, NoneWaiting, LapInv(body), forced = None => EndInv(body), [Next]_vars
               PROVE  LapInv(body)' /\ (forced' = None => EndInv(body)')
    OBVIOUS
  <2>1. LapInv(body)'
    BY LapStep, EndFacts
  <2>2. forced' = None => forced = None
    BY ForcedStays
  <2> QED
    BY <2>1, <2>2, EndStep
<1>3. TypeOK /\ Inv => RunEndsWhole
  BY NobodyAtWork DEF RunEndsWhole, EndInv
<1> HIDE DEF Inv
<1> QED
  BY <1>1, <1>2, <1>3, NoneWaits, PTL DEF Spec
=============================================================================
