-------------------------- MODULE NodeLifecycleProofs --------------------------
(***************************************************************************)
(* Theorems about one run, for every set of nodes, every bound on the      *)
(* iterations and every region.  Types, that settled laps are kept and that *)
(* work starts in open runs only hold unconditionally.  The others are     *)
(* about pipelines without collections, exhaustion exits and forced routes, *)
(* whose gestures address the latest iteration and whose forced starts     *)
(* nobody overtakes: Sequential.                                           *)
(* A completion or a re-start of an older iteration would break them: the  *)
(* projection takes the node's status from whichever event came last.      *)
(***************************************************************************)
EXTENDS NodeLifecycle, RunLogProofs, FiniteSetTheorems

(***************************************************************************)
(* Types                                                                   *)
(***************************************************************************)
\* A node in the projection has an iteration, one that is not has no row.
Known(r) ==
  /\ r \in Runs
  /\ \A n \in Nodes : IF Present(r, n) THEN r.nodes[n].iter \in Iters
                      ELSE \A i \in Iters : r.nodes[n].row[i] = "none"

\* A node that is not in the map has no row.
LEMMA AbsentBlank == AbsentNode.st = "absent" /\ \A i \in Iters : AbsentNode.row[i] = "none"
  BY DEF AbsentNode

\* An event about one node that leaves it an iteration keeps the Run known.
LEMMA KnownNode ==
  ASSUME NEW r, NEW s, NEW n \in Nodes, Known(r), OnlyNode(r, s, n), Present(s, n),
         s.nodes[n].iter \in Iters
  PROVE  Known(s)
  BY DEF Known, OnlyNode, Present

\* Every node event keeps the Run known.
LEMMA EventTypes ==
  ASSUME NEW r, Known(r), NEW n \in Nodes, NEW i \in Iters
  PROVE  /\ Known(NodeWaiting(r, n, i))
         /\ Known(NodeStarted(r, n, i))
         /\ Known(NodeCompletionReleased(r, n, i))
         /\ Known(NodeCompleted(r, n, i))
         /\ Known(NodeSkipped(r, n, i))
         /\ \A said \in BOOLEAN : Known(NodeAwaitingUser(r, n, i, said))
         /\ Known(NodeResumed(r, n, i))
         /\ Known(AppendFailed(r, n, i))
         /\ Known(AppendInterrupted(r, n, i))
         /\ Known(NodeStopped(r, n, i))
<1> USE DEF Present
<1>0. r \in Runs
  BY DEF Known
<1>1. Known(NodeWaiting(r, n, i)) /\ Known(NodeStarted(r, n, i))
  BY <1>0, KnownNode, WaitingStep, StartedStep
<1>2. Known(NodeInterrupted(r, n, i))
  <2> DEFINE s == NodeInterrupted(r, n, i)
  <2>0. r.nodes[n].iter \in 0..MaxIter /\ i \in Nat /\ MaxIter \in Nat
    BY <1>0, NodeType, IterType, RunLogAssumption DEF NodeStates
  <2>1. OnlyNode(r, s, n)
    BY <1>0, InterruptedStep
  <2>2. CASE i >= r.nodes[n].iter
    BY <1>0, <2>1, <2>2, InterruptedStep, KnownNode
  <2>3. CASE ~(i >= r.nodes[n].iter)
    <3>1. s.nodes[n].st = r.nodes[n].st /\ s.nodes[n].iter = r.nodes[n].iter
      BY <1>0, <2>3, InterruptedStep
    <3>2. r.nodes[n].iter \in Iters
      BY <2>0, <2>3 DEF Iters
    <3>3. r.nodes[n].st = "absent" =>
            \A j \in Iters : s.nodes[n].row[j] = "none"
      BY <1>0, InterruptedStep DEF Known, RowSet, RowsBut
    <3> QED
      BY <2>1, <3>1, <3>2, <3>3 DEF Known, OnlyNode
  <2> QED
    BY <2>2, <2>3
<1>3. CASE Present(r, n)
  <2>1. r.nodes[n].iter \in Iters /\ r.nodes[n].st # "absent"
    BY <1>3 DEF Known
  <2>2. /\ Known(NodeCompleted(r, n, i)) /\ Known(NodeSkipped(r, n, i))
        /\ Known(NodeStopped(r, n, i))
    BY <1>0, <1>3, <2>1, CompletedStep, StoppedStep, KnownNode DEF NodeSkipped
  <2>3. Known(NodeFailed(r, n, i)) /\ Known(NodeCompletionReleased(r, n, i))
    BY <1>0, <1>3, <2>1, FailedStep, ReleasedStep, KnownNode
  <2>4. Known(NodeResumed(r, n, i))
    BY <1>0, <1>3, <2>1, ResumedStep, KnownNode
  <2>5. \A said \in BOOLEAN : Known(NodeAwaitingUser(r, n, i, said))
    BY <1>0, <1>3, <2>1, AwaitingStep, KnownNode
  <2> QED
    BY <1>1, <1>2, <2>2, <2>3, <2>4, <2>5 DEF AppendFailed, AppendInterrupted
<1>4. CASE ~Present(r, n)
  <2>1. Known(NodeSkipped(r, n, i))
    BY <1>0, <1>4, SkippedStep, KnownNode
  <2> QED
    BY <1>1, <1>2, <1>4, <2>1
    DEF AppendFailed, AppendInterrupted, NodeCompletionReleased, NodeCompleted,
        NodeAwaitingUser, NodeResumed, NodeFailed, NodeStopped
<1> QED
  BY <1>3, <1>4

\* So do the two reopenings, which only forget nodes.
LEMMA ReopenTypes ==
  ASSUME NEW r, Known(r)
  PROVE  /\ Known(RunReopened(r)) /\ Known(EmbedReopen(r))
         /\ \A n \in Nodes : RunReopened(r).nodes[n] \in {r.nodes[n], AbsentNode}
         /\ \A n \in Nodes : EmbedReopen(r).nodes[n] \in {r.nodes[n], AbsentNode}
<1>1. \A n \in Nodes : r.nodes[n] \in {r.nodes[n], AbsentNode}
  OBVIOUS
<1>2. /\ RunReopened(r) \in Runs
      /\ \A n \in Nodes : RunReopened(r).nodes[n] \in {r.nodes[n], AbsentNode}
  BY ReopenedStep DEF Known
<1>3. Known(RunReopened(r))
  BY <1>2, AbsentBlank DEF Known, Present
<1> QED
  BY <1>1, <1>2, <1>3 DEF EmbedReopen

\* Invalidating nodes removes them and touches no other.
LEMMA InvalidateType ==
  ASSUME NEW r, Known(r), NEW S \in SUBSET Nodes
  PROVE  /\ Known(Invalidate(r, S))
         /\ \A n \in S : Invalidate(r, S).nodes[n] = AbsentNode
         /\ \A n \in Nodes \ S : Invalidate(r, S).nodes[n] = r.nodes[n]
<1> DEFINE f == [n \in Nodes |-> IF n \in S THEN AbsentNode ELSE r.nodes[n]]
<1>1. f \in [Nodes -> NodeStates] /\ r \in Runs
  BY NodeType, AbsentType DEF Known
<1>2. Invalidate(r, S) = [r EXCEPT !.nodes = f]
  BY <1>1 DEF Invalidate, Runs
<1>3. (\A n \in S : f[n] = AbsentNode) /\ (\A n \in Nodes \ S : f[n] = r.nodes[n])
  OBVIOUS
<1> HIDE DEF f
<1>4. Invalidate(r, S) \in Runs /\ Invalidate(r, S).nodes = f
  BY <1>1, <1>2 DEF Runs
<1> QED
  BY <1>3, <1>4, AbsentBlank DEF Known, Present

Typed(o) == Known(o.log) /\ o.alive \subseteq Sessions

\* What an outcome is made of.
LEMMA OutcomeFields ==
  ASSUME NEW r, NEW a PROVE Outcome(r, a).log = r /\ Outcome(r, a).alive = a
  BY DEF Outcome

\* Spawning a node yields a well-typed outcome.
LEMMA SpawnTypes ==
  ASSUME NEW r, Known(r), NEW a \in SUBSET Sessions, NEW n \in Nodes, NEW i \in Iters,
         NEW o \in SpawnNode(r, a, n, i)
  PROVE  Typed(o)
<1>1. a \cup {<<n, i>>} \subseteq Sessions
  BY DEF Sessions
<1>2. /\ Known(NodeStarted(r, n, i)) /\ Known(NodeWaiting(r, n, i))
      /\ Known(AppendInterrupted(r, n, i))
      /\ Known(AppendInterrupted(NodeStarted(r, n, i), n, i))
  BY EventTypes
<1> QED
  BY <1>1, <1>2, OutcomeFields DEF SpawnNode, Typed

\* Re-driving every owed node yields a well-typed outcome.
LEMMA RedriveTypes ==
  ASSUME NEW r, Known(r), NEW a \in SUBSET Sessions, NEW o \in Redrive(r, a)
  PROVE  Typed(o)
<1>1. CASE o = Outcome(r, a)
  BY <1>1, OutcomeFields DEF Typed
<1>2. CASE \E n \in Nodes, i \in Iters : o \in SpawnNode(r, a, n, i)
  BY <1>2, SpawnTypes
<1> QED
  BY <1>1, <1>2 DEF Redrive

\* The view of a node in the map has an iteration.
LEMMA ViewIterType ==
  ASSUME NEW r, Known(r), NEW n \in Nodes, Present(r, n)
  PROVE  View(r).nodes[n].iter \in Iters
<1>1. r \in Runs /\ r.nodes[n].iter \in Iters
  BY DEF Known
<1> QED
  BY <1>1, ViewKeeps, LatestRowIsMax

TypeInv == Known(log) /\ alive \subseteq Sessions

\* The forced starts under way are of nodes whose starts may be overtaken.
Asked == starting \subseteq Overtaken \X Iters

\* An event about the Run keeps it known.
LEMMA RunEventTypes ==
  ASSUME NEW r, Known(r),
         NEW s \in {RunCompleted(r), RunFailed(r), RunSkipped(r), RunHalted(r),
                    RunArchived(r), RunPaused(r), RunResumed(r), RunInterrupted(r)}
  PROVE  Known(s)
<1>1. r \in Runs
  BY DEF Known
<1>2. s \in Runs /\ s.nodes = r.nodes
  BY <1>1, RunEventStep
<1> QED
  BY <1>2 DEF Known, Present

\* Taking a well-typed outcome keeps the type invariant.
LEMMA BecomeTypes == ASSUME NEW o, Typed(o), Become(o) PROVE TypeInv'
  BY DEF Typed, Become, TypeInv, Known, Present

\* The steps of the scheduler keep the type invariant.
LEMMA SchedulerTypes == ASSUME TypeInv, SchedulerStep PROVE TypeInv'
<1> USE DEF TypeInv
<1>1. ASSUME RouteToEnd PROVE TypeInv'
  BY <1>1, RunEventTypes DEF RouteToEnd
<1>2. ASSUME NEW n \in Nodes, Schedule(n) PROVE TypeInv'
  BY <1>2, SpawnTypes, BecomeTypes DEF Schedule, Proposed
<1>3. ASSUME NEW n \in Nodes, RetryWaiting(n) PROVE TypeInv'
  <2>1. View(log).nodes[n].iter \in Iters
    BY <1>3, ViewIterType DEF RetryWaiting, Present
  <2> QED
    BY <1>3, <2>1, SpawnTypes, BecomeTypes DEF RetryWaiting
<1> QED
  BY <1>1, <1>2, <1>3 DEF SchedulerStep

\* So do the calls of an agent and the end of its session.
LEMMA AgentTypes ==
  ASSUME TypeInv, NEW n \in Nodes, NEW i \in Iters,
         AgentStep(n, i) \/ SessionDies(n, i) \/ SweepDeadSession(n)
  PROVE  TypeInv'
<1> USE DEF TypeInv
<1>1. CASE Complete(n, i)
  BY <1>1, EventTypes DEF Complete, DeclareWait
<1>2. CASE WaitUser(n, i)
  BY <1>2, EventTypes DEF WaitUser, DeclareWait
<1>3. CASE Fail(n, i)
  <2>1. Known(AppendFailed(log, n, i))
    BY EventTypes
  <2> QED
    BY <1>3, <2>1, RunEventTypes DEF Fail
<1>4. CASE SkipRun(n, i)
  <2>1. Known(NodeSkipped(log, n, i))
    BY EventTypes
  <2> QED
    BY <1>4, <2>1, RunEventTypes DEF SkipRun
<1>5. CASE SessionDies(n, i)
  BY <1>5 DEF SessionDies
<1>6. CASE SweepDeadSession(n)
  <2>1. log \in Runs /\ Present(log, n)
    BY <1>6, ViewKeeps DEF SweepDeadSession, Known, Present
  <2>2. View(log).nodes[n].iter \in Iters
    BY <2>1, ViewIterType
  <2> QED
    BY <1>6, <2>2, EventTypes DEF SweepDeadSession
<1> QED
  BY <1>1, <1>2, <1>3, <1>4, <1>5, <1>6 DEF AgentStep

\* So do the gestures on a node.
LEMMA GestureTypes ==
  ASSUME TypeInv, NEW n \in Nodes, NEW i \in Iters, NodeGesture(n, i)
  PROVE  TypeInv'
<1> DEFINE r == EmbedReopen(log)
<1> USE DEF TypeInv
<1>0. Known(r)
  BY ReopenTypes
<1>1. CASE Release(n, i) \/ LiftWait(n, i) \/ KillNode(n, i)
  BY <1>1, EventTypes DEF Release, LiftWait, KillNode
<1>2. CASE MarkNodeDone(n, i)
  <2>1. Known(NodeCompleted(r, n, i))
    BY <1>0, EventTypes
  <2> QED
    BY <1>0, <1>2, <2>1 DEF MarkNodeDone
<1>3. CASE SkipNode(n, i)
  <2>1. Known(NodeSkipped(r, n, i))
    BY <1>0, EventTypes
  <2> QED
    BY <1>0, <1>3, <2>1 DEF SkipNode
<1>4. CASE RestartNode(n, i)
  <2>1. Typed(Outcome(r, alive))
    BY <1>0, OutcomeFields DEF Typed
  <2>2. \A o \in SpawnNode(r, alive \ {<<n, i>>}, n, i) : Typed(o)
    BY <1>0, SpawnTypes
  <2> QED
    BY <1>4, <2>1, <2>2, BecomeTypes DEF RestartNode
<1>5. CASE RecoverNode(n, i)
  <2>1. alive \cup {<<n, i>>} \subseteq Sessions
    BY DEF Sessions
  <2>2. Known(NodeStarted(r, n, i))
    BY <1>0, EventTypes
  <2>3. /\ Typed(Outcome(r, alive)) /\ Typed(Outcome(NodeStarted(r, n, i), alive))
        /\ Typed(Outcome(NodeStarted(r, n, i), alive \cup {<<n, i>>}))
    BY <1>0, <2>1, <2>2, OutcomeFields DEF Typed
  <2> QED
    BY <1>5, <2>3, BecomeTypes DEF RecoverNode
<1> QED
  BY <1>1, <1>2, <1>3, <1>4, <1>5 DEF NodeGesture

\* So do all the steps of the user.
LEMMA UserTypes == ASSUME TypeInv, UserStep PROVE TypeInv'
<1> DEFINE r == EmbedReopen(log)
<1> USE DEF TypeInv
<1>0. Known(r)
  BY ReopenTypes
<1>1. ASSUME NEW n \in Nodes, StopNode(n) PROVE TypeInv'
  <2>1. View(log).nodes[n].iter \in Iters
    BY <1>1, ViewIterType DEF StopNode, Present
  <2> QED
    BY <1>1, <2>1, EventTypes DEF StopNode
<1>2. ASSUME NEW n \in Nodes, StartNode(n) PROVE TypeInv'
  <2> DEFINE i == View(r).nodes[n].iter + 1
             started == NodeStarted(r, n, i)
  <2>1. i \in Iters
    BY <1>2 DEF StartNode
  <2>2. alive \cup {<<n, i>>} \subseteq Sessions
    BY <2>1 DEF Sessions
  <2>3. Known(started)
    BY <1>0, <2>1, EventTypes
  <2> HIDE DEF i
  <2>4. /\ Typed(Outcome(r, alive)) /\ Typed(Outcome(started, alive))
        /\ Typed(Outcome(started, alive \cup {<<n, i>>}))
    BY <1>0, <2>2, <2>3, OutcomeFields DEF Typed
  <2> QED
    BY <1>2, <2>4, BecomeTypes DEF StartNode, i
<1>3. ASSUME NEW n \in Nodes, RetryNode(n) PROVE TypeInv'
  <2> DEFINE current == IF Present(log, n) THEN View(log).nodes[n].iter ELSE 1
             next == IF n \in Regions THEN current ELSE current + 1
             running == r.nodes[n].st = "running"
             stopped == IF running THEN NodeStopped(r, n, current) ELSE r
             left == IF running THEN alive \ {<<n, current>>} ELSE alive
             gone == Invalidate(stopped, Downstream[n] \cup {n})
  <2>1. current \in Iters /\ next \in Iters
    BY <1>3, ViewIterType, RunLogAssumption DEF RetryNode, Iters
  <2>2. Known(stopped) /\ left \subseteq Sessions
    BY <1>0, <2>1, EventTypes
  <2>3. Downstream[n] \cup {n} \in SUBSET Nodes
    BY LifecycleAssumption
  <2> HIDE DEF current, stopped, left
  <2>4. Known(gone)
    BY <2>2, <2>3, InvalidateType
  <2> HIDE DEF next, gone
  <2>5. \A o \in SpawnNode(gone, left, n, next) : Typed(o)
    BY <2>1, <2>2, <2>4, SpawnTypes
  <2>6. Typed(Outcome(r, alive))
    BY <1>0, OutcomeFields DEF Typed
  <2> QED
    BY <1>3, <2>5, <2>6, BecomeTypes DEF RetryNode, next, gone, current, stopped, left
<1>4. CASE PauseRun \/ CleanupRun
  BY <1>4, RunEventTypes DEF PauseRun, CleanupRun
<1>5. CASE ResumeRun
  <2>1. Known(RunResumed(log)) /\ Known(RunReopened(log))
    BY RunEventTypes, ReopenTypes
  <2> QED
    BY <1>5, <2>1, RedriveTypes, BecomeTypes DEF ResumeRun
<1>6. CASE ReopenRun
  BY <1>6, ReopenTypes, RedriveTypes, BecomeTypes DEF ReopenRun
<1> QED
  BY <1>1, <1>2, <1>3, <1>4, <1>5, <1>6 DEF UserStep

\* So do the two halves of a forced start.
LEMMA ForcedTypes == ASSUME TypeInv, ForcedStart PROVE TypeInv'
<1> USE DEF TypeInv
<1>1. ASSUME NEW n \in Nodes, AskStart(n) PROVE TypeInv'
  BY <1>1, ReopenTypes DEF AskStart
<1>2. ASSUME NEW n \in Nodes, NEW i \in Iters, OpenStarted(n, i) PROVE TypeInv'
  <2> DEFINE started == AppendStarted(log, n, i)
  <2>1. Known(started)
    BY EventTypes DEF AppendStarted
  <2>2. alive \cup {<<n, i>>} \subseteq Sessions
    BY DEF Sessions
  <2> HIDE DEF started
  <2>3. /\ Typed(Outcome(log, alive)) /\ Typed(Outcome(started, alive))
        /\ Typed(Outcome(started, alive \cup {<<n, i>>}))
    BY <2>1, <2>2, OutcomeFields DEF Typed
  <2> QED
    BY <1>2, <2>3, BecomeTypes DEF OpenStarted, started
<1> QED
  BY <1>1, <1>2 DEF ForcedStart

\* Only such a node's start is ever under way.
LEMMA AskedInit == Init => Asked
  BY DEF Init, Asked

LEMMA AskedStep == Asked /\ [Next]_vars => Asked'
<1> SUFFICES ASSUME Asked, [Next]_vars PROVE Asked'
  OBVIOUS
<1>1. CASE UNCHANGED starting
  BY <1>1 DEF Asked
<1>2. ASSUME NEW n \in Nodes, AskStart(n) PROVE Asked'
  BY <1>2 DEF AskStart, Asked
<1>3. ASSUME NEW n \in Nodes, NEW i \in Iters, OpenStarted(n, i) PROVE Asked'
  BY <1>3 DEF OpenStarted, Asked
<1> QED
  BY <1>1, <1>2, <1>3 DEF Next, ForcedStart, vars

\* The initial state is well typed.
LEMMA TypeInvInit == Init => TypeInv
  BY FreshType, AbsentBlank DEF Init, TypeInv, Known, Present, FreshRun

\* Every step keeps the type invariant.
LEMMA TypeInvStep == TypeInv /\ [Next]_vars => TypeInv'
<1>1. ASSUME TypeInv, UNCHANGED vars PROVE TypeInv'
  BY <1>1 DEF TypeInv, Known, Present, vars
<1> QED
  BY <1>1, SchedulerTypes, AgentTypes, GestureTypes, UserTypes, ForcedTypes, RunLogAssumption
  DEF Next, HandlerStep, Iters

\* Whatever the run's scheduler, agents and user do to it, its projection and
\* its sessions have the type the module gives them.
THEOREM LifecycleTypeOK == Spec => []TypeOK
<1>1. TypeInv /\ Asked => TypeOK
  BY LifecycleAssumption DEF TypeInv, Asked, TypeOK, Known, Sessions
<1> QED
  BY <1>1, TypeInvInit, TypeInvStep, AskedInit, AskedStep, PTL DEF Spec

(***************************************************************************)
(* The live iteration                                                      *)
(*                                                                         *)
(* None of the three invariants is inductive.  That the latest row is the  *)
(* live one is what makes a start on top of it safe, the raw `iter' is what *)
(* a failure or an interruption compares with, and a completion is allowed *)
(* on a failed row, so such a row must have no agent left: CleanRun.       *)
(***************************************************************************)
Sequential == LapNodes = {} /\ Routed = {} /\ LatestOnly /\ Overtaken = {}

LiveRow(x, i) == HoldsSession(x.row[i])

CleanNode(x) ==
  /\ \A i \in Iters : LiveRow(x, i) =>
       /\ x.iter = i /\ CanProgress(x.st)
       /\ \A j \in Iters : x.row[j] # "none" => j <= i
  /\ HoldsSession(x.st) => \E i \in Iters : LiveRow(x, i)

CleanRun(r, a) ==
  /\ Known(r) /\ a \subseteq Sessions
  /\ \A n \in Nodes : CleanNode(r.nodes[n])
  /\ \A n \in Nodes, i \in Iters : r.nodes[n].row[i] = "failed" => <<n, i>> \notin a

\* No iteration but i is being worked on; and no iteration is later than i.
OnlyLive(r, n, i) == \A j \in Iters : LiveRow(r.nodes[n], j) => j = i
Latest(r, n, i) == \A j \in Iters : r.nodes[n].row[j] # "none" => j <= i

\* How the predicates on statuses relate.
LEMMA StatusFacts ==
  \A st : /\ HoldsSession(st) => CanProgress(st)
          /\ HoldsSession(st) => st # "none" /\ st # "failed"
          /\ st \in {"completed", "skipped", "failed", "interrupted", "stopped", "absent"}
               => ~HoldsSession(st)
  BY DEF HoldsSession, CanProgress

\* A node that is not in the map is clean.
LEMMA AbsentClean == CleanNode(AbsentNode)
  BY DEF AbsentNode, CleanNode, LiveRow, HoldsSession, CanProgress

\* A step on one node, seen from the others.
LEMMA OneNodeClean ==
  ASSUME NEW r, NEW s, NEW a, NEW b, NEW n \in Nodes,
         CleanRun(r, a), OnlyNode(r, s, n), Known(s),
         b \subseteq a \cup ({n} \X Iters),
         CleanNode(s.nodes[n]),
         \A i \in Iters : s.nodes[n].row[i] = "failed" => <<n, i>> \notin b
  PROVE  CleanRun(s, b)
<1>1. b \subseteq Sessions
  BY DEF CleanRun, Sessions
<1>2. ASSUME NEW m \in Nodes \ {n}
      PROVE  /\ CleanNode(s.nodes[m])
             /\ \A i \in Iters : s.nodes[m].row[i] = "failed" => <<m, i>> \notin b
  BY <1>2 DEF CleanRun, OnlyNode
<1> QED
  BY <1>1, <1>2 DEF CleanRun

\* Losing sessions keeps a Run clean.
LEMMA FewerSessionsClean ==
  ASSUME NEW r, NEW a, NEW b \in SUBSET a, CleanRun(r, a)
  PROVE  CleanRun(r, b)
  BY DEF CleanRun

\* Keeping or forgetting nodes keeps a Run clean.
LEMMA SameNodesClean ==
  ASSUME NEW r, NEW s, NEW a, CleanRun(r, a), Known(s),
         \A n \in Nodes : s.nodes[n] \in {r.nodes[n], AbsentNode}
  PROVE  CleanRun(s, a)
  BY AbsentClean, AbsentBlank DEF CleanRun

\* An event about the Run keeps it clean.
LEMMA RunEventClean ==
  ASSUME NEW r, NEW a, CleanRun(r, a),
         NEW s \in {RunCompleted(r), RunFailed(r), RunSkipped(r), RunHalted(r),
                    RunArchived(r), RunPaused(r), RunResumed(r), RunInterrupted(r)}
  PROVE  CleanRun(s, a)
<1>1. Known(r) /\ r \in Runs
  BY DEF CleanRun, Known
<1>2. Known(s) /\ s.nodes = r.nodes
  BY <1>1, RunEventTypes, RunEventStep
<1> QED
  BY <1>2, SameNodesClean

\* Reopening keeps a Run clean.
LEMMA ReopenClean ==
  ASSUME NEW r, NEW a, CleanRun(r, a)
  PROVE  CleanRun(RunReopened(r), a) /\ CleanRun(EmbedReopen(r), a)
  BY ReopenTypes, SameNodesClean DEF CleanRun

(***************************************************************************)
(* Node events                                                             *)
(***************************************************************************)
LEMMA StartedClean ==
  ASSUME NEW r, NEW a, CleanRun(r, a), NEW n \in Nodes, NEW i \in Iters,
         OnlyLive(r, n, i), Latest(r, n, i), NEW b \in {a, a \cup {<<n, i>>}}
  PROVE  CleanRun(NodeStarted(r, n, i), b)
<1> DEFINE s == NodeStarted(r, n, i)
<1>1. r \in Runs /\ Known(r) /\ Known(s)
  BY EventTypes DEF CleanRun, Known
<1>2. /\ OnlyNode(r, s, n) /\ s.nodes[n].st = "running" /\ s.nodes[n].iter = i
      /\ s.nodes[n].row[i] = "running" /\ RowsBut(s.nodes[n], r.nodes[n], i)
  BY <1>1, StartedStep
<1> HIDE DEF s
<1>3. CleanNode(s.nodes[n])
  BY <1>2, IterType DEF CleanNode, LiveRow, RowsBut, OnlyLive, Latest, HoldsSession, CanProgress
<1>4. \A j \in Iters : s.nodes[n].row[j] = "failed" => <<n, j>> \notin b
  BY <1>2 DEF CleanRun, RowsBut
<1> QED
  BY <1>1, <1>2, <1>3, <1>4, OneNodeClean DEF s

\* NodeWaiting keeps a Run clean when no other iteration is live.
LEMMA WaitingClean ==
  ASSUME NEW r, NEW a, CleanRun(r, a), NEW n \in Nodes, NEW i \in Iters, OnlyLive(r, n, i)
  PROVE  CleanRun(NodeWaiting(r, n, i), a)
<1> DEFINE s == NodeWaiting(r, n, i)
<1>1. r \in Runs /\ Known(r) /\ Known(s)
  BY EventTypes DEF CleanRun, Known
<1>2. /\ OnlyNode(r, s, n) /\ s.nodes[n].st = "waiting" /\ s.nodes[n].iter = i
      /\ s.nodes[n].row = r.nodes[n].row
  BY <1>1, WaitingStep
<1> HIDE DEF s
<1>3. CleanNode(s.nodes[n])
  BY <1>2 DEF CleanRun, CleanNode, LiveRow, OnlyLive, HoldsSession, CanProgress
<1>4. \A j \in Iters : s.nodes[n].row[j] = "failed" => <<n, j>> \notin a
  BY <1>2 DEF CleanRun
<1> QED
  BY <1>1, <1>2, <1>3, <1>4, OneNodeClean DEF s

\* A row that stops being worked on: what CleanNode asks of the node.
LEMMA EndedClean ==
  ASSUME NEW r, NEW s, NEW a, NEW n \in Nodes, NEW i \in Iters, CleanRun(r, a),
         OnlyNode(r, s, n), Known(s), OnlyLive(r, n, i),
         NEW e \in {"completed", "failed", "interrupted", "stopped"},
         RowSet(s.nodes[n], r.nodes[n], i, e),
         ~HoldsSession(s.nodes[n].st) \/
           (s.nodes[n].st = r.nodes[n].st /\ ~LiveRow(r.nodes[n], i)),
         NEW b \in SUBSET a, e = "failed" => <<n, i>> \notin b
  PROVE  CleanRun(s, b)
<1>1. \A j \in Iters : ~LiveRow(s.nodes[n], j)
  BY DEF RowSet, RowsBut, OnlyLive, LiveRow, HoldsSession
<1>2. ~HoldsSession(s.nodes[n].st)
  <2>1. CASE s.nodes[n].st = r.nodes[n].st /\ ~LiveRow(r.nodes[n], i)
    BY <2>1 DEF CleanRun, CleanNode, OnlyLive
  <2> QED
    BY <2>1
<1>3. CleanNode(s.nodes[n])
  BY <1>1, <1>2 DEF CleanNode
<1>4. \A j \in Iters : s.nodes[n].row[j] = "failed" => <<n, j>> \notin b
  BY DEF CleanRun, RowSet, RowsBut
<1> QED
  BY <1>3, <1>4, OneNodeClean

\* Completing the only live iteration keeps a Run clean.
LEMMA CompletedClean ==
  ASSUME NEW r, NEW a, CleanRun(r, a), NEW n \in Nodes, NEW i \in Iters, OnlyLive(r, n, i),
         NEW b \in SUBSET a
  PROVE  CleanRun(NodeCompleted(r, n, i), b)
<1>1. r \in Runs /\ Known(NodeCompleted(r, n, i))
  BY EventTypes DEF CleanRun, Known
<1>2. CASE Present(r, n)
  <2> DEFINE s == NodeCompleted(r, n, i)
  <2>1. /\ OnlyNode(r, s, n) /\ s.nodes[n].st = "completed"
        /\ RowSet(s.nodes[n], r.nodes[n], i, "completed")
    BY <1>1, <1>2, CompletedStep
  <2> HIDE DEF s
  <2>2. ~HoldsSession(s.nodes[n].st)
    BY <2>1, StatusFacts
  <2> QED
    BY <1>1, <2>1, <2>2, EndedClean DEF s
<1>3. CASE ~Present(r, n)
  BY <1>3, FewerSessionsClean DEF NodeCompleted
<1> QED
  BY <1>2, <1>3

\* So does skipping it.
LEMMA SkippedClean ==
  ASSUME NEW r, NEW a, CleanRun(r, a), NEW n \in Nodes, NEW i \in Iters, OnlyLive(r, n, i),
         NEW b \in SUBSET a
  PROVE  CleanRun(NodeSkipped(r, n, i), b)
<1>1. r \in Runs /\ Known(NodeSkipped(r, n, i))
  BY EventTypes DEF CleanRun, Known
<1>2. CASE Present(r, n)
  BY <1>2, CompletedClean DEF NodeSkipped
<1>3. CASE ~Present(r, n)
  <2> DEFINE s == NodeSkipped(r, n, i)
  <2>1. /\ OnlyNode(r, s, n) /\ s.nodes[n].st = "skipped"
        /\ \A j \in Iters : s.nodes[n].row[j] = IF j = i THEN "skipped" ELSE "none"
    BY <1>1, <1>3, SkippedStep
  <2> HIDE DEF s
  <2>2. CleanNode(s.nodes[n]) /\ \A j \in Iters : s.nodes[n].row[j] # "failed"
    BY <2>1 DEF CleanNode, LiveRow, HoldsSession
  <2> QED
    BY <1>1, <2>1, <2>2, OneNodeClean DEF s
<1> QED
  BY <1>2, <1>3

\* So does stopping it.
LEMMA StoppedClean ==
  ASSUME NEW r, NEW a, CleanRun(r, a), NEW n \in Nodes, NEW i \in Iters, OnlyLive(r, n, i),
         Present(r, n), NEW b \in SUBSET a
  PROVE  CleanRun(NodeStopped(r, n, i), b)
<1>1. r \in Runs /\ Known(NodeStopped(r, n, i))
  BY EventTypes DEF CleanRun, Known
<1> DEFINE s == NodeStopped(r, n, i)
<1>2. /\ OnlyNode(r, s, n) /\ s.nodes[n].st = "stopped"
      /\ RowSet(s.nodes[n], r.nodes[n], i, "stopped")
  BY <1>1, StoppedStep
<1> HIDE DEF s
<1>3. ~HoldsSession(s.nodes[n].st)
  BY <1>2, StatusFacts
<1> QED
  BY <1>1, <1>2, <1>3, EndedClean DEF s

\* A failure, or nothing, as the guard says; the session goes with it.
LEMMA FailClean ==
  ASSUME NEW r, NEW a, CleanRun(r, a), NEW n \in Nodes, NEW i \in Iters
  PROVE  CleanRun(AppendFailed(r, n, i), a \ {<<n, i>>})
<1> DEFINE s == NodeFailed(r, n, i)
           node == r.nodes[n]
           b == a \ {<<n, i>>}
<1>1. r \in Runs /\ Known(r)
  BY DEF CleanRun, Known
<1>2. CASE AppendFailed(r, n, i) = r
  BY <1>2, FewerSessionsClean
<1>3. CASE AppendFailed(r, n, i) = s /\ ValidateFail(View(r), n, i) = "allow"
  <2>1. node.row[i] \in {"running", "awaiting", "interrupted"}
    <3>1. node.row[i] \in RowStatuses \cup {"none"}
      BY <1>1, NodeType DEF NodeStates
    <3> QED
      BY <1>1, <1>3, <3>1, ViewKeeps DEF ValidateFail, RowStatuses
  <2>2. Present(r, n)
    BY <1>1, <2>1 DEF Known
  <2>3. /\ Known(s) /\ OnlyNode(r, s, n) /\ RowSet(s.nodes[n], node, i, "failed")
        /\ s.nodes[n].st = IF i >= node.iter THEN "failed" ELSE node.st
        /\ s.nodes[n].iter = node.iter
    <3>1. Known(s)
      BY <1>1, <1>3, EventTypes
    <3> QED
      BY <1>1, <2>2, <3>1, FailedStep
  <2>4. node.iter \in Nat /\ i \in Nat
    BY <1>1, NodeType, IterType, RunLogAssumption DEF NodeStates
  <2>5. CleanNode(node)
    BY DEF CleanRun
  <2> HIDE DEF s
  <2>6. CleanNode(s.nodes[n])
    <3>1. CASE LiveRow(node, i)
      <4>1. node.iter = i
        BY <2>5, <3>1 DEF CleanNode
      <4>2. s.nodes[n].st = "failed"
        BY <2>3, <2>4, <4>1
      <4>3. \A j \in Iters : ~LiveRow(s.nodes[n], j)
        BY <2>3, <2>5, <4>1 DEF CleanNode, RowSet, RowsBut, LiveRow, HoldsSession
      <4> QED
        BY <4>2, <4>3 DEF CleanNode, HoldsSession
    <3>2. CASE ~LiveRow(node, i) /\ i >= node.iter
      <4>1. ASSUME NEW j \in Iters, LiveRow(node, j) PROVE FALSE
        <5>1. j = node.iter /\ i <= j /\ j # i
          BY <2>1, <2>5, <3>2, <4>1 DEF CleanNode
        <5> QED
          BY <2>4, <3>2, <5>1
      <4>2. \A j \in Iters : ~LiveRow(s.nodes[n], j)
        BY <2>3, <4>1 DEF RowSet, RowsBut, LiveRow, HoldsSession
      <4> QED
        BY <2>3, <3>2, <4>2 DEF CleanNode, HoldsSession
    <3>3. CASE ~LiveRow(node, i) /\ ~(i >= node.iter)
      <4>1. s.nodes[n].st = node.st /\ s.nodes[n].iter = node.iter
        BY <2>3, <3>3
      <4>2. \A j \in Iters : LiveRow(s.nodes[n], j) <=> LiveRow(node, j)
        BY <2>3, <3>3 DEF RowSet, RowsBut, LiveRow, HoldsSession
      <4>3. \A j \in Iters : s.nodes[n].row[j] # "none" => node.row[j] # "none"
        BY <2>3 DEF RowSet, RowsBut
      <4> QED
        BY <2>5, <4>1, <4>2, <4>3 DEF CleanNode
    <3> QED
      BY <3>1, <3>2, <3>3
  <2>7. \A j \in Iters : s.nodes[n].row[j] = "failed" => <<n, j>> \notin b
    BY <2>3 DEF CleanRun, RowSet, RowsBut
  <2> QED
    BY <1>3, <2>3, <2>6, <2>7, OneNodeClean
<1> QED
  BY <1>2, <1>3 DEF AppendFailed

\* So does interrupting it.
LEMMA InterruptClean ==
  ASSUME NEW r, NEW a, CleanRun(r, a), NEW n \in Nodes, NEW i \in Iters, OnlyLive(r, n, i)
  PROVE  CleanRun(AppendInterrupted(r, n, i), a)
<1> DEFINE s == NodeInterrupted(r, n, i)
           node == r.nodes[n]
<1>1. r \in Runs /\ Known(r) /\ Known(AppendInterrupted(r, n, i))
  BY EventTypes DEF CleanRun, Known
<1>2. CASE AppendInterrupted(r, n, i) = s
  <2>1. /\ OnlyNode(r, s, n) /\ RowSet(s.nodes[n], node, i, "interrupted")
        /\ s.nodes[n].st = IF i >= node.iter THEN "interrupted" ELSE node.st
    BY <1>1, InterruptedStep
  <2>2. node.iter \in Nat /\ i \in Nat /\ CleanNode(node)
    BY <1>1, NodeType, IterType, RunLogAssumption DEF NodeStates, CleanRun
  <2> HIDE DEF s
  <2>3. CASE i >= node.iter
    <3>1. ~HoldsSession(s.nodes[n].st)
      BY <2>1, <2>3, StatusFacts
    <3> QED
      BY <1>1, <1>2, <2>1, <3>1, EndedClean
  <2>4. CASE ~(i >= node.iter)
    <3>1. ~LiveRow(node, i)
      BY <2>2, <2>4 DEF CleanNode
    <3> QED
      BY <1>1, <1>2, <2>1, <2>4, <3>1, EndedClean
  <2> QED
    BY <2>3, <2>4
<1> QED
  BY <1>2 DEF AppendInterrupted

\* A live row that stays live, under a status that says so.
LEMMA StillLiveClean ==
  ASSUME NEW r, NEW s, NEW a, NEW n \in Nodes, CleanRun(r, a), OnlyNode(r, s, n), Known(s),
         s.nodes[n].iter = r.nodes[n].iter,
         \A j \in Iters : /\ LiveRow(s.nodes[n], j) <=> LiveRow(r.nodes[n], j)
                          /\ s.nodes[n].row[j] \in {"none", "failed"} =>
                               s.nodes[n].row[j] = r.nodes[n].row[j]
                          /\ r.nodes[n].row[j] = "none" => s.nodes[n].row[j] = "none",
         \/ s.nodes[n].st = r.nodes[n].st
         \/ HoldsSession(s.nodes[n].st) /\ \E j \in Iters : LiveRow(r.nodes[n], j)
  PROVE  CleanRun(s, a)
<1>1. CleanNode(s.nodes[n])
  BY StatusFacts DEF CleanRun, CleanNode
<1>2. \A j \in Iters : s.nodes[n].row[j] = "failed" => <<n, j>> \notin a
  BY DEF CleanRun
<1> QED
  BY <1>1, <1>2, OneNodeClean

\* Parking a live iteration keeps a Run clean.
LEMMA AwaitingClean ==
  ASSUME NEW r, NEW a, CleanRun(r, a), NEW n \in Nodes, NEW i \in Iters, NEW said \in BOOLEAN,
         LiveRow(r.nodes[n], i)
  PROVE  CleanRun(NodeAwaitingUser(r, n, i, said), a)
<1> DEFINE s == NodeAwaitingUser(r, n, i, said)
<1>1. r \in Runs /\ Known(s) /\ Present(r, n)
  BY EventTypes, StatusFacts DEF CleanRun, Known, LiveRow
<1>2. /\ OnlyNode(r, s, n) /\ s.nodes[n].st = "awaiting"
      /\ s.nodes[n].iter = r.nodes[n].iter /\ RowSet(s.nodes[n], r.nodes[n], i, "awaiting")
  BY <1>1, AwaitingStep
<1> HIDE DEF s
<1>3. \A j \in Iters : /\ LiveRow(s.nodes[n], j) <=> LiveRow(r.nodes[n], j)
                       /\ s.nodes[n].row[j] \in {"none", "failed"} =>
                            s.nodes[n].row[j] = r.nodes[n].row[j]
                       /\ r.nodes[n].row[j] = "none" => s.nodes[n].row[j] = "none"
  BY <1>2 DEF RowSet, RowsBut, LiveRow, HoldsSession
<1>4. HoldsSession(s.nodes[n].st)
  BY <1>2 DEF HoldsSession
<1> QED
  BY <1>1, <1>2, <1>3, <1>4, StillLiveClean DEF s

\* Releasing the completion of a live iteration keeps a Run clean.
LEMMA ReleasedClean ==
  ASSUME NEW r, NEW a, CleanRun(r, a), NEW n \in Nodes, NEW i \in Iters,
         LiveRow(r.nodes[n], i)
  PROVE  CleanRun(NodeCompletionReleased(r, n, i), a)
<1> DEFINE s == NodeCompletionReleased(r, n, i)
<1>1. r \in Runs /\ Known(s) /\ Present(r, n)
  BY EventTypes, StatusFacts DEF CleanRun, Known, LiveRow
<1>2. /\ OnlyNode(r, s, n)
      /\ s.nodes[n].st = IF i = r.nodes[n].iter THEN "running" ELSE r.nodes[n].st
      /\ s.nodes[n].iter = r.nodes[n].iter /\ RowSet(s.nodes[n], r.nodes[n], i, "running")
  BY <1>1, ReleasedStep
<1> HIDE DEF s
<1>3. \A j \in Iters : /\ LiveRow(s.nodes[n], j) <=> LiveRow(r.nodes[n], j)
                       /\ s.nodes[n].row[j] \in {"none", "failed"} =>
                            s.nodes[n].row[j] = r.nodes[n].row[j]
                       /\ r.nodes[n].row[j] = "none" => s.nodes[n].row[j] = "none"
  BY <1>2 DEF RowSet, RowsBut, LiveRow, HoldsSession
<1>4. s.nodes[n].st = r.nodes[n].st \/ HoldsSession(s.nodes[n].st)
  BY <1>2 DEF HoldsSession
<1> QED
  BY <1>1, <1>2, <1>3, <1>4, StillLiveClean DEF s

\* Resuming a parked node keeps a Run clean.
LEMMA ResumedClean ==
  ASSUME NEW r, NEW a, CleanRun(r, a), NEW n \in Nodes, NEW i \in Iters,
         r.nodes[n].st = "awaiting"
  PROVE  CleanRun(NodeResumed(r, n, i), a)
<1> DEFINE s == NodeResumed(r, n, i)
<1>1. r \in Runs /\ Known(s) /\ Present(r, n)
  BY EventTypes DEF CleanRun, Known, Present
<1>2. /\ OnlyNode(r, s, n) /\ s.nodes[n].st \in {"running", "awaiting"}
      /\ s.nodes[n].iter = r.nodes[n].iter /\ RowsBut(s.nodes[n], r.nodes[n], i)
      /\ s.nodes[n].row[i] = IF r.nodes[n].row[i] = "awaiting" THEN "running"
                             ELSE r.nodes[n].row[i]
  BY <1>1, ResumedStep
<1> HIDE DEF s
<1>3. \A j \in Iters : /\ LiveRow(s.nodes[n], j) <=> LiveRow(r.nodes[n], j)
                       /\ s.nodes[n].row[j] \in {"none", "failed"} =>
                            s.nodes[n].row[j] = r.nodes[n].row[j]
                       /\ r.nodes[n].row[j] = "none" => s.nodes[n].row[j] = "none"
  BY <1>2 DEF RowsBut, LiveRow, HoldsSession
<1>4. HoldsSession(s.nodes[n].st) /\ \E j \in Iters : LiveRow(r.nodes[n], j)
  BY <1>2 DEF HoldsSession, CleanRun, CleanNode
<1> QED
  BY <1>1, <1>2, <1>3, <1>4, StillLiveClean DEF s

(***************************************************************************)
(* Starting                                                                *)
(***************************************************************************)
LEMMA LatestRowOf ==
  ASSUME NEW r, Known(r), NEW n \in Nodes
  PROVE  /\ Present(r, n) => Latest(r, n, View(r).nodes[n].iter)
         /\ \A i \in Iters : ~Present(r, n) => Latest(r, n, i)
<1>1. r \in Runs
  BY DEF Known
<1>2. \A j \in Iters : r.nodes[n].row[j] # "none" <=> j \in Rows(r, n)
  BY DEF Rows
<1> QED
  BY <1>1, <1>2, ViewKeeps, LatestRowIsMax DEF Known, Latest

\* The guard lets an iteration start only if no other one is being worked on.
LEMMA AllowedOnlyLive ==
  ASSUME NEW r, NEW a, CleanRun(r, a), LapNodes = {}, NEW n \in Nodes, NEW i \in Iters,
         ValidateStart(View(r), n, i) # "reject"
  PROVE  OnlyLive(r, n, i)
<1> DEFINE v == View(r)
<1>1. r \in Runs /\ CleanNode(r.nodes[n])
  BY DEF CleanRun, Known
<1>2. \A j \in LiveIteration(v, n) : j = i
  BY DEF ValidateStart, AnotherLive, IsOpenCollectionLap
<1>3. ASSUME NEW j \in Iters, LiveRow(r.nodes[n], j) PROVE j = i
  <2>1. /\ v.nodes[n].row[j] = r.nodes[n].row[j] /\ j \in Rows(r, n)
        /\ j \in LiveRows(v, n)
    BY <1>1, <1>3, ViewKeeps, StatusFacts DEF LiveRow, Rows, LiveRows
  <2>2. \A k \in LiveRows(v, n) : k = j
    <3>1. \A k \in LiveRows(v, n) : k \in Iters /\ LiveRow(r.nodes[n], k)
      BY <1>1, ViewKeeps DEF LiveRows, LiveRow
    <3> QED
      BY <1>1, <1>3, <3>1 DEF CleanNode
  <2>3. CASE v.nodes[n].st = "waiting"
    <3>1. v.nodes[n].iter = LatestRow(r, n)
      BY <1>1, <2>1, ViewKeeps
    <3>2. LatestRow(r, n) \in Iters /\ j <= LatestRow(r, n)
          /\ r.nodes[n].row[LatestRow(r, n)] # "none"
      BY <2>1, LatestRowIsMax DEF Rows
    <3>3. LatestRow(r, n) <= j
      BY <1>1, <1>3, <3>2 DEF CleanNode
    <3>4. LatestRow(r, n) = j
      BY <3>2, <3>3, IterType
    <3> QED
      BY <1>2, <2>3, <3>1, <3>4 DEF LiveIteration
  <2>4. CASE v.nodes[n].st # "waiting"
    BY <1>2, <2>1, <2>2, <2>4, IterType DEF LiveIteration
  <2> QED
    BY <2>3, <2>4
<1> QED
  BY <1>3 DEF OnlyLive

CleanOutcome(o) == CleanRun(o.log, o.alive)

\* Spawning the latest iteration the guard admits leaves a clean Run.
LEMMA SpawnClean ==
  ASSUME NEW r, NEW a, CleanRun(r, a), LapNodes = {}, NEW n \in Nodes, NEW i \in Iters,
         Latest(r, n, i), NEW o \in SpawnNode(r, a, n, i)
  PROVE  CleanOutcome(o)
<1>1. CASE SpawnRefused(r, a, n, i)
  BY <1>1, OutcomeFields DEF SpawnNode, CleanOutcome
<1>2. CASE ~SpawnRefused(r, a, n, i)
  <2> DEFINE started == NodeStarted(r, n, i)
  <2>1. OnlyLive(r, n, i)
    BY <1>2, AllowedOnlyLive DEF SpawnRefused
  <2>2. CleanRun(started, a) /\ CleanRun(started, a \cup {<<n, i>>})
    BY <2>1, StartedClean
  <2>3. OnlyLive(started, n, i)
    <3>1. r \in Runs
      BY DEF CleanRun, Known
    <3> QED
      BY <2>1, <3>1, StartedStep DEF OnlyLive, LiveRow, RowsBut
  <2>4. CleanRun(AppendInterrupted(started, n, i), a)
    BY <2>2, <2>3, InterruptClean
  <2>5. CleanRun(NodeWaiting(r, n, i), a) /\ CleanRun(AppendInterrupted(r, n, i), a)
    BY <2>1, WaitingClean, InterruptClean
  <2> QED
    BY <1>2, <2>2, <2>4, <2>5, OutcomeFields DEF SpawnNode, CleanOutcome
<1> QED
  BY <1>1, <1>2

\* The scheduler only asks for an iteration that no row is later than.
LEMMA ProposedLatest ==
  ASSUME NEW r, Known(r), Sequential, NEW n \in Nodes, NEW i \in Proposed(View(r), n)
  PROVE  i \in Iters /\ Latest(r, n, i)
<1>1. r \in Runs /\ i \in Iters
  BY DEF Known, Proposed
<1>2. CASE ~Present(r, n)
  BY <1>1, <1>2, LatestRowOf
<1>3. CASE Present(r, n)
  <2>1. i = View(r).nodes[n].iter + 1
    BY <1>1, <1>3, ViewKeeps DEF Sequential, Proposed, IsOpenCollectionLap, Present
  <2>2. Latest(r, n, View(r).nodes[n].iter)
    BY <1>3, LatestRowOf
  <2>3. View(r).nodes[n].iter \in Nat
    BY <1>3, ViewIterType, IterType
  <2> QED
    BY <1>1, <2>1, <2>2, <2>3, IterType DEF Latest
<1> QED
  BY <1>2, <1>3

\* Re-driving leaves a clean Run.
LEMMA RedriveClean ==
  ASSUME NEW r, NEW a, CleanRun(r, a), Sequential, NEW o \in Redrive(r, a)
  PROVE  CleanOutcome(o)
<1>1. CASE o = Outcome(r, a)
  BY <1>1, OutcomeFields DEF CleanOutcome
<1>2. CASE \E n \in Nodes, i \in Iters : i \in Proposed(View(r), n) /\ o \in SpawnNode(r, a, n, i)
  <2>1. PICK n \in Nodes, i \in Iters :
          i \in Proposed(View(r), n) /\ o \in SpawnNode(r, a, n, i)
    BY <1>2
  <2>2. Latest(r, n, i)
    BY <2>1, ProposedLatest DEF CleanRun
  <2> QED
    BY <2>1, <2>2, SpawnClean DEF Sequential
<1> QED
  BY <1>1, <1>2 DEF Redrive

\* A gesture on the latest iteration, seen before and after a reopening.
LEMMA AddressedLatest ==
  ASSUME NEW a, CleanRun(log, a), LatestOnly, NEW n \in Nodes, NEW i \in Iters,
         Addressed(n, i), NEW r, r.nodes[n] \in {log.nodes[n], AbsentNode}
  PROVE  Latest(r, n, i) /\ OnlyLive(r, n, i)
<1>1. Latest(log, n, i)
  <2>1. Rows(log, n) # {} => \A j \in Rows(log, n) : j <= i
    BY LatestRowIsMax DEF Addressed
  <2> QED
    BY <2>1 DEF Latest, Rows
<1>2. OnlyLive(log, n, i)
  <2>1. CASE Rows(log, n) = {}
    BY <2>1, StatusFacts DEF OnlyLive, Rows, LiveRow
  <2>2. CASE Rows(log, n) # {}
    <3>1. i = LatestRow(log, n) /\ i \in Rows(log, n)
      BY <2>2, LatestRowIsMax DEF Addressed
    <3>2. ASSUME NEW j \in Iters, LiveRow(log.nodes[n], j) PROVE j = i
      <4>1. i <= j
        BY <3>1, <3>2 DEF CleanRun, CleanNode, Rows
      <4>2. j <= i
        BY <1>1, <3>2, StatusFacts DEF Latest, LiveRow
      <4> QED
        BY <4>1, <4>2, IterType
    <3> QED
      BY <3>2 DEF OnlyLive
  <2> QED
    BY <2>1, <2>2
<1> QED
  BY <1>1, <1>2, AbsentBlank, StatusFacts DEF Latest, OnlyLive, LiveRow

(***************************************************************************)
(* The actions                                                             *)
(***************************************************************************)
LEMMA BecomeClean == ASSUME NEW o, CleanOutcome(o), Become(o) PROVE CleanRun(log, alive)'
  BY DEF CleanOutcome, Become, CleanRun, Known, Present

\* A clean log that is written is clean in the next state.
LEMMA LogClean ==
  ASSUME NEW r, NEW a, CleanRun(r, a), log' = r, alive' = a PROVE CleanRun(log, alive)'
  BY DEF CleanRun, Known, Present

\* The steps of the scheduler keep the Run clean.
LEMMA SchedulerClean ==
  ASSUME Sequential, CleanRun(log, alive), SchedulerStep PROVE CleanRun(log, alive)'
<1>1. ASSUME RouteToEnd PROVE CleanRun(log, alive)'
  BY <1>1, RunEventClean, LogClean DEF RouteToEnd
<1>2. ASSUME NEW n \in Nodes, Schedule(n) PROVE CleanRun(log, alive)'
  <2>1. PICK i \in Proposed(View(log), n) : \E o \in SpawnNode(log, alive, n, i) : Become(o)
    BY <1>2 DEF Schedule
  <2>2. i \in Iters /\ Latest(log, n, i)
    BY ProposedLatest DEF CleanRun
  <2> QED
    BY <2>1, <2>2, SpawnClean, BecomeClean DEF Sequential
<1>3. ASSUME NEW n \in Nodes, RetryWaiting(n) PROVE CleanRun(log, alive)'
  <2> DEFINE i == View(log).nodes[n].iter
  <2>1. Known(log) /\ Present(log, n)
    BY <1>3 DEF CleanRun, RetryWaiting, Present
  <2>2. i \in Iters /\ Latest(log, n, i)
    BY <2>1, ViewIterType, LatestRowOf
  <2> QED
    BY <1>3, <2>2, SpawnClean, BecomeClean DEF Sequential, RetryWaiting
<1> QED
  BY <1>1, <1>2, <1>3 DEF SchedulerStep

\* So do the calls of an agent.
LEMMA AgentClean ==
  ASSUME Sequential, CleanRun(log, alive), NEW n \in Nodes, NEW i \in Iters,
         Calls(n, i), AgentStep(n, i)
  PROVE  CleanRun(log, alive)'
<1> DEFINE b == alive \ {<<n, i>>}
<1>0. log \in Runs /\ Known(log)
  BY DEF CleanRun, Known
<1>1. ASSUME ValidateCompletion(View(log), n, i, FALSE) = "allow" PROVE OnlyLive(log, n, i)
  <2>1. log.nodes[n].row[i] \in {"running", "awaiting", "failed"}
    BY <1>0, <1>1, ViewKeeps DEF ValidateCompletion
  <2>2. CASE <<n, i>> \in alive
    <3>1. LiveRow(log.nodes[n], i)
      BY <2>1, <2>2 DEF CleanRun, LiveRow, HoldsSession
    <3> QED
      BY <3>1 DEF CleanRun, CleanNode, OnlyLive
  <2>3. CASE Addressed(n, i)
    BY <2>3, AddressedLatest DEF Sequential
  <2> QED
    BY <2>2, <2>3 DEF Calls
<1>2. ASSUME NEW said \in BOOLEAN, DeclareWait(n, i, said) PROVE CleanRun(log, alive)'
  <2>1. LiveRow(log.nodes[n], i)
    BY <1>0, <1>2, ViewKeeps DEF DeclareWait, CheckLiveSession, LiveRow
  <2> QED
    BY <1>2, <2>1, AwaitingClean, LogClean DEF DeclareWait
<1>3. CASE Complete(n, i)
  <2>1. CleanRun(NodeCompleted(log, n, i), b)
    BY <1>1, <1>3, CompletedClean DEF Complete
  <2> QED
    BY <1>2, <1>3, <2>1, LogClean DEF Complete
<1>4. CASE WaitUser(n, i)
  BY <1>2, <1>4 DEF WaitUser
<1>5. CASE Fail(n, i)
  <2>1. CleanRun(AppendFailed(log, n, i), b)
    BY FailClean
  <2> QED
    BY <1>5, <2>1, RunEventClean, LogClean DEF Fail
<1>6. CASE SkipRun(n, i)
  <2>1. CleanRun(NodeSkipped(log, n, i), b)
    BY <1>1, <1>6, SkippedClean DEF SkipRun
  <2> QED
    BY <1>6, <2>1, RunEventClean, LogClean DEF SkipRun
<1> QED
  BY <1>3, <1>4, <1>5, <1>6 DEF AgentStep

\* So does the end of a session, swept or not.
LEMMA SessionClean ==
  ASSUME CleanRun(log, alive), NEW n \in Nodes, NEW i \in Iters,
         SessionDies(n, i) \/ SweepDeadSession(n)
  PROVE  CleanRun(log, alive)'
<1>0. log \in Runs /\ Known(log)
  BY DEF CleanRun, Known
<1>1. CASE SessionDies(n, i)
  BY <1>1, FewerSessionsClean, LogClean DEF SessionDies
<1>2. CASE SweepDeadSession(n)
  <2> DEFINE k == View(log).nodes[n].iter
  <2>1. log.nodes[n].st = "running" /\ Present(log, n)
    BY <1>0, <1>2, ViewKeeps DEF SweepDeadSession, Present
  <2>2. k \in Iters /\ Latest(log, n, k)
    BY <1>0, <2>1, ViewIterType, LatestRowOf
  <2>3. OnlyLive(log, n, k)
    <3>1. ASSUME NEW j \in Iters, LiveRow(log.nodes[n], j) PROVE j = k
      <4>1. j \in Rows(log, n)
        BY <3>1, StatusFacts DEF Rows, LiveRow
      <4>2. k = LatestRow(log, n) /\ k \in Rows(log, n)
        BY <1>0, <4>1, ViewKeeps, LatestRowIsMax
      <4>3. k <= j
        BY <3>1, <4>2 DEF CleanRun, CleanNode, Rows
      <4>4. j <= k
        BY <2>2, <4>1 DEF Latest, Rows
      <4> QED
        BY <2>2, <4>3, <4>4, IterType
    <3> QED
      BY <3>1 DEF OnlyLive
  <2> HIDE DEF k
  <2>4. CleanRun(AppendInterrupted(log, n, k), alive)
    BY <2>2, <2>3, InterruptClean
  <2> QED
    BY <1>2, <2>4, LogClean DEF SweepDeadSession, k
<1> QED
  BY <1>1, <1>2

\* So do the gestures on a node, which address its latest iteration.
LEMMA GestureClean ==
  ASSUME Sequential, CleanRun(log, alive), NEW n \in Nodes, NEW i \in Iters,
         Addressed(n, i), NodeGesture(n, i)
  PROVE  CleanRun(log, alive)'
<1> DEFINE r == EmbedReopen(log)
<1>0. log \in Runs /\ Known(log)
  BY DEF CleanRun, Known
<1>1. CleanRun(r, alive) /\ Known(r)
  BY ReopenClean DEF CleanRun
<1>2. Latest(r, n, i) /\ OnlyLive(r, n, i)
  BY <1>0, AddressedLatest, ReopenTypes DEF Sequential
<1>3. CASE Release(n, i)
  <2>1. LiveRow(log.nodes[n], i)
    BY <1>0, <1>3, ViewKeeps DEF Release, LiveRow
  <2> QED
    BY <1>3, <2>1, ReleasedClean, LogClean DEF Release
<1>4. CASE LiftWait(n, i)
  BY <1>4, ResumedClean, LogClean DEF LiftWait
<1>5. CASE KillNode(n, i)
  BY <1>5, FailClean, LogClean DEF KillNode
<1>6. CASE MarkNodeDone(n, i)
  <2>1. CleanRun(NodeCompleted(r, n, i), alive)
    BY <1>1, <1>2, CompletedClean
  <2> QED
    BY <1>1, <1>6, <2>1, LogClean DEF MarkNodeDone
<1>7. CASE SkipNode(n, i)
  <2>1. CleanRun(NodeSkipped(r, n, i), alive)
    BY <1>1, <1>2, SkippedClean
  <2> QED
    BY <1>1, <1>7, <2>1, LogClean DEF SkipNode
<1>8. CASE RestartNode(n, i)
  <2>1. CleanOutcome(Outcome(r, alive))
    BY <1>1, OutcomeFields DEF CleanOutcome
  <2>2. CleanRun(r, alive \ {<<n, i>>})
    BY <1>1, FewerSessionsClean
  <2>3. \A o \in SpawnNode(r, alive \ {<<n, i>>}, n, i) : CleanOutcome(o)
    BY <1>2, <2>2, SpawnClean DEF Sequential
  <2> QED
    BY <1>8, <2>1, <2>3, BecomeClean DEF RestartNode
<1>9. CASE RecoverNode(n, i)
  <2>1. /\ CleanRun(NodeStarted(r, n, i), alive)
        /\ CleanRun(NodeStarted(r, n, i), alive \cup {<<n, i>>})
    BY <1>1, <1>2, StartedClean
  <2>2. /\ CleanOutcome(Outcome(r, alive)) /\ CleanOutcome(Outcome(NodeStarted(r, n, i), alive))
        /\ CleanOutcome(Outcome(NodeStarted(r, n, i), alive \cup {<<n, i>>}))
    BY <1>1, <2>1, OutcomeFields DEF CleanOutcome
  <2> QED
    BY <1>9, <2>2, BecomeClean DEF RecoverNode
<1> QED
  BY <1>3, <1>4, <1>5, <1>6, <1>7, <1>8, <1>9 DEF NodeGesture

\* So does stopping a node.
LEMMA StopClean ==
  ASSUME CleanRun(log, alive), NEW n \in Nodes, StopNode(n)
  PROVE  CleanRun(log, alive)'
<1> DEFINE k == View(log).nodes[n].iter
<1>0. log \in Runs /\ Known(log) /\ Present(log, n)
  BY DEF CleanRun, Known, StopNode, Present
<1>1. k \in Iters /\ Latest(log, n, k)
  BY <1>0, ViewIterType, LatestRowOf
<1>2. OnlyLive(log, n, k)
  <2>1. ASSUME NEW j \in Iters, LiveRow(log.nodes[n], j) PROVE j = k
    <3>1. j \in Rows(log, n)
      BY <2>1, StatusFacts DEF Rows, LiveRow
    <3>2. k = LatestRow(log, n) /\ k \in Rows(log, n)
      BY <1>0, <3>1, ViewKeeps, LatestRowIsMax
    <3>3. k <= j
      BY <2>1, <3>2 DEF CleanRun, CleanNode, Rows
    <3>4. j <= k
      BY <1>1, <3>1 DEF Latest, Rows
    <3> QED
      BY <1>1, <3>3, <3>4, IterType
  <2> QED
    BY <2>1 DEF OnlyLive
<1> HIDE DEF k
<1>3. CleanRun(NodeStopped(log, n, k), alive \ {<<n, k>>})
  BY <1>0, <1>1, <1>2, StoppedClean
<1> QED
  BY <1>3, LogClean DEF StopNode, k

\* So do all the steps of the user.
LEMMA UserClean ==
  ASSUME Sequential, CleanRun(log, alive), UserStep
  PROVE  CleanRun(log, alive)'
<1> DEFINE r == EmbedReopen(log)
<1>0. CleanRun(r, alive) /\ Known(r)
  BY ReopenClean DEF CleanRun
<1>1. ASSUME NEW n \in Nodes, StartNode(n) PROVE CleanRun(log, alive)'
  <2> DEFINE i == View(r).nodes[n].iter + 1
             started == NodeStarted(r, n, i)
  <2>1. i \in Iters
    BY <1>1 DEF StartNode
  <2>2. Latest(r, n, i)
    <3>1. CASE Present(r, n)
      <4>1. Latest(r, n, View(r).nodes[n].iter)
        BY <1>0, <3>1, LatestRowOf
      <4>2. View(r).nodes[n].iter \in Nat
        BY <1>0, <3>1, ViewIterType, IterType
      <4> QED
        BY <4>1, <4>2, IterType DEF Latest
    <3>2. CASE ~Present(r, n)
      BY <1>0, <2>1, <3>2, LatestRowOf
    <3> QED
      BY <3>1, <3>2
  <2>3. CASE View(r).nodes[n].st # "running" /\ ValidateStart(View(r), n, i) = "allow"
    <3> HIDE DEF i
    <3>1. OnlyLive(r, n, i)
      BY <1>0, <2>1, <2>3, AllowedOnlyLive DEF Sequential
    <3>2. CleanRun(started, alive) /\ CleanRun(started, alive \cup {<<n, i>>})
      BY <1>0, <2>1, <2>2, <3>1, StartedClean
    <3>3. /\ CleanOutcome(Outcome(r, alive)) /\ CleanOutcome(Outcome(started, alive))
          /\ CleanOutcome(Outcome(started, alive \cup {<<n, i>>}))
      BY <1>0, <3>2, OutcomeFields DEF CleanOutcome
    <3> QED
      BY <1>1, <3>3, BecomeClean DEF StartNode, i
  <2>4. CASE ~(View(r).nodes[n].st # "running" /\ ValidateStart(View(r), n, i) = "allow")
    <3>1. CleanOutcome(Outcome(r, alive))
      BY <1>0, OutcomeFields DEF CleanOutcome
    <3> QED
      BY <1>1, <2>4, <3>1, BecomeClean DEF StartNode
  <2> QED
    BY <2>3, <2>4
<1>2. ASSUME NEW n \in Nodes, RetryNode(n) PROVE CleanRun(log, alive)'
  <2> DEFINE current == IF Present(log, n) THEN View(log).nodes[n].iter ELSE 1
             next == IF n \in Regions THEN current ELSE current + 1
             running == r.nodes[n].st = "running"
             stopped == IF running THEN NodeStopped(r, n, current) ELSE r
             left == IF running THEN alive \ {<<n, current>>} ELSE alive
             S == Downstream[n] \cup {n}
             gone == Invalidate(stopped, S)
  <2>1. current \in Iters /\ next \in Iters
    BY <1>2, ViewIterType, RunLogAssumption DEF RetryNode, Iters, CleanRun
  <2>2. r \in Runs
    BY <1>0 DEF Known
  <2>3. Known(stopped) /\ \A m \in Nodes \ {n} : stopped.nodes[m] = r.nodes[m]
    <3>1. Known(stopped)
      BY <1>0, <2>1, EventTypes
    <3>2. CASE running
      BY <2>1, <2>2, <3>1, <3>2, StoppedStep DEF OnlyNode, Present
    <3> QED
      BY <3>1, <3>2
  <2>4. S \in SUBSET Nodes /\ n \in S
    BY LifecycleAssumption
  <2>5. left \in SUBSET alive
    OBVIOUS
  <2> HIDE DEF current, stopped, S, left
  <2>6. /\ Known(gone) /\ gone.nodes[n] = AbsentNode
        /\ \A m \in Nodes : gone.nodes[m] \in {r.nodes[m], AbsentNode}
    BY <2>3, <2>4, InvalidateType
  <2> HIDE DEF next, gone
  <2>7. CleanRun(gone, left)
    BY <1>0, <2>5, <2>6, SameNodesClean, FewerSessionsClean
  <2>8. Latest(gone, n, next)
    BY <2>1, <2>6, AbsentBlank DEF Latest
  <2>9. \A o \in SpawnNode(gone, left, n, next) : CleanOutcome(o)
    BY <2>1, <2>7, <2>8, SpawnClean DEF Sequential
  <2>10. CleanOutcome(Outcome(r, alive))
    BY <1>0, OutcomeFields DEF CleanOutcome
  <2> QED
    BY <1>2, <2>9, <2>10, BecomeClean DEF RetryNode, next, gone, current, stopped, left, S
<1>3. CASE PauseRun
  BY <1>3, RunEventClean, LogClean DEF PauseRun
<1>4. CASE CleanupRun
  <2>1. CleanRun(RunArchived(log), alive)
    BY RunEventClean
  <2>2. alive' \in SUBSET alive
    BY <1>4 DEF CleanupRun
  <2> QED
    BY <1>4, <2>1, <2>2, FewerSessionsClean, LogClean DEF CleanupRun
<1>5. CASE ResumeRun
  <2>1. CleanRun(RunResumed(log), alive) /\ CleanRun(RunReopened(log), alive)
    BY RunEventClean, ReopenClean
  <2> QED
    BY <1>5, <2>1, RedriveClean, BecomeClean DEF ResumeRun
<1>6. CASE ReopenRun
  BY <1>6, ReopenClean, RedriveClean, BecomeClean DEF ReopenRun
<1> QED
  BY <1>1, <1>2, <1>3, <1>4, <1>5, <1>6, StopClean DEF UserStep

(***************************************************************************)
(* The theorems                                                            *)
(***************************************************************************)
LEMMA CleanInit == Init => CleanRun(log, alive)
<1>1. Init => \A n \in Nodes : log.nodes[n] = AbsentNode
  BY DEF Init, FreshRun
<1> QED
  BY <1>1, TypeInvInit, AbsentClean DEF CleanRun, TypeInv, Init

\* Every step keeps the Run clean.
LEMMA CleanStep ==
  ASSUME Sequential PROVE Asked /\ CleanRun(log, alive) /\ [Next]_vars => CleanRun(log, alive)'
<1>1. ASSUME CleanRun(log, alive), UNCHANGED vars PROVE CleanRun(log, alive)'
  BY <1>1, LogClean DEF vars
<1>2. Asked => ~ForcedStart
  BY DEF Asked, Sequential, ForcedStart, AskStart, OpenStarted
<1> QED
  BY <1>1, <1>2, SchedulerClean, AgentClean, SessionClean, GestureClean, UserClean,
     RunLogAssumption
  DEF Next, HandlerStep, Iters

\* A clean Run has the properties the runs check.
LEMMA CleanMeans ==
  ASSUME CleanRun(log, alive)
  PROVE  /\ OneLiveIteration /\ BusyNodeOwnsLatestRow /\ LiveRowKeepsNode
         /\ LiveIterationIsLatest /\ FailedHoldsNoSession
<1>0. log \in Runs
  BY DEF CleanRun, Known
<1>1. LiveRowKeepsNode
  BY DEF LiveRowKeepsNode, LiveRows, CleanRun, CleanNode, LiveRow
<1>2. LiveIterationIsLatest
  BY DEF LiveIterationIsLatest, LiveRows, CleanRun, CleanNode, LiveRow, Rows
<1>3. FailedHoldsNoSession
  BY DEF FailedHoldsNoSession, CleanRun
<1>4. BusyNodeOwnsLatestRow
  <2>1. ASSUME NEW n \in Nodes, HoldsSession(log.nodes[n].st)
        PROVE  HoldsSession(log.nodes[n].row[ViewNode(log, n).iter])
    <3>1. PICK j \in Iters : LiveRow(log.nodes[n], j)
      BY <2>1 DEF CleanRun, CleanNode
    <3>2. j \in Rows(log, n)
      BY <3>1, StatusFacts DEF Rows, LiveRow
    <3>3. LatestRow(log, n) \in Rows(log, n) /\ j <= LatestRow(log, n)
      BY <3>2, LatestRowIsMax
    <3>4. LatestRow(log, n) <= j
      BY <3>1, <3>3 DEF CleanRun, CleanNode, Rows
    <3>5. LatestRow(log, n) = j
      BY <3>2, <3>3, <3>4, LatestRowIsMax, IterType
    <3>6. ViewNode(log, n).iter = LatestRow(log, n)
      BY <1>0, <3>2, ViewKeeps DEF View
    <3> QED
      BY <3>1, <3>5, <3>6 DEF LiveRow
  <2> QED
    BY <2>1 DEF BusyNodeOwnsLatestRow
<1>5. OneLiveIteration
  <2>1. ASSUME NEW n \in Nodes PROVE Cardinality(LiveRows(log, n)) <= 1
    <3>1. \A i \in LiveRows(log, n), j \in LiveRows(log, n) : i = j
      BY DEF LiveRows, LiveRow, CleanRun, CleanNode
    <3>2. ASSUME LiveRows(log, n) = {} PROVE Cardinality(LiveRows(log, n)) = 0
      BY <3>2, FS_EmptySet
    <3>3. ASSUME NEW i \in LiveRows(log, n) PROVE Cardinality(LiveRows(log, n)) = 1
      <4>1. LiveRows(log, n) = {i}
        BY <3>1, <3>3
      <4> QED
        BY <4>1, FS_Singleton
    <3>4. CASE LiveRows(log, n) = {}
      BY <3>2, <3>4
    <3>5. CASE LiveRows(log, n) # {}
      <4>1. PICK i \in LiveRows(log, n) : TRUE
        BY <3>5
      <4>2. Cardinality(LiveRows(log, n)) = 1
        BY <3>3, <4>1
      <4> QED
        BY <4>2
    <3> QED
      BY <3>4, <3>5
  <2> QED
    BY <2>1 DEF OneLiveIteration
<1> QED
  BY <1>1, <1>2, <1>3, <1>4, <1>5

\* No node is ever worked on at two iterations at once.
THEOREM NeverTwoLiveIterations == ASSUME Sequential PROVE Spec => []OneLiveIteration
<1>1. CleanRun(log, alive) => OneLiveIteration
  BY CleanMeans
<1> QED
  BY <1>1, CleanInit, CleanStep, AskedInit, AskedStep, PTL DEF Spec

\* The iteration being worked on is its node's current one, and its latest.
THEOREM TheLiveIterationIsLatest == ASSUME Sequential PROVE Spec => []LiveIterationIsLatest
<1>1. CleanRun(log, alive) => LiveIterationIsLatest
  BY CleanMeans
<1> QED
  BY <1>1, CleanInit, CleanStep, AskedInit, AskedStep, PTL DEF Spec

\* A node counted as holding a session is being worked on at the iteration the
\* sweep, the cap and node_stop look at.
THEOREM StatusAndRowsAgree == ASSUME Sequential PROVE Spec => []BusyNodeOwnsLatestRow
<1>1. CleanRun(log, alive) => BusyNodeOwnsLatestRow
  BY CleanMeans
<1> QED
  BY <1>1, CleanInit, CleanStep, AskedInit, AskedStep, PTL DEF Spec

\* No iteration is being worked on behind a node whose status says it is over.
THEOREM NoWorkBehindAnEndedNode == ASSUME Sequential PROVE Spec => []LiveRowKeepsNode
<1>1. CleanRun(log, alive) => LiveRowKeepsNode
  BY CleanMeans
<1> QED
  BY <1>1, CleanInit, CleanStep, AskedInit, AskedStep, PTL DEF Spec

\* No agent is left behind a failed iteration.
THEOREM FailureTakesTheSession == ASSUME Sequential PROVE Spec => []FailedHoldsNoSession
<1>1. CleanRun(log, alive) => FailedHoldsNoSession
  BY CleanMeans
<1> QED
  BY <1>1, CleanInit, CleanStep, AskedInit, AskedStep, PTL DEF Spec

(***************************************************************************)
(* Satisfied work                                                          *)
(*                                                                         *)
(* Every handler forgets whole nodes, writes one row that its guard has    *)
(* found unsettled, or does the one and then the other.                    *)
(***************************************************************************)
Forgets(r, x) == \A n \in Nodes : x.nodes[n] \in {r.nodes[n], AbsentNode}

Writes(x, s, n, i) ==
  /\ \A m \in Nodes \ {n} : s.nodes[m].row = x.nodes[m].row
  /\ \A j \in Iters \ {i} : s.nodes[n].row[j] \in {x.nodes[n].row[j], "none"}
  /\ SettledComplete(x.nodes[n].row[i]) => SettledComplete(s.nodes[n].row[i])

WritesSome(x, s) == s.nodes = x.nodes \/ \E n \in Nodes, i \in Iters : Writes(x, s, n, i)

\* Which statuses count as settled.
LEMMA SettledFacts ==
  /\ SettledComplete("completed") /\ SettledComplete("skipped") /\ ~SettledComplete("none")
  /\ \A st : HoldsSession(st) \/ st \in {"failed", "interrupted", "stopped"} => ~SettledComplete(st)
  BY DEF SettledComplete, HoldsSession

\* Forgetting nodes and then writing one unsettled row keeps what is settled.
LEMMA ForgetThenWrite ==
  ASSUME NEW r, NEW x, NEW s, Forgets(r, x), WritesSome(x, s)
  PROVE  KeepsSettled(r, s)
<1> SUFFICES ASSUME NEW n \in Nodes, NEW i \in Iters, SettledComplete(r.nodes[n].row[i])
             PROVE  \/ SettledComplete(s.nodes[n].row[i])
                    \/ s.nodes[n].row[i] = "none"
                    \/ \A j \in Iters \ {i} : s.nodes[n].row[j] = "none"
  BY DEF KeepsSettled
<1>1. CASE s.nodes[n].row = x.nodes[n].row
  BY <1>1, AbsentBlank DEF Forgets
<1>2. ASSUME NEW k \in Iters, Writes(x, s, n, k), s.nodes[n].row # x.nodes[n].row
      PROVE  \/ SettledComplete(s.nodes[n].row[i])
             \/ s.nodes[n].row[i] = "none"
             \/ \A j \in Iters \ {i} : s.nodes[n].row[j] = "none"
  <2>1. CASE x.nodes[n] = r.nodes[n]
    BY <1>2, <2>1 DEF Writes
  <2>2. CASE x.nodes[n] = AbsentNode
    BY <1>2, <2>2, AbsentBlank DEF Writes
  <2> QED
    BY <2>1, <2>2 DEF Forgets
<1> QED
  BY <1>1, <1>2 DEF WritesSome, Writes

\* Writing the same row twice is writing it once.
LEMMA WritesTwice ==
  ASSUME NEW r, NEW s, NEW t, NEW n \in Nodes, NEW i \in Iters,
         Writes(r, s, n, i), Writes(s, t, n, i)
  PROVE  Writes(r, t, n, i)
  BY DEF Writes

\* An event that leaves the Run as it is writes any row.
LEMMA WritesNothing ==
  ASSUME NEW r, NEW n \in Nodes, NEW i \in Iters PROVE Writes(r, r, n, i)
  BY DEF Writes

\* An event about one node and one row that settles it, or did not find it settled.
LEMMA RowWritten ==
  ASSUME NEW r, NEW s, NEW n \in Nodes, NEW i \in Iters, OnlyNode(r, s, n),
         RowsBut(s.nodes[n], r.nodes[n], i),
         SettledComplete(r.nodes[n].row[i]) => SettledComplete(s.nodes[n].row[i])
  PROVE  Writes(r, s, n, i)
  BY DEF Writes, OnlyNode, RowsBut

\* What an event finds unsettled by its guard, and what a completion leaves.
LEMMA EventWrites ==
  ASSUME NEW r \in Runs, NEW n \in Nodes, NEW i \in Iters
  PROVE  /\ Writes(r, NodeWaiting(r, n, i), n, i)
         /\ Writes(r, NodeCompleted(r, n, i), n, i)
         /\ Writes(r, NodeResumed(r, n, i), n, i)
         /\ Writes(r, AppendFailed(r, n, i), n, i)
         /\ Writes(r, AppendInterrupted(r, n, i), n, i)
         /\ ~SettledComplete(r.nodes[n].row[i]) =>
              /\ Writes(r, NodeStarted(r, n, i), n, i)
              /\ Writes(r, NodeStopped(r, n, i), n, i)
              /\ Writes(r, NodeCompletionReleased(r, n, i), n, i)
              /\ \A said \in BOOLEAN : Writes(r, NodeAwaitingUser(r, n, i, said), n, i)
<1>0. Writes(r, r, n, i)
  BY WritesNothing
<1>1. Writes(r, NodeWaiting(r, n, i), n, i)
  BY WaitingStep, RowWritten DEF RowsBut
<1>2. Writes(r, AppendInterrupted(r, n, i), n, i)
  <2>1. CASE ValidateInterrupt(View(r), n, i) = "allow"
    <3>1. ~SettledComplete(r.nodes[n].row[i])
      BY <2>1, ViewKeeps DEF ValidateInterrupt, RowStatuses, SettledComplete
    <3>2. OnlyNode(r, NodeInterrupted(r, n, i), n)
          /\ RowsBut(NodeInterrupted(r, n, i).nodes[n], r.nodes[n], i)
      BY InterruptedStep DEF RowSet
    <3> QED
      BY <2>1, <3>1, <3>2, RowWritten DEF AppendInterrupted
  <2> QED
    BY <1>0, <2>1 DEF AppendInterrupted
<1>3. ASSUME ~SettledComplete(r.nodes[n].row[i]) PROVE Writes(r, NodeStarted(r, n, i), n, i)
  BY <1>3, StartedStep, RowWritten
<1>4. CASE ~Present(r, n)
  BY <1>0, <1>1, <1>2, <1>3, <1>4
  DEF NodeCompleted, NodeResumed, AppendFailed, NodeFailed, NodeStopped,
      NodeCompletionReleased, NodeAwaitingUser
<1>5. CASE Present(r, n)
  <2>1. Writes(r, NodeCompleted(r, n, i), n, i)
    BY <1>5, CompletedStep, RowWritten, SettledFacts DEF RowSet
  <2>2. Writes(r, NodeResumed(r, n, i), n, i)
    <3>1. SettledComplete(r.nodes[n].row[i]) => r.nodes[n].row[i] # "awaiting"
      BY DEF SettledComplete
    <3> QED
      BY <1>5, <3>1, ResumedStep, RowWritten
  <2>3. Writes(r, AppendFailed(r, n, i), n, i)
    <3>1. CASE ValidateFail(View(r), n, i) = "allow"
      <4>1. ~SettledComplete(r.nodes[n].row[i])
        BY <3>1, ViewKeeps DEF ValidateFail, SettledComplete
      <4> QED
        BY <1>5, <3>1, <4>1, FailedStep, RowWritten DEF RowSet, AppendFailed
    <3> QED
      BY <1>0, <3>1 DEF AppendFailed
  <2>4. ASSUME ~SettledComplete(r.nodes[n].row[i])
        PROVE  /\ Writes(r, NodeStopped(r, n, i), n, i)
               /\ Writes(r, NodeCompletionReleased(r, n, i), n, i)
               /\ \A said \in BOOLEAN : Writes(r, NodeAwaitingUser(r, n, i, said), n, i)
    BY <1>5, <2>4, StoppedStep, ReleasedStep, AwaitingStep, RowWritten DEF RowSet
  <2> QED
    BY <1>1, <1>2, <1>3, <2>1, <2>2, <2>3, <2>4
<1> QED
  BY <1>4, <1>5

\* A skip settles the row of a node that is there and is the first of one that is not.
LEMMA SkipWrites ==
  ASSUME NEW r \in Runs, NEW n \in Nodes, NEW i \in Iters
  PROVE  Writes(r, NodeSkipped(r, n, i), n, i)
<1>1. CASE Present(r, n)
  BY <1>1, EventWrites DEF NodeSkipped
<1>2. CASE ~Present(r, n)
  BY <1>2, SkippedStep, SettledFacts DEF Writes, OnlyNode
<1> QED
  BY <1>1, <1>2

\* A start the guard allows finds its row unsettled.
LEMMA StartWrites ==
  ASSUME NEW r \in Runs, NEW n \in Nodes, NEW i \in Iters,
         ValidateStart(View(r), n, i) # "reject"
  PROVE  Writes(r, NodeStarted(r, n, i), n, i)
<1>1. ~SettledComplete(r.nodes[n].row[i])
  BY ViewKeeps DEF ValidateStart
<1> QED
  BY <1>1, EventWrites

\* So does a spawn, however it ends.
LEMMA SpawnWrites ==
  ASSUME NEW r \in Runs, NEW a, NEW n \in Nodes, NEW i \in Iters,
         NEW o \in SpawnNode(r, a, n, i)
  PROVE  WritesSome(r, o.log)
<1>1. CASE SpawnRefused(r, a, n, i)
  BY <1>1, OutcomeFields DEF SpawnNode, WritesSome
<1>2. CASE ~SpawnRefused(r, a, n, i)
  <2> DEFINE started == NodeStarted(r, n, i)
  <2>1. Writes(r, started, n, i) /\ started \in Runs
    BY <1>2, StartWrites, StartedStep DEF SpawnRefused, OnlyNode
  <2>2. Writes(r, AppendInterrupted(started, n, i), n, i)
    BY <2>1, EventWrites, WritesTwice
  <2> QED
    BY <1>2, <2>1, <2>2, EventWrites, OutcomeFields DEF SpawnNode, WritesSome
<1> QED
  BY <1>1, <1>2

\* And so does re-driving the nodes that are owed.
LEMMA RedriveWrites ==
  ASSUME NEW r \in Runs, NEW a, NEW o \in Redrive(r, a)
  PROVE  WritesSome(r, o.log)
<1>1. CASE o = Outcome(r, a)
  BY <1>1, OutcomeFields DEF WritesSome
<1>2. CASE \E n \in Nodes, i \in Iters : o \in SpawnNode(r, a, n, i)
  BY <1>2, SpawnWrites
<1> QED
  BY <1>1, <1>2 DEF Redrive

\* The scheduler and the sweep write one row.
LEMMA SchedulerKeeps ==
  ASSUME TypeInv, SchedulerStep \/ \E n \in Nodes : SweepDeadSession(n)
  PROVE  KeepsSettled(log, log')
<1>0. log \in Runs /\ Forgets(log, log)
  BY DEF TypeInv, Known, Forgets
<1>1. CASE RouteToEnd
  BY <1>0, <1>1, RunEventStep, ForgetThenWrite DEF RouteToEnd, WritesSome
<1>2. ASSUME NEW n \in Nodes, Schedule(n) PROVE KeepsSettled(log, log')
  BY <1>0, <1>2, SpawnWrites, ForgetThenWrite DEF Schedule, Proposed, Become
<1>3. ASSUME NEW n \in Nodes, RetryWaiting(n) PROVE KeepsSettled(log, log')
  <2>1. View(log).nodes[n].iter \in Iters
    BY <1>3, ViewIterType DEF RetryWaiting, Present, TypeInv
  <2> QED
    BY <1>0, <1>3, <2>1, SpawnWrites, ForgetThenWrite DEF RetryWaiting, Become
<1>4. ASSUME NEW n \in Nodes, SweepDeadSession(n) PROVE KeepsSettled(log, log')
  <2>1. Present(log, n)
    BY <1>0, <1>4, ViewKeeps DEF SweepDeadSession, Present
  <2>2. View(log).nodes[n].iter \in Iters
    BY <2>1, ViewIterType DEF TypeInv
  <2> QED
    BY <1>0, <1>4, <2>2, EventWrites, ForgetThenWrite DEF SweepDeadSession, WritesSome
<1> QED
  BY <1>1, <1>2, <1>3, <1>4 DEF SchedulerStep

\* So do the calls of an agent.
LEMMA AgentKeeps ==
  ASSUME TypeInv, NEW n \in Nodes, NEW i \in Iters, AgentStep(n, i)
  PROVE  KeepsSettled(log, log')
<1>0. log \in Runs /\ Forgets(log, log)
  BY DEF TypeInv, Known, Forgets
<1> SUFFICES WritesSome(log, log')
  BY <1>0, ForgetThenWrite
<1>1. ASSUME NEW said \in BOOLEAN, DeclareWait(n, i, said) PROVE WritesSome(log, log')
  <2>1. ~SettledComplete(log.nodes[n].row[i])
    BY <1>0, <1>1, ViewKeeps, SettledFacts DEF DeclareWait, CheckLiveSession
  <2> QED
    BY <1>0, <1>1, <2>1, EventWrites DEF DeclareWait, WritesSome
<1>2. CASE Complete(n, i)
  BY <1>0, <1>1, <1>2, EventWrites DEF Complete, WritesSome
<1>3. CASE WaitUser(n, i)
  BY <1>1, <1>3 DEF WaitUser
<1>4. CASE Fail(n, i)
  <2>1. Known(AppendFailed(log, n, i)) /\ AppendFailed(log, n, i) \in Runs
    BY EventTypes DEF TypeInv, Known
  <2>2. log'.nodes = AppendFailed(log, n, i).nodes
    BY <1>4, <2>1, RunEventStep DEF Fail
  <2>3. Writes(log, AppendFailed(log, n, i), n, i)
    BY <1>0, EventWrites
  <2> QED
    BY <2>2, <2>3 DEF WritesSome, Writes
<1>5. CASE SkipRun(n, i)
  <2>1. Known(NodeSkipped(log, n, i)) /\ NodeSkipped(log, n, i) \in Runs
    BY EventTypes DEF TypeInv, Known
  <2>2. log'.nodes = NodeSkipped(log, n, i).nodes
    BY <1>5, <2>1, RunEventStep DEF SkipRun
  <2> QED
    BY <1>0, <2>2, SkipWrites DEF WritesSome, Writes
<1> QED
  BY <1>2, <1>3, <1>4, <1>5 DEF AgentStep

\* A gesture may re-open the Run before it writes.
LEMMA GestureKeeps ==
  ASSUME TypeInv, NEW n \in Nodes, NEW i \in Iters, NodeGesture(n, i)
  PROVE  KeepsSettled(log, log')
<1> DEFINE r == EmbedReopen(log)
<1>0. log \in Runs /\ Forgets(log, log)
  BY DEF TypeInv, Known, Forgets
<1>1. r \in Runs /\ Forgets(log, r)
  BY ReopenTypes DEF TypeInv, Known, Forgets
<1> SUFFICES WritesSome(log, log') \/ WritesSome(r, log')
  BY <1>0, <1>1, ForgetThenWrite
<1>2. CASE Release(n, i)
  <2>1. ~SettledComplete(log.nodes[n].row[i])
    BY <1>0, <1>2, ViewKeeps, SettledFacts DEF Release
  <2> QED
    BY <1>0, <1>2, <2>1, EventWrites DEF Release, WritesSome
<1>3. CASE LiftWait(n, i) \/ KillNode(n, i)
  BY <1>0, <1>3, EventWrites DEF LiftWait, KillNode, WritesSome
<1>4. CASE MarkNodeDone(n, i)
  <2>1. Writes(r, NodeCompleted(r, n, i), n, i)
    BY <1>1, EventWrites
  <2> QED
    BY <1>4, <2>1 DEF MarkNodeDone, WritesSome
<1>5. CASE SkipNode(n, i)
  <2>1. Writes(r, NodeSkipped(r, n, i), n, i)
    BY <1>1, SkipWrites
  <2> QED
    BY <1>5, <2>1 DEF SkipNode, WritesSome
<1>6. CASE RestartNode(n, i)
  <2>1. \A o \in SpawnNode(r, alive \ {<<n, i>>}, n, i) : WritesSome(r, o.log)
    BY <1>1, SpawnWrites
  <2>2. WritesSome(r, Outcome(r, alive).log)
    BY OutcomeFields DEF WritesSome
  <2> QED
    BY <1>6, <2>1, <2>2 DEF RestartNode, Become
<1>7. CASE RecoverNode(n, i)
  <2>1. CASE ValidateStart(View(r), n, i) = "allow"
    <3>1. Writes(r, NodeStarted(r, n, i), n, i)
      BY <1>1, <2>1, StartWrites
    <3> QED
      BY <1>7, <3>1, OutcomeFields DEF RecoverNode, Become, WritesSome
  <2>2. CASE ValidateStart(View(r), n, i) # "allow"
    BY <1>7, <2>2, OutcomeFields DEF RecoverNode, Become, WritesSome
  <2> QED
    BY <2>1, <2>2
<1> QED
  BY <1>2, <1>3, <1>4, <1>5, <1>6, <1>7 DEF NodeGesture

\* The steps of the user, node_stop aside.
LEMMA UserKeeps ==
  ASSUME TypeInv, UserStep, ~\E n \in Nodes : StopNode(n)
  PROVE  KeepsSettled(log, log')
<1> DEFINE r == EmbedReopen(log)
<1>0. log \in Runs /\ Forgets(log, log)
  BY DEF TypeInv, Known, Forgets
<1>1. r \in Runs /\ Known(r) /\ Forgets(log, r)
  BY ReopenTypes DEF TypeInv, Known, Forgets
<1>2. ASSUME NEW n \in Nodes, StartNode(n) PROVE KeepsSettled(log, log')
  <2> DEFINE i == View(r).nodes[n].iter + 1
  <2>1. i \in Iters
    BY <1>2 DEF StartNode
  <2>2. CASE View(r).nodes[n].st # "running" /\ ValidateStart(View(r), n, i) = "allow"
    <3> HIDE DEF i
    <3>1. Writes(r, NodeStarted(r, n, i), n, i)
      BY <1>1, <2>1, <2>2, StartWrites
    <3>2. WritesSome(r, log')
      BY <1>2, <2>1, <3>1, OutcomeFields DEF StartNode, Become, WritesSome, i
    <3> QED
      BY <1>1, <3>2, ForgetThenWrite
  <2>3. CASE ~(View(r).nodes[n].st # "running" /\ ValidateStart(View(r), n, i) = "allow")
    <3>1. WritesSome(r, log')
      BY <1>2, <2>3, OutcomeFields DEF StartNode, Become, WritesSome
    <3> QED
      BY <1>1, <3>1, ForgetThenWrite
  <2> QED
    BY <2>2, <2>3
<1>3. ASSUME NEW n \in Nodes, RetryNode(n) PROVE KeepsSettled(log, log')
  <2> DEFINE current == IF Present(log, n) THEN View(log).nodes[n].iter ELSE 1
             next == IF n \in Regions THEN current ELSE current + 1
             running == r.nodes[n].st = "running"
             stopped == IF running THEN NodeStopped(r, n, current) ELSE r
             left == IF running THEN alive \ {<<n, current>>} ELSE alive
             S == Downstream[n] \cup {n}
             gone == Invalidate(stopped, S)
  <2>1. current \in Iters /\ next \in Iters
    BY <1>3, ViewIterType, RunLogAssumption DEF RetryNode, Iters, TypeInv
  <2>2. Known(stopped) /\ \A m \in Nodes \ {n} : stopped.nodes[m] = r.nodes[m]
    <3>1. Known(stopped)
      BY <1>1, <2>1, EventTypes
    <3>2. CASE running
      BY <1>1, <2>1, <3>1, <3>2, StoppedStep DEF OnlyNode, Present
    <3> QED
      BY <3>1, <3>2
  <2>3. S \in SUBSET Nodes /\ n \in S
    BY LifecycleAssumption
  <2> HIDE DEF current, stopped, S, left
  <2>4. Known(gone) /\ \A m \in Nodes : gone.nodes[m] \in {r.nodes[m], AbsentNode}
    BY <2>2, <2>3, InvalidateType
  <2> HIDE DEF next, gone
  <2>5. Forgets(log, gone) /\ gone \in Runs
    BY <1>1, <2>4 DEF Forgets, Known
  <2>6. \A o \in SpawnNode(gone, left, n, next) : KeepsSettled(log, o.log)
    BY <2>1, <2>5, SpawnWrites, ForgetThenWrite
  <2>7. KeepsSettled(log, Outcome(r, alive).log)
    BY <1>1, OutcomeFields, ForgetThenWrite DEF WritesSome
  <2> QED
    BY <1>3, <2>6, <2>7 DEF RetryNode, Become, next, gone, current, stopped, left, S
<1>4. CASE PauseRun \/ CleanupRun
  BY <1>0, <1>4, RunEventStep, ForgetThenWrite DEF PauseRun, CleanupRun, WritesSome
<1>5. ASSUME NEW x \in {log, RunResumed(log), RunReopened(log)}, NEW o \in Redrive(x, alive)
      PROVE  KeepsSettled(log, o.log)
  <2>1. x \in Runs /\ Forgets(log, x)
    BY <1>0, <1>5, RunEventStep, ReopenedStep DEF Forgets
  <2> QED
    BY <2>1, RedriveWrites, ForgetThenWrite
<1>6. CASE ResumeRun
  BY <1>5, <1>6 DEF ResumeRun, Become
<1>7. CASE ReopenRun
  BY <1>5, <1>7 DEF ReopenRun, Become
<1> QED
  BY <1>2, <1>3, <1>4, <1>6, <1>7 DEF UserStep

\* A forced start re-opens the Run, and writes one row later.
LEMMA ForcedKeeps == ASSUME TypeInv, ForcedStart PROVE KeepsSettled(log, log')
<1>0. log \in Runs /\ Forgets(log, log)
  BY DEF TypeInv, Known, Forgets
<1>1. ASSUME NEW n \in Nodes, AskStart(n) PROVE KeepsSettled(log, log')
  <2>1. Forgets(log, log') /\ WritesSome(log', log')
    BY <1>1, ReopenTypes DEF AskStart, TypeInv, Forgets, WritesSome
  <2> QED
    BY <2>1, ForgetThenWrite
<1>2. ASSUME NEW n \in Nodes, NEW i \in Iters, OpenStarted(n, i)
      PROVE  KeepsSettled(log, log')
  <2>1. WritesSome(log, log) /\ WritesSome(log, AppendStarted(log, n, i))
    BY <1>0, StartWrites DEF AppendStarted, WritesSome
  <2> QED
    BY <1>0, <1>2, <2>1, OutcomeFields, ForgetThenWrite DEF OpenStarted, Become
<1> QED
  BY <1>1, <1>2 DEF ForcedStart

\* No step but node_stop unsettles an iteration.
LEMMA StepKeeps ==
  ASSUME TypeInv, [Next]_vars, ~\E n \in Nodes : StopNode(n)
  PROVE  KeepsSettled(log, log')
<1>1. CASE UNCHANGED log
  BY <1>1 DEF KeepsSettled
<1>2. ASSUME NEW n \in Nodes, NEW i \in Iters, SessionDies(n, i) PROVE UNCHANGED log
  BY <1>2 DEF SessionDies
<1> QED
  BY <1>1, <1>2, SchedulerKeeps, AgentKeeps, GestureKeeps, UserKeeps, ForcedKeeps
  DEF Next, HandlerStep, vars

\* node_stop settles the row finalize names: that of a running node is live.
LEMMA StopKeeps ==
  ASSUME CleanRun(log, alive), NEW n \in Nodes, StopNode(n)
  PROVE  KeepsSettled(log, log')
<1> DEFINE k == View(log).nodes[n].iter
<1>0. log \in Runs /\ Forgets(log, log) /\ Known(log) /\ Present(log, n)
  BY DEF CleanRun, Known, Forgets, StopNode, Present
<1>1. k \in Iters /\ k = ViewNode(log, n).iter
  BY <1>0, ViewIterType DEF View
<1>2. ~SettledComplete(log.nodes[n].row[k])
  <2>1. PICK j \in Iters : LiveRow(log.nodes[n], j)
    BY DEF StopNode, CleanRun, CleanNode, HoldsSession
  <2>2. j \in Rows(log, n)
    BY <2>1, StatusFacts DEF Rows, LiveRow
  <2>3. k \in Rows(log, n) /\ j <= k
    BY <1>0, <2>2, ViewKeeps, LatestRowIsMax
  <2>4. k <= j
    BY <2>1, <2>3 DEF CleanRun, CleanNode, Rows
  <2>5. k = j
    BY <1>1, <2>3, <2>4, IterType
  <2> QED
    BY <2>1, <2>5, SettledFacts DEF LiveRow
<1> HIDE DEF k
<1>3. Writes(log, NodeStopped(log, n, k), n, k)
  BY <1>0, <1>1, <1>2, EventWrites
<1> QED
  BY <1>0, <1>1, <1>3, ForgetThenWrite DEF StopNode, WritesSome, k

\* Whatever laps run side by side, no handler but node_stop writes over an
\* iteration that has completed or was skipped.
THEOREM SettledLapsKept == Spec => SettledLapsStick
<1>1. TypeInv /\ [Next]_vars => ((~\E n \in Nodes : StopNode(n)) => KeepsSettled(log, log'))
  BY StepKeeps
<1>2. TypeInv /\ [Next]_vars =>
        [(~\E n \in Nodes : StopNode(n)) => KeepsSettled(log, log')]_vars
  BY <1>1
<1> QED
  BY <1>2, TypeInvInit, TypeInvStep, PTL DEF Spec, SettledLapsStick

\* In a pipeline without collections and forced routes, node_stop does not either.
THEOREM SettledWorkKept == ASSUME Sequential PROVE Spec => SettledSticks
<1>1. CleanRun(log, alive) /\ [Next]_vars => KeepsSettled(log, log')
  BY StepKeeps, StopKeeps DEF CleanRun, TypeInv
<1>2. CleanRun(log, alive) /\ [Next]_vars => [KeepsSettled(log, log')]_vars
  BY <1>1
<1> QED
  BY <1>2, CleanInit, CleanStep, AskedInit, AskedStep, PTL DEF Spec, SettledSticks

(***************************************************************************)
(* Open runs                                                               *)
(***************************************************************************)
\* Nobody is at work in s who was not in r.
Quiet(r, s) ==
  \A n \in Nodes, i \in Iters :
    HoldsSession(s.nodes[n].row[i]) => HoldsSession(r.nodes[n].row[i])

StartsInto(r, s) == Quiet(r, s) \/ RunAcceptsLifecycle(View(s))

\* A run accepts node events as finalize shows it when it does in the raw.
LEMMA AcceptsRaw ==
  \A r : RunAcceptsLifecycle(View(r)) <=> r.status \in {"running", "awaiting"}
  BY DEF RunAcceptsLifecycle, View, ViewStatus

\* One quiet change after another is quiet, and so is forgetting nodes.
LEMMA QuietTwice ==
  ASSUME NEW r, NEW x, NEW s, Quiet(r, x) PROVE StartsInto(x, s) => StartsInto(r, s)
  BY DEF Quiet, StartsInto

LEMMA QuietForgetting ==
  ASSUME NEW r, NEW x, Forgets(r, x) PROVE Quiet(r, x)
  BY AbsentBlank, StatusFacts DEF Forgets, Quiet

\* An event about one node that writes one row and puts nobody to work.
LEMMA RowQuiet ==
  ASSUME NEW r, NEW s, NEW n \in Nodes, NEW i \in Iters, OnlyNode(r, s, n),
         RowsBut(s.nodes[n], r.nodes[n], i),
         HoldsSession(s.nodes[n].row[i]) => HoldsSession(r.nodes[n].row[i])
  PROVE  Quiet(r, s)
  BY DEF Quiet, OnlyNode, RowsBut

\* The node events that put nobody to work, whoever is; and those that do not
\* because their row is at work.
LEMMA EventQuiet ==
  ASSUME NEW r \in Runs, NEW n \in Nodes, NEW i \in Iters
  PROVE  /\ Quiet(r, NodeWaiting(r, n, i))
         /\ Quiet(r, NodeCompleted(r, n, i))
         /\ Quiet(r, NodeSkipped(r, n, i))
         /\ Quiet(r, NodeResumed(r, n, i))
         /\ Quiet(r, NodeStopped(r, n, i))
         /\ Quiet(r, AppendFailed(r, n, i))
         /\ Quiet(r, AppendInterrupted(r, n, i))
         /\ HoldsSession(r.nodes[n].row[i]) =>
              /\ Quiet(r, NodeCompletionReleased(r, n, i))
              /\ \A said \in BOOLEAN : Quiet(r, NodeAwaitingUser(r, n, i, said))
<1>0. Quiet(r, r)
  BY DEF Quiet
<1>1. Quiet(r, NodeWaiting(r, n, i))
  BY WaitingStep, RowQuiet DEF RowsBut
<1>2. Quiet(r, AppendInterrupted(r, n, i))
  <2>1. Quiet(r, NodeInterrupted(r, n, i))
    BY InterruptedStep, StatusFacts, RowQuiet DEF RowSet
  <2> QED
    BY <1>0, <2>1 DEF AppendInterrupted
<1>3. CASE ~Present(r, n)
  <2>1. Quiet(r, NodeSkipped(r, n, i))
    BY <1>3, SkippedStep, StatusFacts DEF Quiet, OnlyNode
  <2> QED
    BY <1>0, <1>1, <1>2, <1>3, <2>1
    DEF NodeCompleted, NodeResumed, AppendFailed, NodeFailed, NodeStopped,
        NodeCompletionReleased, NodeAwaitingUser
<1>4. CASE Present(r, n)
  <2>1. /\ Quiet(r, NodeCompleted(r, n, i)) /\ Quiet(r, NodeSkipped(r, n, i))
        /\ Quiet(r, NodeStopped(r, n, i))
    BY <1>4, CompletedStep, StoppedStep, StatusFacts, RowQuiet DEF RowSet, NodeSkipped
  <2>2. Quiet(r, NodeResumed(r, n, i))
    BY <1>4, ResumedStep, RowQuiet DEF HoldsSession
  <2>3. Quiet(r, AppendFailed(r, n, i))
    <3>1. Quiet(r, NodeFailed(r, n, i))
      BY <1>4, FailedStep, StatusFacts, RowQuiet DEF RowSet
    <3> QED
      BY <1>0, <3>1 DEF AppendFailed
  <2>4. ASSUME HoldsSession(r.nodes[n].row[i])
        PROVE  /\ Quiet(r, NodeCompletionReleased(r, n, i))
               /\ \A said \in BOOLEAN : Quiet(r, NodeAwaitingUser(r, n, i, said))
    BY <1>4, <2>4, ReleasedStep, AwaitingStep, RowQuiet DEF RowSet
  <2> QED
    BY <1>1, <1>2, <2>1, <2>2, <2>3, <2>4
<1> QED
  BY <1>3, <1>4

\* A start the guard allows leaves a Run that accepts node events.
LEMMA StartAccepted ==
  ASSUME NEW r \in Runs, NEW n \in Nodes, NEW i \in Iters,
         ValidateStart(View(r), n, i) # "reject"
  PROVE  StartsInto(r, NodeStarted(r, n, i))
<1>1. RunAcceptsLifecycle(View(r))
  BY DEF ValidateStart
<1> QED
  BY <1>1, AcceptsRaw, StartedStep DEF OnlyNode, StartsInto

\* So does a spawn, however it ends.
LEMMA SpawnAccepted ==
  ASSUME NEW r \in Runs, NEW a, NEW n \in Nodes, NEW i \in Iters,
         NEW o \in SpawnNode(r, a, n, i)
  PROVE  StartsInto(r, o.log)
<1>1. CASE SpawnRefused(r, a, n, i)
  BY <1>1, OutcomeFields DEF SpawnNode, StartsInto, Quiet
<1>2. CASE ~SpawnRefused(r, a, n, i)
  <2> DEFINE started == NodeStarted(r, n, i)
             ended == AppendInterrupted(started, n, i)
  <2>1. StartsInto(r, started) /\ started \in Runs
    BY <1>2, StartAccepted, StartedStep DEF SpawnRefused, OnlyNode
  <2>2. RunAcceptsLifecycle(View(started))
    BY <1>2, AcceptsRaw, StartedStep DEF SpawnRefused, ValidateStart, OnlyNode
  <2>3. ended.status = started.status
    BY <2>1, InterruptedStep DEF AppendInterrupted, OnlyNode
  <2>4. StartsInto(r, ended)
    BY <2>2, <2>3, AcceptsRaw DEF StartsInto
  <2>5. StartsInto(r, NodeWaiting(r, n, i)) /\ StartsInto(r, AppendInterrupted(r, n, i))
    BY EventQuiet DEF StartsInto
  <2> QED
    BY <1>2, <2>1, <2>4, <2>5, OutcomeFields DEF SpawnNode
<1> QED
  BY <1>1, <1>2

\* And so does re-driving the nodes that are owed.
LEMMA RedriveAccepted ==
  ASSUME NEW r \in Runs, NEW a, NEW o \in Redrive(r, a) PROVE StartsInto(r, o.log)
<1>1. CASE o = Outcome(r, a)
  BY <1>1, OutcomeFields DEF StartsInto, Quiet
<1>2. CASE \E n \in Nodes, i \in Iters : o \in SpawnNode(r, a, n, i)
  BY <1>2, SpawnAccepted
<1> QED
  BY <1>1, <1>2 DEF Redrive

\* The scheduler and the sweep.
LEMMA SchedulerAccepted ==
  ASSUME TypeInv, SchedulerStep \/ \E n \in Nodes : SweepDeadSession(n)
  PROVE  StartsInto(log, log')
<1>0. log \in Runs
  BY DEF TypeInv, Known
<1>1. CASE RouteToEnd
  BY <1>0, <1>1, RunEventStep DEF RouteToEnd, StartsInto, Quiet
<1>2. ASSUME NEW n \in Nodes, Schedule(n) PROVE StartsInto(log, log')
  BY <1>0, <1>2, SpawnAccepted DEF Schedule, Proposed, Become
<1>3. ASSUME NEW n \in Nodes, RetryWaiting(n) PROVE StartsInto(log, log')
  <2>1. View(log).nodes[n].iter \in Iters
    BY <1>3, ViewIterType DEF RetryWaiting, Present, TypeInv
  <2> QED
    BY <1>0, <1>3, <2>1, SpawnAccepted DEF RetryWaiting, Become
<1>4. ASSUME NEW n \in Nodes, SweepDeadSession(n) PROVE StartsInto(log, log')
  <2>1. Present(log, n)
    BY <1>0, <1>4, ViewKeeps DEF SweepDeadSession, Present
  <2>2. View(log).nodes[n].iter \in Iters
    BY <2>1, ViewIterType DEF TypeInv
  <2> QED
    BY <1>0, <1>4, <2>2, EventQuiet DEF SweepDeadSession, StartsInto
<1> QED
  BY <1>1, <1>2, <1>3, <1>4 DEF SchedulerStep

\* The calls of an agent put nobody to work.
LEMMA AgentAccepted ==
  ASSUME TypeInv, NEW n \in Nodes, NEW i \in Iters, AgentStep(n, i)
  PROVE  StartsInto(log, log')
<1>0. log \in Runs
  BY DEF TypeInv, Known
<1> SUFFICES Quiet(log, log')
  BY DEF StartsInto
<1>1. ASSUME NEW said \in BOOLEAN, DeclareWait(n, i, said) PROVE Quiet(log, log')
  BY <1>0, <1>1, ViewKeeps, EventQuiet DEF DeclareWait, CheckLiveSession
<1>2. CASE Complete(n, i)
  BY <1>0, <1>1, <1>2, EventQuiet DEF Complete
<1>3. CASE WaitUser(n, i)
  BY <1>1, <1>3 DEF WaitUser
<1>4. CASE Fail(n, i)
  <2>1. AppendFailed(log, n, i) \in Runs
    BY EventTypes DEF TypeInv, Known
  <2>2. log'.nodes = AppendFailed(log, n, i).nodes
    BY <1>4, <2>1, RunEventStep DEF Fail
  <2> QED
    BY <1>0, <2>2, EventQuiet DEF Quiet
<1>5. CASE SkipRun(n, i)
  <2>1. NodeSkipped(log, n, i) \in Runs
    BY EventTypes DEF TypeInv, Known
  <2>2. log'.nodes = NodeSkipped(log, n, i).nodes
    BY <1>5, <2>1, RunEventStep DEF SkipRun
  <2> QED
    BY <1>0, <2>2, EventQuiet DEF Quiet
<1> QED
  BY <1>2, <1>3, <1>4, <1>5 DEF AgentStep

\* A gesture on a node may re-open the Run, and then start it.
LEMMA GestureAccepted ==
  ASSUME TypeInv, NEW n \in Nodes, NEW i \in Iters, NodeGesture(n, i)
  PROVE  StartsInto(log, log')
<1> DEFINE r == EmbedReopen(log)
<1>0. log \in Runs
  BY DEF TypeInv, Known
<1>1. r \in Runs /\ Quiet(log, r)
  BY ReopenTypes, QuietForgetting DEF TypeInv, Known, Forgets
<1>2. StartsInto(r, r)
  BY DEF StartsInto, Quiet
<1>3. CASE Release(n, i) \/ LiftWait(n, i) \/ KillNode(n, i)
  BY <1>0, <1>3, ViewKeeps, EventQuiet DEF Release, LiftWait, KillNode, StartsInto
<1> SUFFICES ASSUME ~(Release(n, i) \/ LiftWait(n, i) \/ KillNode(n, i))
             PROVE  StartsInto(r, log')
  BY <1>1, <1>3, QuietTwice
<1>4. CASE MarkNodeDone(n, i) \/ SkipNode(n, i)
  BY <1>1, <1>2, <1>4, EventQuiet DEF MarkNodeDone, SkipNode, StartsInto
<1>5. CASE RestartNode(n, i)
  BY <1>1, <1>2, <1>5, SpawnAccepted, OutcomeFields DEF RestartNode, Become
<1>6. CASE RecoverNode(n, i)
  BY <1>1, <1>2, <1>6, StartAccepted, OutcomeFields DEF RecoverNode, Become
<1> QED
  BY <1>4, <1>5, <1>6 DEF NodeGesture

\* So may the gestures of the user on the whole Run, and the two that start a
\* node at an iteration of their own.
LEMMA UserAccepted == ASSUME TypeInv, UserStep PROVE StartsInto(log, log')
<1> DEFINE r == EmbedReopen(log)
<1>0. log \in Runs
  BY DEF TypeInv, Known
<1>1. r \in Runs /\ Known(r) /\ Quiet(log, r) /\ StartsInto(r, r)
  BY ReopenTypes, QuietForgetting DEF TypeInv, Known, Forgets, StartsInto, Quiet
<1>2. ASSUME NEW n \in Nodes, StopNode(n) PROVE StartsInto(log, log')
  <2>1. View(log).nodes[n].iter \in Iters
    BY <1>2, ViewIterType DEF StopNode, Present, TypeInv
  <2> QED
    BY <1>0, <1>2, <2>1, EventQuiet DEF StopNode, StartsInto
<1>3. ASSUME NEW n \in Nodes, StartNode(n) PROVE StartsInto(log, log')
  <2> DEFINE i == View(r).nodes[n].iter + 1
  <2>1. i \in Iters
    BY <1>3 DEF StartNode
  <2> HIDE DEF i
  <2>2. StartsInto(r, log')
    BY <1>1, <1>3, <2>1, StartAccepted, OutcomeFields DEF StartNode, Become, i
  <2> QED
    BY <1>1, <2>2, QuietTwice
<1>4. ASSUME NEW n \in Nodes, RetryNode(n) PROVE StartsInto(log, log')
  <2> DEFINE current == IF Present(log, n) THEN View(log).nodes[n].iter ELSE 1
             next == IF n \in Regions THEN current ELSE current + 1
             running == r.nodes[n].st = "running"
             stopped == IF running THEN NodeStopped(r, n, current) ELSE r
             left == IF running THEN alive \ {<<n, current>>} ELSE alive
             gone == Invalidate(stopped, Downstream[n] \cup {n})
  <2>1. current \in Iters /\ next \in Iters
    BY <1>4, ViewIterType, RunLogAssumption DEF RetryNode, Iters, TypeInv
  <2>2. Known(stopped) /\ Quiet(r, stopped)
    <3> HIDE DEF r, current
    <3>1. Known(stopped)
      BY <1>1, <2>1, EventTypes
    <3>2. Quiet(r, NodeStopped(r, n, current)) /\ Quiet(r, r)
      BY <1>1, <2>1, EventQuiet DEF Quiet
    <3> QED
      BY <3>1, <3>2
  <2>3. Downstream[n] \cup {n} \in SUBSET Nodes
    BY LifecycleAssumption
  <2> HIDE DEF current, stopped, left
  <2>4. gone \in Runs /\ Quiet(stopped, gone)
    BY <2>2, <2>3, InvalidateType, QuietForgetting DEF Known, Forgets
  <2> HIDE DEF next, gone
  <2>5. \A o \in SpawnNode(gone, left, n, next) : StartsInto(log, o.log)
    BY <1>1, <2>1, <2>2, <2>4, SpawnAccepted, QuietTwice
  <2>6. StartsInto(log, Outcome(r, alive).log)
    BY <1>1, QuietTwice, OutcomeFields
  <2> QED
    BY <1>4, <2>5, <2>6 DEF RetryNode, Become, next, gone, current, stopped, left
<1>5. CASE PauseRun \/ CleanupRun
  BY <1>0, <1>5, RunEventStep DEF PauseRun, CleanupRun, StartsInto, Quiet
<1>6. ASSUME NEW x \in {log, RunResumed(log), RunReopened(log)}, NEW o \in Redrive(x, alive)
      PROVE  StartsInto(log, o.log)
  <2>1. x \in Runs /\ Forgets(log, x)
    BY <1>0, <1>6, RunEventStep, ReopenedStep DEF Forgets
  <2> QED
    BY <2>1, RedriveAccepted, QuietForgetting, QuietTwice
<1>7. CASE ResumeRun
  BY <1>6, <1>7 DEF ResumeRun, Become
<1>8. CASE ReopenRun
  BY <1>6, <1>8 DEF ReopenRun, Become
<1> QED
  BY <1>2, <1>3, <1>4, <1>5, <1>7, <1>8 DEF UserStep

\* A forced start that was overtaken asks the guard again.
LEMMA ForcedAccepted == ASSUME TypeInv, ForcedStart PROVE StartsInto(log, log')
<1>0. log \in Runs
  BY DEF TypeInv, Known
<1>1. ASSUME NEW n \in Nodes, AskStart(n) PROVE StartsInto(log, log')
  BY <1>1, ReopenTypes, QuietForgetting DEF AskStart, TypeInv, Forgets, StartsInto
<1>2. ASSUME NEW n \in Nodes, NEW i \in Iters, OpenStarted(n, i) PROVE StartsInto(log, log')
  <2>1. StartsInto(log, log) /\ StartsInto(log, AppendStarted(log, n, i))
    BY <1>0, StartAccepted DEF AppendStarted, StartsInto, Quiet
  <2> QED
    BY <1>2, <2>1, OutcomeFields DEF OpenStarted, Become
<1> QED
  BY <1>1, <1>2 DEF ForcedStart

\* No iteration goes to work in a run that is paused, ended or archived, not by
\* a handler that probed the guard before the run was either.
THEOREM OpenRunsOnly == Spec => StartsOnlyInOpenRuns
<1>1. ASSUME TypeInv, [Next]_vars PROVE StartsInto(log, log')
  <2>1. ASSUME UNCHANGED log PROVE StartsInto(log, log')
    BY <2>1 DEF StartsInto, Quiet
  <2>2. ASSUME NEW n \in Nodes, NEW i \in Iters, SessionDies(n, i) PROVE UNCHANGED log
    BY <2>2 DEF SessionDies
  <2> QED
    BY <1>1, <2>1, <2>2, SchedulerAccepted, AgentAccepted, GestureAccepted, UserAccepted,
       ForcedAccepted
    DEF Next, HandlerStep, vars
<1>2. TypeInv /\ [Next]_vars =>
        [Wakes(log, log') => RunAcceptsLifecycle(View(log'))]_vars
  BY <1>1 DEF StartsInto, Quiet, Wakes
<1> QED
  BY <1>2, TypeInvInit, TypeInvStep, PTL DEF Spec, StartsOnlyInOpenRuns
================================================================================
