----------------------------- MODULE RunLogProofs -----------------------------
(***************************************************************************)
(* Facts about the projection: every event maps a raw run to a raw run,    *)
(* finalize keeps each node's status and rows, and the latest row it picks *)
(* exists.  NodeLifecycleProofs builds on them.                            *)
(***************************************************************************)
EXTENDS RunLog, WellFoundedInduction, TLAPS

(***************************************************************************)
(* The latest row                                                          *)
(***************************************************************************)
LEMMA HasMax ==
  ASSUME NEW m \in Nat, NEW S \in SUBSET (1..m), S # {}
  PROVE  \E i \in S : \A j \in S : j <= i
<1> DEFINE R == {ss \in Nat \X Nat : ss[1] < ss[2]}
           U == {m - i : i \in S}
<1>1. U \subseteq Nat /\ U # {}
  <2>1. \A i \in S : m - i \in Nat
    OBVIOUS
  <2> QED
    BY <2>1
<1>2. IsWellFoundedOn(R, Nat)
  BY NatLessThanWellFounded DEF OpToRel
<1>3. \E x \in U : \A y \in U : ~(<<y, x>> \in R)
  <2> HIDE DEF R, U
  <2> QED
    BY <1>1, <1>2, WFMin
<1>4. PICK x \in U : \A y \in U : ~(y < x)
  BY <1>1, <1>3
<1>5. PICK i \in S : x = m - i
  OBVIOUS
<1>6. ASSUME NEW j \in S PROVE j <= i
  <2>1. m - j \in U
    OBVIOUS
  <2>2. ~(m - j < x)
    BY <2>1, <1>4
  <2> HIDE DEF U
  <2> QED
    BY <2>2, <1>5
<1> QED
  BY <1>6

\* The latest row of a node that has one is one of its rows and no row is
\* later.
LEMMA LatestRowIsMax ==
  ASSUME NEW r, NEW n \in Nodes, Rows(r, n) # {}
  PROVE  /\ LatestRow(r, n) \in Rows(r, n) /\ LatestRow(r, n) \in Iters
         /\ \A j \in Rows(r, n) : j <= LatestRow(r, n)
<1>1. Rows(r, n) \subseteq 1..MaxIter /\ MaxIter \in Nat
  BY RunLogAssumption DEF Rows, Iters
<1>2. \E i \in Rows(r, n) : \A j \in Rows(r, n) : j <= i
  BY <1>1, HasMax
<1> QED
  BY <1>1, <1>2 DEF LatestRow, Iters

(***************************************************************************)
(* Types                                                                   *)
(***************************************************************************)
LEMMA AbsentType == AbsentNode \in NodeStates
  BY RunLogAssumption DEF AbsentNode, NodeStates

\* The Run a log starts from is well formed.
LEMMA FreshType == FreshRun \in Runs
  BY AbsentType DEF FreshRun, Runs, RunStatuses

\* Writing one node keeps the Run well formed and the other nodes as they were.
LEMMA SetNodeType ==
  ASSUME NEW r \in Runs, NEW n \in Nodes, NEW node \in NodeStates
  PROVE  /\ SetNode(r, n, node) \in Runs
         /\ SetNode(r, n, node).nodes[n] = node
         /\ \A m \in Nodes \ {n} : SetNode(r, n, node).nodes[m] = r.nodes[m]
  BY DEF SetNode, Runs

\* Every node of a Run is a well-formed node state.
LEMMA NodeType == ASSUME NEW r \in Runs, NEW n \in Nodes PROVE r.nodes[n] \in NodeStates
  BY DEF Runs

\* Updating an iteration changes that row only, and never creates one.
LEMMA SetRowType ==
  ASSUME NEW node \in NodeStates, NEW i \in Iters, NEW s \in RowStatuses
  PROVE  /\ SetRow(node, i, s) \in NodeStates
         /\ SetRow(node, i, s).row[i] = IF node.row[i] = "none" THEN "none" ELSE s
         /\ \A j \in Iters \ {i} : SetRow(node, i, s).row[j] = node.row[j]
         /\ SetRow(node, i, s).st = node.st /\ SetRow(node, i, s).iter = node.iter
<1> DEFINE v == IF node.row[i] = "none" THEN "none" ELSE s
           rows == [node.row EXCEPT ![i] = v]
<1>1. rows \in [Iters -> RowStatuses \cup {"none"}] /\ rows[i] = v
  BY DEF NodeStates
<1>2. \A j \in Iters \ {i} : rows[j] = node.row[j]
  BY DEF NodeStates
<1>3. SetRow(node, i, s) = [node EXCEPT !.row = rows]
  BY DEF SetRow, NodeStates
<1> HIDE DEF rows
<1> QED
  BY <1>1, <1>2, <1>3 DEF NodeStates

(***************************************************************************)
(* What each event does to its node, and that it does nothing to another.  *)
(***************************************************************************)
OnlyNode(r, s, n) ==
  /\ r \in Runs /\ s \in Runs /\ s.status = r.status
  /\ \A m \in Nodes \ {n} : s.nodes[m] = r.nodes[m]

\* The rows of node x are those of `node', but for iteration i.
RowsBut(x, node, i) == \A j \in Iters \ {i} : x.row[j] = node.row[j]

RowSet(x, node, i, s) ==
  RowsBut(x, node, i) /\ x.row[i] = IF node.row[i] = "none" THEN "none" ELSE s

\* An event written with SetNode concerns one node.
LEMMA OnlyNodeSet ==
  ASSUME NEW r \in Runs, NEW n \in Nodes, NEW node \in NodeStates
  PROVE  OnlyNode(r, SetNode(r, n, node), n) /\ SetNode(r, n, node).nodes[n] = node
<1>1. SetNode(r, n, node).status = r.status
  BY DEF SetNode, Runs
<1> QED
  BY <1>1, SetNodeType DEF OnlyNode

\* An iteration is a natural number within the bound.
LEMMA IterType == ASSUME NEW i \in Iters PROVE i \in 0..MaxIter /\ i \in Nat
  BY RunLogAssumption DEF Iters

\* NodeWaiting moves status and iteration, and no row.
LEMMA WaitingStep ==
  ASSUME NEW r \in Runs, NEW n \in Nodes, NEW i \in Iters
  PROVE  LET s == NodeWaiting(r, n, i)
         IN  /\ OnlyNode(r, s, n)
             /\ s.nodes[n].st = "waiting" /\ s.nodes[n].iter = i
             /\ s.nodes[n].row = r.nodes[n].row
<1> DEFINE x == [r.nodes[n] EXCEPT !.st = "waiting", !.iter = i]
<1>0. r.nodes[n] \in NodeStates /\ i \in 0..MaxIter /\ "waiting" \in NodeStatuses
  BY NodeType, IterType DEF NodeStatuses
<1>1. x \in NodeStates /\ x.st = "waiting" /\ x.iter = i /\ x.row = r.nodes[n].row
  BY <1>0 DEF NodeStates
<1> HIDE DEF x
<1>2. NodeWaiting(r, n, i) = SetNode(r, n, x)
  BY DEF NodeWaiting, x
<1> QED
  BY <1>1, <1>2, OnlyNodeSet

\* NodeStarted makes the node and its row run.
LEMMA StartedStep ==
  ASSUME NEW r \in Runs, NEW n \in Nodes, NEW i \in Iters
  PROVE  LET s == NodeStarted(r, n, i)
         IN  /\ OnlyNode(r, s, n)
             /\ s.nodes[n].st = "running" /\ s.nodes[n].iter = i
             /\ s.nodes[n].row[i] = "running"
             /\ RowsBut(s.nodes[n], r.nodes[n], i)
<1> DEFINE rows == [r.nodes[n].row EXCEPT ![i] = "running"]
           left == r.nodes[n].released \ {i}
           x == [r.nodes[n] EXCEPT !.st = "running", !.iter = i, !.row = rows,
                                   !.released = left, !.said = FALSE]
<1>0. r.nodes[n] \in NodeStates /\ i \in 0..MaxIter /\ "running" \in NodeStatuses
  BY NodeType, IterType DEF NodeStatuses, RowStatuses
<1>1. /\ rows \in [Iters -> RowStatuses \cup {"none"}] /\ rows[i] = "running"
      /\ \A j \in Iters \ {i} : rows[j] = r.nodes[n].row[j]
  BY <1>0 DEF NodeStates, RowStatuses
<1>2. left \in SUBSET Iters
  BY <1>0 DEF NodeStates
<1>3. NodeStarted(r, n, i) = SetNode(r, n, x)
  BY <1>0 DEF NodeStarted, NodeStates
<1> HIDE DEF rows, left
<1>4. x \in NodeStates /\ x.st = "running" /\ x.iter = i /\ x.row = rows
  BY <1>0, <1>1, <1>2 DEF NodeStates
<1> HIDE DEF x
<1> QED
  BY <1>1, <1>3, <1>4, OnlyNodeSet DEF RowsBut

\* NodeCompletionReleased reopens its row, and the status of the latest iteration only.
LEMMA ReleasedStep ==
  ASSUME NEW r \in Runs, NEW n \in Nodes, NEW i \in Iters, Present(r, n)
  PROVE  LET s == NodeCompletionReleased(r, n, i)
         IN  /\ OnlyNode(r, s, n)
             /\ s.nodes[n].st = IF i = r.nodes[n].iter THEN "running" ELSE r.nodes[n].st
             /\ s.nodes[n].iter = r.nodes[n].iter
             /\ RowSet(s.nodes[n], r.nodes[n], i, "running")
<1> DEFINE node == r.nodes[n]
           base == SetRow(node, i, "running")
           st == IF i = node.iter THEN "running" ELSE base.st
           said == IF i = node.iter THEN FALSE ELSE base.said
           rel == IF node.row[i] = "none" THEN base.released ELSE base.released \cup {i}
           x == [base EXCEPT !.st = st, !.said = said, !.released = rel]
<1>0. node \in NodeStates /\ base \in NodeStates
  BY NodeType, SetRowType DEF RowStatuses
<1>1. st \in NodeStatuses \cup {"absent"} /\ said \in BOOLEAN /\ rel \in SUBSET Iters
  <2> HIDE DEF base
  <2>1. base.st \in NodeStatuses \cup {"absent"} /\ base.said \in BOOLEAN
        /\ base.released \subseteq Iters
    BY <1>0 DEF NodeStates
  <2>2. "running" \in NodeStatuses
    BY DEF NodeStatuses, RowStatuses
  <2> HIDE DEF node
  <2>3. st \in NodeStatuses \cup {"absent"} /\ said \in BOOLEAN
    BY <2>1, <2>2
  <2>4. rel \in SUBSET Iters
    BY <2>1
  <2> QED
    BY <2>3, <2>4
<1>2. base.st = node.st /\ base.iter = node.iter /\ RowSet(base, node, i, "running")
  <2>1. "running" \in RowStatuses
    BY DEF RowStatuses
  <2> QED
    BY <1>0, <2>1, SetRowType DEF RowSet, RowsBut
<1>3. NodeCompletionReleased(r, n, i) = SetNode(r, n, x)
  BY DEF NodeCompletionReleased
<1> HIDE DEF base, said, rel
<1>4. x \in NodeStates /\ x.st = st /\ x.iter = base.iter /\ x.row = base.row
  BY <1>0, <1>1 DEF NodeStates
<1> HIDE DEF x
<1> QED
  BY <1>2, <1>3, <1>4, OnlyNodeSet DEF RowSet, RowsBut

\* The events that set the node's status and one existing row.
LEMMA RowAndStatusStep ==
  ASSUME NEW r \in Runs, NEW n \in Nodes, NEW i \in Iters, NEW s \in RowStatuses,
         NEW st \in NodeStatuses \cup {"absent"}
  PROVE  LET t == SetNode(r, n, [SetRow(r.nodes[n], i, s) EXCEPT !.st = st])
         IN  /\ OnlyNode(r, t, n)
             /\ t.nodes[n].st = st /\ t.nodes[n].iter = r.nodes[n].iter
             /\ RowSet(t.nodes[n], r.nodes[n], i, s)
<1> DEFINE base == SetRow(r.nodes[n], i, s)
           x == [base EXCEPT !.st = st]
<1>1. /\ base \in NodeStates /\ base.iter = r.nodes[n].iter
      /\ RowSet(base, r.nodes[n], i, s)
  BY NodeType, SetRowType DEF RowSet, RowsBut
<1> HIDE DEF base
<1>2. x \in NodeStates /\ x.st = st /\ x.iter = base.iter /\ x.row = base.row
  BY <1>1 DEF NodeStates
<1>3. OnlyNode(r, SetNode(r, n, x), n) /\ SetNode(r, n, x).nodes[n] = x
  BY <1>2, OnlyNodeSet
<1> HIDE DEF x
<1>4. LET t == SetNode(r, n, x)
      IN  /\ OnlyNode(r, t, n)
          /\ t.nodes[n].st = st /\ t.nodes[n].iter = r.nodes[n].iter
          /\ RowSet(t.nodes[n], r.nodes[n], i, s)
  BY <1>1, <1>2, <1>3 DEF RowSet, RowsBut
<1> QED
  BY <1>4 DEF x, base

\* NodeCompleted settles its row and the status, whatever the iteration.
LEMMA CompletedStep ==
  ASSUME NEW r \in Runs, NEW n \in Nodes, NEW i \in Iters, Present(r, n)
  PROVE  LET s == NodeCompleted(r, n, i)
         IN  /\ OnlyNode(r, s, n)
             /\ s.nodes[n].st = "completed" /\ s.nodes[n].iter = r.nodes[n].iter
             /\ RowSet(s.nodes[n], r.nodes[n], i, "completed")
<1>1. "completed" \in RowStatuses /\ "completed" \in NodeStatuses
  BY DEF RowStatuses, NodeStatuses
<1> QED
  BY <1>1, RowAndStatusStep DEF NodeCompleted

\* NodeFailed settles its row; an older iteration leaves the status alone.
LEMMA FailedStep ==
  ASSUME NEW r \in Runs, NEW n \in Nodes, NEW i \in Iters, Present(r, n)
  PROVE  LET s == NodeFailed(r, n, i)
         IN  /\ OnlyNode(r, s, n)
             /\ s.nodes[n].st = IF i >= r.nodes[n].iter THEN "failed" ELSE r.nodes[n].st
             /\ s.nodes[n].iter = r.nodes[n].iter
             /\ RowSet(s.nodes[n], r.nodes[n], i, "failed")
<1> DEFINE st == IF i >= r.nodes[n].iter THEN "failed" ELSE r.nodes[n].st
<1>1. r.nodes[n] \in NodeStates
  BY NodeType
<1>2. "failed" \in RowStatuses /\ st \in NodeStatuses \cup {"absent"}
  BY <1>1 DEF RowStatuses, NodeStatuses, NodeStates
<1>3. SetRow(r.nodes[n], i, "failed").st = r.nodes[n].st
  BY <1>1, <1>2, SetRowType
<1>4. NodeFailed(r, n, i) = SetNode(r, n, [SetRow(r.nodes[n], i, "failed") EXCEPT !.st = st])
  BY <1>3 DEF NodeFailed
<1> QED
  BY <1>2, <1>4, RowAndStatusStep

\* NodeStopped settles its row and the status, whatever the iteration.
LEMMA StoppedStep ==
  ASSUME NEW r \in Runs, NEW n \in Nodes, NEW i \in Iters, Present(r, n)
  PROVE  LET s == NodeStopped(r, n, i)
         IN  /\ OnlyNode(r, s, n)
             /\ s.nodes[n].st = "stopped" /\ s.nodes[n].iter = r.nodes[n].iter
             /\ RowSet(s.nodes[n], r.nodes[n], i, "stopped")
<1>1. "stopped" \in RowStatuses /\ "stopped" \in NodeStatuses
  BY DEF RowStatuses, NodeStatuses
<1> QED
  BY <1>1, RowAndStatusStep DEF NodeStopped

\* NodeAwaitingUser parks its row and the status.
LEMMA AwaitingStep ==
  ASSUME NEW r \in Runs, NEW n \in Nodes, NEW i \in Iters, NEW said \in BOOLEAN,
         Present(r, n)
  PROVE  LET s == NodeAwaitingUser(r, n, i, said)
         IN  /\ OnlyNode(r, s, n)
             /\ s.nodes[n].st = "awaiting" /\ s.nodes[n].iter = r.nodes[n].iter
             /\ RowSet(s.nodes[n], r.nodes[n], i, "awaiting")
<1> DEFINE base == SetRow(r.nodes[n], i, "awaiting")
           x == [base EXCEPT !.st = "awaiting", !.said = said]
<1>0. "awaiting" \in RowStatuses /\ "awaiting" \in NodeStatuses
  BY DEF RowStatuses, NodeStatuses
<1>1. /\ base \in NodeStates /\ base.iter = r.nodes[n].iter
      /\ RowSet(base, r.nodes[n], i, "awaiting")
  BY <1>0, NodeType, SetRowType DEF RowSet, RowsBut
<1>2. NodeAwaitingUser(r, n, i, said) = SetNode(r, n, x)
  BY DEF NodeAwaitingUser
<1> HIDE DEF base
<1>3. x \in NodeStates /\ x.st = "awaiting" /\ x.iter = base.iter /\ x.row = base.row
  BY <1>0, <1>1 DEF NodeStates
<1> HIDE DEF x
<1> QED
  BY <1>1, <1>2, <1>3, OnlyNodeSet DEF RowSet, RowsBut

\* NodeResumed lifts a parked row, and the status when it is that of this iteration.
LEMMA ResumedStep ==
  ASSUME NEW r \in Runs, NEW n \in Nodes, NEW i \in Iters, Present(r, n)
  PROVE  LET s == NodeResumed(r, n, i)
             lifts == i = r.nodes[n].iter /\ r.nodes[n].st = "awaiting"
         IN  /\ OnlyNode(r, s, n)
             /\ s.nodes[n].st = IF lifts THEN "running" ELSE r.nodes[n].st
             /\ s.nodes[n].iter = r.nodes[n].iter
             /\ RowsBut(s.nodes[n], r.nodes[n], i)
             /\ s.nodes[n].row[i] = IF r.nodes[n].row[i] = "awaiting" THEN "running"
                                    ELSE r.nodes[n].row[i]
<1> DEFINE node == r.nodes[n]
           lifts == i = node.iter /\ node.st = "awaiting"
           v == IF node.row[i] = "awaiting" THEN "running" ELSE node.row[i]
           rows == [node.row EXCEPT ![i] = v]
           st == IF lifts THEN "running" ELSE node.st
           said == IF lifts THEN FALSE ELSE node.said
           x == [node EXCEPT !.row = rows, !.st = st, !.said = said]
<1>0. node \in NodeStates
  BY NodeType
<1>1. /\ rows \in [Iters -> RowStatuses \cup {"none"}] /\ rows[i] = v
      /\ \A j \in Iters \ {i} : rows[j] = node.row[j]
  BY <1>0 DEF NodeStates, RowStatuses
<1>2. st \in NodeStatuses \cup {"absent"} /\ said \in BOOLEAN
  BY <1>0 DEF NodeStates, NodeStatuses, RowStatuses
<1>3. NodeResumed(r, n, i) = SetNode(r, n, x)
  BY <1>0 DEF NodeResumed, NodeStates
<1> HIDE DEF rows, said
<1>4. x \in NodeStates /\ x.st = st /\ x.iter = node.iter /\ x.row = rows
  BY <1>0, <1>1, <1>2 DEF NodeStates
<1> HIDE DEF x
<1> QED
  BY <1>1, <1>3, <1>4, OnlyNodeSet DEF RowsBut

\* NodeInterrupted settles its row; an older iteration leaves the status alone.
LEMMA InterruptedStep ==
  ASSUME NEW r \in Runs, NEW n \in Nodes, NEW i \in Iters
  PROVE  LET s == NodeInterrupted(r, n, i)
             latest == i >= r.nodes[n].iter
         IN  /\ OnlyNode(r, s, n)
             /\ s.nodes[n].st = IF latest THEN "interrupted" ELSE r.nodes[n].st
             /\ s.nodes[n].iter = IF latest THEN i ELSE r.nodes[n].iter
             /\ RowSet(s.nodes[n], r.nodes[n], i, "interrupted")
<1> DEFINE node == r.nodes[n]
           base == SetRow(node, i, "interrupted")
           st == IF i >= node.iter THEN "interrupted" ELSE node.st
           iter == IF i >= node.iter THEN i ELSE node.iter
           x == [base EXCEPT !.st = st, !.iter = iter]
<1>0. node \in NodeStates /\ i \in 0..MaxIter /\ "interrupted" \in RowStatuses
  BY NodeType, IterType DEF RowStatuses
<1>1. /\ base \in NodeStates /\ base.st = node.st /\ base.iter = node.iter
      /\ RowSet(base, node, i, "interrupted")
  BY <1>0, SetRowType DEF RowSet, RowsBut
<1>2. st \in NodeStatuses \cup {"absent"} /\ iter \in 0..MaxIter
  BY <1>0 DEF NodeStates, NodeStatuses, RowStatuses
<1>3. NodeInterrupted(r, n, i) = SetNode(r, n, x)
  BY <1>1 DEF NodeInterrupted
<1> HIDE DEF base
<1>4. x \in NodeStates /\ x.st = st /\ x.iter = iter /\ x.row = base.row
  BY <1>1, <1>2 DEF NodeStates
<1> HIDE DEF x
<1> QED
  BY <1>1, <1>3, <1>4, OnlyNodeSet DEF RowSet, RowsBut

\* A skip completes a node that is there and inserts one that is not.
LEMMA SkippedStep ==
  ASSUME NEW r \in Runs, NEW n \in Nodes, NEW i \in Iters, ~Present(r, n)
  PROVE  LET s == NodeSkipped(r, n, i)
         IN  /\ OnlyNode(r, s, n)
             /\ s.nodes[n].st = "skipped" /\ s.nodes[n].iter = i
             /\ \A j \in Iters : s.nodes[n].row[j] = IF j = i THEN "skipped" ELSE "none"
<1> DEFINE rows == [AbsentNode.row EXCEPT ![i] = "skipped"]
           x == [AbsentNode EXCEPT !.st = "skipped", !.iter = i, !.row = rows]
<1>0. "skipped" \in RowStatuses /\ "skipped" \in NodeStatuses /\ i \in 0..MaxIter
  BY IterType DEF RowStatuses, NodeStatuses
<1>1. /\ rows \in [Iters -> RowStatuses \cup {"none"}]
      /\ \A j \in Iters : rows[j] = IF j = i THEN "skipped" ELSE "none"
  BY <1>0 DEF AbsentNode
<1>2. NodeSkipped(r, n, i) = SetNode(r, n, x)
  BY DEF NodeSkipped, AbsentNode
<1> HIDE DEF rows
<1>3. x \in NodeStates /\ x.st = "skipped" /\ x.iter = i /\ x.row = rows
  BY <1>0, <1>1, AbsentType DEF NodeStates
<1> HIDE DEF x
<1> QED
  BY <1>1, <1>2, <1>3, OnlyNodeSet

(***************************************************************************)
(* Run events, and the view                                                *)
(***************************************************************************)
\* A run event changes no node; a reopening takes whole nodes away.
LEMMA RunEventStep ==
  ASSUME NEW r \in Runs,
         NEW s \in {RunCompleted(r), RunFailed(r), RunSkipped(r), RunHalted(r),
                    RunArchived(r), RunPaused(r), RunResumed(r), RunInterrupted(r)}
  PROVE  s \in Runs /\ s.nodes = r.nodes
  BY DEF Runs, RunStatuses, RunCompleted, RunFailed, RunSkipped, RunHalted, RunArchived,
     RunPaused, RunResumed, RunInterrupted

\* Reopening a Run keeps each node as it was or forgets it.
LEMMA ReopenedStep ==
  ASSUME NEW r \in Runs
  PROVE  /\ RunReopened(r) \in Runs
         /\ \A n \in Nodes : RunReopened(r).nodes[n] \in {r.nodes[n], AbsentNode}
<1>1. CASE RunReopened(r) = r
  BY <1>1 DEF Runs
<1>2. CASE r.status \in {"halted", "failed", "completed", "skipped", "awaiting"}
  <2> DEFINE f == [n \in Nodes |-> IF r.nodes[n].st = "interrupted"
                                   THEN AbsentNode ELSE r.nodes[n]]
  <2>1. f \in [Nodes -> NodeStates]
    BY NodeType, AbsentType
  <2>2. RunReopened(r) = [status |-> "running", reason |-> "none", nodes |-> f]
    BY <1>2 DEF RunReopened
  <2>3. \A n \in Nodes : f[n] \in {r.nodes[n], AbsentNode}
    OBVIOUS
  <2> HIDE DEF f
  <2> QED
    BY <2>1, <2>2, <2>3 DEF Runs, RunStatuses
<1> QED
  BY <1>1, <1>2 DEF RunReopened

\* finalize changes neither a node's status nor its rows, and makes the latest
\* row its iteration.
LEMMA ViewKeeps ==
  ASSUME NEW r \in Runs, NEW n \in Nodes
  PROVE  /\ View(r).nodes[n].st = r.nodes[n].st
         /\ View(r).nodes[n].row = r.nodes[n].row
         /\ View(r).nodes[n].iter = IF Rows(r, n) = {} THEN r.nodes[n].iter
                                    ELSE LatestRow(r, n)
         /\ View(r).nodes[n].iter \in 0..MaxIter
<1>1. r.nodes[n] \in NodeStates
  BY NodeType
<1>2. View(r).nodes[n] = ViewNode(r, n)
  BY DEF View
<1>3. Rows(r, n) # {} => LatestRow(r, n) \in 0..MaxIter
  BY LatestRowIsMax, IterType
<1> QED
  BY <1>1, <1>2, <1>3 DEF ViewNode, NodeStates
=============================================================================
