------------------------------- MODULE RunLog -------------------------------
(***************************************************************************)
(* The projection of one Run: event_log.rs folds the append-only event log *)
(* into a RunState.  A fold is incremental, so the log is modelled by the   *)
(* value the fold has reached (the "raw" run) and every event kind by the  *)
(* operator that maps one raw run to the next.  Readers never see the raw  *)
(* run: `project' calls `finalize' last, and View is that call.  The two   *)
(* differ (a Run parked by an interrupted node is raw "running"), and some  *)
(* event handlers test the raw value.                                      *)
(*                                                                         *)
(* Data abstracted: timestamps, costs, skills, artefact names.  A reason   *)
(* is "none", "incident" (a machine code, RunInterrupted or an interrupted *)
(* node) or "message" (the text of a declared wait).  NodeStale is a       *)
(* replay-only kind with no emitter and is left out.                       *)
(***************************************************************************)
EXTENDS Naturals, FiniteSets

CONSTANTS
  Nodes,        \* node ids of the pipeline
  MaxIter,      \* bound on the iterations of one node
  Interactive   \* the nodes whose NodeStarted carries `interactive'

Iters == 1..MaxIter

ASSUME RunLogAssumption ==
  /\ MaxIter \in Nat \ {0}
  /\ Interactive \subseteq Nodes

RunStatuses == {"running", "awaiting", "paused", "completed", "skipped",
                "failed", "halted", "archived"}
IsLive(s) == s \in {"running", "awaiting", "paused"}
IsTerminal(s) == s \in {"completed", "skipped", "failed", "halted", "archived"}

RowStatuses == {"running", "awaiting", "completed", "skipped", "failed",
                "interrupted", "stopped"}
NodeStatuses == RowStatuses \cup {"waiting"}
HoldsSession(s) == s \in {"running", "awaiting"}
CanProgress(s) == s \in {"running", "awaiting", "waiting"}
SettledComplete(s) == s \in {"completed", "skipped"}

\* A node that is not in the projection's map is "absent"; an iteration with
\* no row in the node's history is "none".  `said' is awaiting.message.
NodeStates == [st : NodeStatuses \cup {"absent"}, iter : 0..MaxIter,
               row : [Iters -> RowStatuses \cup {"none"}],
               released : SUBSET Iters, said : BOOLEAN]
AbsentNode == [st |-> "absent", iter |-> 0, row |-> [i \in Iters |-> "none"],
               released |-> {}, said |-> FALSE]

Runs == [status : RunStatuses, reason : {"none", "incident", "message"},
         nodes : [Nodes -> NodeStates]]
FreshRun == [status |-> "running", reason |-> "none",
             nodes |-> [n \in Nodes |-> AbsentNode]]

Present(r, n) == r.nodes[n].st # "absent"
Rows(r, n) == {i \in Iters : r.nodes[n].row[i] # "none"}
SetNode(r, n, node) == [r EXCEPT !.nodes[n] = node]
\* `iterations.iter_mut().find(..)': an iteration without a row is left alone.
SetRow(node, i, s) ==
  [node EXCEPT !.row[i] = IF @ = "none" THEN "none" ELSE s]

(***************************************************************************)
(* Node events (apply_node_event)                                          *)
(***************************************************************************)
NodeWaiting(r, n, i) ==
  SetNode(r, n, [r.nodes[n] EXCEPT !.st = "waiting", !.iter = i])

NodeStarted(r, n, i) ==
  SetNode(r, n, [r.nodes[n] EXCEPT !.st = "running", !.iter = i,
                                   !.row[i] = "running",
                                   !.released = @ \ {i}, !.said = FALSE])

NodeCompletionReleased(r, n, i) ==
  LET node == r.nodes[n]
      current == i = node.iter
  IN  IF ~Present(r, n) THEN r
      ELSE SetNode(r, n,
             [SetRow(node, i, "running") EXCEPT
                !.st = IF current THEN "running" ELSE @,
                !.said = IF current THEN FALSE ELSE @,
                !.released = IF node.row[i] = "none" THEN @ ELSE @ \cup {i}])

\* Whatever the iteration, the node's own status becomes "completed".
NodeCompleted(r, n, i) ==
  IF ~Present(r, n) THEN r
  ELSE SetNode(r, n, [SetRow(r.nodes[n], i, "completed") EXCEPT !.st = "completed"])

\* A completion whose payload says `skipped': a node that never started is
\* inserted as Skipped, any other one is completed.
NodeSkipped(r, n, i) ==
  IF Present(r, n) THEN NodeCompleted(r, n, i)
  ELSE SetNode(r, n, [AbsentNode EXCEPT !.st = "skipped", !.iter = i,
                                        !.row[i] = "skipped"])

NodeAwaitingUser(r, n, i, said) ==
  IF ~Present(r, n) THEN r
  ELSE SetNode(r, n, [SetRow(r.nodes[n], i, "awaiting") EXCEPT
                        !.st = "awaiting", !.said = said])

NodeResumed(r, n, i) ==
  LET node == r.nodes[n]
      lifts == i = node.iter /\ node.st = "awaiting"
  IN  IF ~Present(r, n) THEN r
      ELSE SetNode(r, n,
             [node EXCEPT !.row[i] = IF @ = "awaiting" THEN "running" ELSE @,
                          !.st = IF lifts THEN "running" ELSE @,
                          !.said = IF lifts THEN FALSE ELSE @])

\* Mutated form: a failure of the current iteration counted as an older one.
NodeFailedStrictly(r, n, i) ==
  IF ~Present(r, n) THEN r
  ELSE SetNode(r, n, [SetRow(r.nodes[n], i, "failed") EXCEPT
                        !.st = IF i > r.nodes[n].iter THEN "failed" ELSE @])

\* Mutated form: the iteration row is forgotten.
NodeFailedWithoutRow(r, n, i) ==
  IF ~Present(r, n) \/ i < r.nodes[n].iter THEN r
  ELSE SetNode(r, n, [r.nodes[n] EXCEPT !.st = "failed"])

NodeFailed(r, n, i) ==
  IF ~Present(r, n) THEN r
  ELSE SetNode(r, n, [SetRow(r.nodes[n], i, "failed") EXCEPT
                        !.st = IF i >= r.nodes[n].iter THEN "failed" ELSE @])

\* The only event besides NodeStarted and NodeWaiting that can insert a node.
NodeInterrupted(r, n, i) ==
  LET node == r.nodes[n]
      latest == i >= node.iter
  IN  SetNode(r, n, [SetRow(node, i, "interrupted") EXCEPT
                       !.st = IF latest THEN "interrupted" ELSE @,
                       !.iter = IF latest THEN i ELSE @])

NodeStopped(r, n, i) ==
  IF ~Present(r, n) THEN r
  ELSE SetNode(r, n, [SetRow(r.nodes[n], i, "stopped") EXCEPT !.st = "stopped"])

(***************************************************************************)
(* Run events (apply_run_event) and the command events (apply_command_event)*)
(***************************************************************************)
RunCompleted(r) == [r EXCEPT !.status = "completed"]
RunFailed(r) == [r EXCEPT !.status = "failed"]
RunSkipped(r) == [r EXCEPT !.status = "skipped"]
RunHalted(r) == [r EXCEPT !.status = "halted"]
RunArchived(r) == [r EXCEPT !.status = "archived"]

RunPaused(r) ==
  [r EXCEPT !.status = IF @ \in {"running", "awaiting"} THEN "paused" ELSE @]

RunResumed(r) ==
  [r EXCEPT !.status = IF @ = "paused" THEN "running" ELSE @, !.reason = "none"]

RunInterrupted(r) ==
  IF IsLive(r.status)
  THEN [r EXCEPT !.status = "awaiting", !.reason = "incident"]
  ELSE r

\* `reopen_run' and `resume_run', on the RAW status: every interrupted node
\* leaves the projection with all its iterations.
RunReopened(r) ==
  IF r.status \in {"halted", "failed", "completed", "skipped", "awaiting"}
  THEN [status |-> "running", reason |-> "none",
        nodes |-> [n \in Nodes |-> IF r.nodes[n].st = "interrupted"
                                   THEN AbsentNode ELSE r.nodes[n]]]
  ELSE r

(***************************************************************************)
(* finalize: what every reader of the log sees.                            *)
(***************************************************************************)
LatestRow(r, n) == CHOOSE i \in Rows(r, n) : \A j \in Rows(r, n) : j <= i

ViewNode(r, n) ==
  [r.nodes[n] EXCEPT !.iter = IF Rows(r, n) = {} THEN @ ELSE LatestRow(r, n),
                     !.said = @ /\ r.nodes[n].st = "awaiting"]

SomeNode(r, statuses) == \E n \in Nodes : r.nodes[n].st \in statuses
SomeMessage(r) == \E n \in Nodes : r.nodes[n].st = "awaiting" /\ r.nodes[n].said

ViewStatus(r) ==
  IF r.status = "running" /\ SomeNode(r, {"awaiting", "interrupted"})
  THEN "awaiting" ELSE r.status

ViewReason(r) ==
  IF ViewStatus(r) # "awaiting" \/ r.reason # "none" THEN r.reason
  ELSE IF SomeNode(r, {"interrupted"}) THEN "incident"
  ELSE IF SomeMessage(r) THEN "message"
  ELSE "none"

View(r) == [status |-> ViewStatus(r), reason |-> ViewReason(r),
            nodes |-> [n \in Nodes |-> ViewNode(r, n)]]

\* RunState::is_declared_wait: parked by nothing but a node's own message.
IsDeclaredWait(v) ==
  v.status = "awaiting" /\ v.reason # "incident" /\ SomeMessage(v)
=============================================================================
