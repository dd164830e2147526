--------------------------- MODULE TransitionGuard ---------------------------
(***************************************************************************)
(* transition_guard.rs: the verdict every node-lifecycle event gets before *)
(* it is appended, computed on the finalized projection `v'.  "noop" is    *)
(* answered with success and appends nothing, "reject" is an error.        *)
(*                                                                         *)
(* An open collection governs its member nodes: their laps 1..total_items  *)
(* may be live side by side.  LapNodes are the nodes under an open          *)
(* collection, whose total is taken to be MaxIter.                         *)
(***************************************************************************)
EXTENDS RunLog

CONSTANT LapNodes

ASSUME GuardAssumption == LapNodes \subseteq Nodes

RunAcceptsLifecycle(v) == v.status \in {"running", "awaiting"}

IsOpenCollectionLap(n, i) == n \in LapNodes /\ i \in Iters

LiveRows(v, n) == {i \in Iters : HoldsSession(v.nodes[n].row[i])}

\* live_iteration, as a set of at most one iteration.
LiveIteration(v, n) ==
  IF v.nodes[n].st = "waiting" THEN {v.nodes[n].iter}
  ELSE {i \in LiveRows(v, n) : \A j \in LiveRows(v, n) : j <= i}

AnotherLive(v, n, i) ==
  /\ \E j \in LiveIteration(v, n) : j # i
  /\ ~IsOpenCollectionLap(n, i)

\* Mutated forms of ValidateStart, each without one of its three tests.
ValidateStartAnyRun(v, n, i) ==
  IF AnotherLive(v, n, i) \/ SettledComplete(v.nodes[n].row[i])
  THEN "reject" ELSE "allow"

ValidateStartBesideLive(v, n, i) ==
  IF ~RunAcceptsLifecycle(v) \/ SettledComplete(v.nodes[n].row[i])
  THEN "reject" ELSE "allow"

ValidateStartSettled(v, n, i) ==
  IF ~RunAcceptsLifecycle(v) \/ AnotherLive(v, n, i) THEN "reject" ELSE "allow"

ValidateStart(v, n, i) ==
  IF \/ ~RunAcceptsLifecycle(v)
     \/ AnotherLive(v, n, i)
     \/ SettledComplete(v.nodes[n].row[i])
  THEN "reject" ELSE "allow"

ValidateCompletion(v, n, i, skip) ==
  LET row == v.nodes[n].row[i]
  IN  IF ~RunAcceptsLifecycle(v) THEN "reject"
      ELSE IF SettledComplete(row) THEN "noop"
      ELSE IF \/ row \in {"running", "awaiting", "failed"}
              \/ row = "none" /\ skip
      THEN "allow" ELSE "reject"

ValidateFail(v, n, i) ==
  IF v.nodes[n].row[i] \in {"none", "completed", "skipped", "failed", "stopped"}
  THEN "noop" ELSE "allow"

ValidateInterrupt(v, n, i) ==
  LET row == v.nodes[n].row[i]
  IN  IF \/ row \in RowStatuses \ {"running", "awaiting"}
         \/ row = "none" /\ v.nodes[n].st = "interrupted"
      THEN "noop" ELSE "allow"

\* spawn_superfluous: the scheduler drops a spawn it has already made.
SpawnSuperfluous(v, n, i) ==
  \/ /\ LiveIteration(v, n) # {}
     /\ ~(i \notin LiveIteration(v, n) /\ IsOpenCollectionLap(n, i))
  \/ SettledComplete(v.nodes[n].row[i])
=============================================================================
