------------------------------- MODULE MCRunTree -------------------------------
(***************************************************************************)
(* Small instances of RunTree, and its liveness.                           *)
(***************************************************************************)
EXTENDS RunTree

CONSTANTS root, a, b, worker, nobody

(***************************************************************************)
(* Liveness                                                                *)
(***************************************************************************)
Parked(r) == r \in here /\ RunAcceptsLifecycle(V(r)) /\ State(r) = "awaiting"
Unsettled(c) == V(c).status \in {"running", "awaiting", "paused", "failed"}
Held(r) == \E c \in Children(r) : Unsettled(c)

\* A node parked behind its children, none of which is alive or failed any
\* more, does not stay parked: its watcher completes it (ADR-0064).
ParkedIsFreed == \A r \in Family : []<>~(Parked(r) /\ ~Held(r))
=============================================================================
