----------------------------- MODULE MCAdmission -----------------------------
(***************************************************************************)
(* Small instances of Admission, and its properties.                       *)
(***************************************************************************)
EXTENDS Admission

CONSTANTS a, b, c, r1, r2

\* a and b are nodes of one run, c of another.
MCRunOf == [n \in Nodes |-> IF n = c /\ r2 \in Runs THEN r2 ELSE r1]

\* Every node that is asked for comes out of it started, throttled or ended:
\* no interleaving of spawners leaves one behind the lock for ever.
LaunchConcludes == \A n \in Nodes : <>(node[n] # "ready" \/ run[RunOf[n]] # "open")
=============================================================================
