--------------------------- MODULE MCNodeLifecycle ---------------------------
(***************************************************************************)
(* Small instances of NodeLifecycle.                                       *)
(***************************************************************************)
EXTENDS NodeLifecycle

CONSTANTS a, b

\* Retrying `a' invalidates every other node, retrying another one nothing.
MCDownstream == [n \in Nodes |-> IF n = a THEN Nodes \ {a} ELSE {}]
=============================================================================
