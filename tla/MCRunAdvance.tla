---------------------------- MODULE MCRunAdvance ----------------------------
(***************************************************************************)
(* A small pipeline for RunAdvance.                                        *)
(***************************************************************************)
EXTENDS RunAdvance

CONSTANTS c, h, p, g

\* A classifier routes to either of two branches, or to both, or to neither;
\* the branches converge; the classifier may also halt the run.
ClassifierEdges == {<<c, h>>, <<c, p>>, <<c, End>>, <<h, g>>, <<p, g>>, <<g, End>>}
ClassifierGuards == {<<c, h>>, <<c, p>>, <<c, End>>}
ClassifierHalts == {<<c, End>>}

\* Each branch requires what the classifier produces.
ClassifierInputs == {<<c, h>>, <<c, p>>}

\* The instance is a pipeline every theorem about RunAdvance speaks of.
ASSUME ClassifierAssumption ==
  Redriven /\ Shallow /\ Uniform /\ SoleInputs /\ OneExit /\ AllLead
=============================================================================
