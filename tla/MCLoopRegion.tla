---------------------------- MODULE MCLoopRegion ----------------------------
(***************************************************************************)
(* A small instance of LoopRegion, and its liveness.                       *)
(***************************************************************************)
EXTENDS LoopRegion

CONSTANTS s, o, a, b

\* A planner, an optional stage, the builder and the reviewer of a region.
MCWiring ==
  <<<<s, o>>, <<s, a>>, <<o, a>>, <<a, b>>, <<b, a>>, <<b, End>>>>

\* The planner may ask for the optional stage, the reviewer goes back or on.
MCVerdicts ==
  [n \in Nodes |->
     IF <<n, o>> \in Edges THEN {{}, {<<n, o>>}}
     ELSE IF n = b THEN {{<<b, a>>}, {<<b, End>>}}
     ELSE {{}}]

MCCommands == {EndRegion, SetCap(3), SetBudget(2), ForceRoute(End)}

\* The theorems about whole laps and whole runs are about this instance too.
ASSUME ShapeAssumption == EndsRun(<<a, b>>)

Parked == View(log).status = "awaiting"

(***************************************************************************)
(* Liveness                                                                *)
(***************************************************************************)
\* Raising the cap of an exhausted region starts its next lap, unless its
\* budget is spent.
RaisedCapResumes ==
  (Parked /\ code = "region_exhausted" /\ loop.iter < cap)
    ~> (loop.iter = cap \/ Ended \/ OverBudget)

\* Every run ends or is parked in the end.
EveryRunEnds == <>[](IsTerminal(log.status) \/ Parked)
=============================================================================
