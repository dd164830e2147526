------------------------------ MODULE MCTriggers ------------------------------
(***************************************************************************)
(* A small instance of Triggers.                                           *)
(***************************************************************************)
EXTENDS Triggers

CONSTANTS a, b, often, p1

\* a has a guard, "Run now" and runs that are brought back; b is edited.
MCSlotsOf == [c \in Crons |-> Slots]
MCCronOf == [t \in Triggers |-> often]
MCPipelineOf == [t \in Triggers |-> p1]
MCCeilingOf == [t \in Triggers |-> 1]
=============================================================================
