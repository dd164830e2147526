------------------------------ MODULE SlotPool ------------------------------
(***************************************************************************)
(* What admission control promises, with no word on how: at most Cap node  *)
(* runs hold a slot; slots are taken one at a time and given back in any   *)
(* number (the end of a run gives back all of its own).                    *)
(***************************************************************************)
EXTENDS Naturals, FiniteSets

CONSTANTS Nodes, Cap

VARIABLE holders

Init == holders = {}

Acquire(n) ==
  /\ n \notin holders
  /\ Cardinality(holders) < Cap
  /\ holders' = holders \cup {n}

GiveBack == holders' \in SUBSET holders

Next == GiveBack \/ \E n \in Nodes : Acquire(n)

Spec == Init /\ [][Next]_holders
=============================================================================
