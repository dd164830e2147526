--------------------------- MODULE MCRunTreeHistory ---------------------------
(***************************************************************************)
(* Small instances of RunTreeHistory.                                      *)
(***************************************************************************)
EXTENDS MCRunTree, RunTreeHistory
=============================================================================
