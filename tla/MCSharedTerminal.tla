--------------------------- MODULE MCSharedTerminal ---------------------------
(***************************************************************************)
(* A small instance of SharedTerminal.                                     *)
(***************************************************************************)
EXTENDS SharedTerminal

CONSTANTS p, q, r

\* Three browsers; or two tabs of one browser and one of another.
MCAssignments == {<<p, q, r>>, <<p, q, p>>}

=============================================================================
