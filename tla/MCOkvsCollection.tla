-------------------------- MODULE MCOkvsCollection --------------------------
(***************************************************************************)
(* Small instances of OkvsCollection: the neighbor list of x is a sequence *)
(* and cannot be written in a cfg.                                         *)
(***************************************************************************)
EXTENDS OkvsCollection

CONSTANTS n1, n2, n3, n4

FourNeighbors  == <<n1, n2, n3, n4>>
NoNeighbor     == <<>>
=============================================================================
