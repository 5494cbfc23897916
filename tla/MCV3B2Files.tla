---------------------------- MODULE MCV3B2Files ----------------------------
(***************************************************************************)
(* V3B2Files for TLC: controllers are alike.                               *)
(***************************************************************************)
EXTENDS V3B2Files, TLC

Symmetry == Permutations(Controllers)
=============================================================================
