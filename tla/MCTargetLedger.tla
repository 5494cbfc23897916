--------------------------- MODULE MCTargetLedger ---------------------------
(***************************************************************************)
(* TargetLedger for TLC: threads and request IDs as model values, more     *)
(* threads than IDs, more IDs than records.                                *)
(***************************************************************************)
EXTENDS TargetLedger, TLC

\* Threads are alike, and so are request IDs.
Symmetry == Permutations(Calls) \cup Permutations(Ids)
=============================================================================
