--------------------------- MODULE MCV3B1Evidence ---------------------------
(***************************************************************************)
(* Model checking of the contents of V3B-1 evidence: track 2 is the one    *)
(* the closed result denies.                                               *)
(***************************************************************************)
EXTENDS V3B1Evidence

MCDenied == {2}
=============================================================================
