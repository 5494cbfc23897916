-------------------------- MODULE MCV3B1Lifecycle --------------------------
(***************************************************************************)
(* Model checking of a V3B-1 lifecycle.                                    *)
(***************************************************************************)
EXTENDS V3B1Lifecycle
=============================================================================
