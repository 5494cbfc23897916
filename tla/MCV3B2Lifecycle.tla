-------------------------- MODULE MCV3B2Lifecycle --------------------------
(***************************************************************************)
(* Model checking of the V3B-2 controller over its journal.  The journal   *)
(* commits its expected inputs, as every prepared lifecycle does.          *)
(***************************************************************************)
EXTENDS V3B2Lifecycle

EveryProgram == {"up", "nominal", "request-free", "down", "recover"}
NominalAndRecover == {"nominal", "recover"}
=============================================================================
