--------------------------- MODULE MCRequestPath ---------------------------
(***************************************************************************)
(* RequestSession for TLC: the driver's call and others beside it.            *)
(***************************************************************************)
EXTENDS RequestSession
=============================================================================
