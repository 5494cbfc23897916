--------------------------- MODULE MCV3B2Journal ---------------------------
(***************************************************************************)
(* V3B2Journal for TLC: journals with committed inputs, the kind every     *)
(* lifecycle uses, and without, which also accept bare terminals.  Two     *)
(* tracks give every rule about an earlier or a later track something to   *)
(* bite on.                                                                *)
(***************************************************************************)
EXTENDS V3B2RecoveryPlan
=============================================================================
