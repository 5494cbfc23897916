-------------------------- MODULE V3B2RecoveryPlan --------------------------
(***************************************************************************)
(* `recovery_plan` of src/kil/v3b2_journal.py: what a journal and one      *)
(* read-only observation of the host let a recovering process do next.     *)
(* The plan is a function of the journal's state; it never writes.         *)
(*                                                                         *)
(* Of a plan's commands only the mutating one is kept (`repeat`): the      *)
(* others inspect, list or read logs.  `requests_to_send` is empty in      *)
(* every plan.  The identities an observation is compared with             *)
(* (endpoint, profile, cluster, node, Pod UIDs) are one bit: all are the   *)
(* owned ones, or some is not.                                             *)
(***************************************************************************)
EXTENDS V3B2Journal

None == <<"none", 0>>

\* A RecoveryObservation, and the absence of one.
Observations ==
  [seen : {TRUE}, owned : BOOLEAN, profile : BOOLEAN, cluster : BOOLEAN,
   pods : SUBSET Tracks]
Unseen == [seen |-> FALSE, owned |-> TRUE, profile |-> FALSE,
           cluster |-> FALSE, pods |-> {}]

\* _completed_driver_identities: an adopted Pod was never started, and only
\* a completed cancellation takes a driver off the list.
CompletedDrivers ==
  {t \in Tracks : Start(t) = "complete" /\ Cancel(t) # "complete"}

\* _validate_observation.
ObservationStands(o) ==
  /\ o.owned
  /\ o.cluster => o.profile
  /\ o.pods # {} => o.cluster
  /\ o.pods \subseteq CompletedDrivers

\* _pending_events without the requests: at most one (Idle guards intents).
PendingEvents == {op \in Ops : Active(op)}

\* The destructive operations a plan may run again, while the observation
\* still shows what they remove.
Repeatable(op, o) ==
  /\ o.seen
  /\ \/ op[1] = "driver_cancel" /\ op[2] \in o.pods
     \/ op = Op("cluster_delete") /\ o.cluster
     \/ op \in {Op("profile_stop"), Op("profile_delete")} /\ o.profile

Owing(f, g) == Done(f) /\ ~Done(g)
FirstOf(S) == CHOOSE t \in S : \A u \in S : t <= u

(***************************************************************************)
(* The order of the early returns of `recovery_plan`, for a journal        *)
(* without a pending operation: the next intent it proposes, or None.      *)
(***************************************************************************)
Chain ==
  << <<"cluster_create", "cluster_delete">>,
     <<"cluster_delete", "cluster_absence_proof">>,
     <<"profile_start", "profile_stop">>,
     <<"profile_stop", "profile_delete">>,
     <<"profile_delete", "profile_absence_proof">> >>

OwingSteps == {i \in 1..5 : Owing(Chain[i][1], Chain[i][2])}

\* Mutant: only a claimed request asks for the freeze.
FreezeFirst_OnlyClaimed == Claimed # {} /\ ~Done("evidence_freeze")

FreezeFirst ==
  (Claimed # {} \/ Done("readiness")) /\ ~Done("evidence_freeze")

Proposed ==
  IF FreezeFirst THEN Op("evidence_freeze")
  ELSE IF Done("evidence_freeze") /\ CompletedDrivers # {}
    THEN <<"driver_cancel", FirstOf(CompletedDrivers)>>
  ELSE IF OwingSteps # {} THEN Op(Chain[FirstOf(OwingSteps)][2])
  ELSE None

\* publication_allowed of the last return.
PublicationAllowed ==
  /\ PendingEvents = {}
  /\ Proposed = None
  /\ ~Owing("profile_absence_proof", "foreign_snapshot_comparison")
  /\ comparison = "same"
  /\ Done("cluster_absence_proof")
  /\ Done("profile_absence_proof")
  /\ Done("publication")

\* A refused observation and two pending operations are left to an operator.
RecoveryPlan(o) ==
  IF o.seen /\ ~ObservationStands(o)
    THEN [manual |-> TRUE, repeat |-> None, intent |-> None, publish |-> FALSE]
  ELSE
    [manual |-> FALSE,
     repeat |-> IF \E op \in PendingEvents : Repeatable(op, o)
                  THEN CHOOSE op \in PendingEvents : Repeatable(op, o) ELSE None,
     intent |-> IF PendingEvents = {} THEN Proposed ELSE None,
     publish |-> PublicationAllowed]

----------------------------------------------------------------------------
\* Histories in which every operation that ended was completed.
Unbroken == ~SomeFailed /\ ~SomeAbandoned /\ ~refused

\* The waiting drivers of a request-free lifecycle are cancelled and Envoy is
\* quiesced: the order its freeze needs, which the plan does not establish.
FreezeReady ==
  mode = "request-free" /\ Started # {} =>
    Started = Cancelled /\ Done("envoy_quiesce")

\* A recovering process that follows the plan is neither refused by the
\* journal it read nor left without a step while something is owned: whatever
\* the history of an unbroken lifecycle, and wherever the process before it
\* stopped or latched, the intent the plan proposes is one `_validate_history`
\* admits, and there is one until the profile is proved absent.  It fails for
\* a failed or abandoned operation, which the plan proposes again, and for a
\* request-free lifecycle with waiting drivers, whose freeze it proposes too
\* early (`recovery_plan`, lines 2116-2175, against lines 1148-1251).
PlanLeadsOn ==
  LET op == RecoveryPlan(Unseen).intent IN
    Unbroken =>
      /\ FreezeReady /\ op # None => IntentAdmitted(op)
      /\ PendingEvents = {} /\ Done("profile_start") =>
           op # None \/ Done("profile_absence_proof")

\* Whatever the observation, a plan runs a destructive command again only in
\* its order: a cancellation behind the frozen evidence of a nominal
\* lifecycle, the cluster's deletion behind every driver's cancellation, the
\* stop of the profile behind the cluster's proved absence (lines 2090-2113).
\* Of the profile's deletion it is not true: an unlatched journal admits the
\* creation of a cluster between the stop and the deletion (line 1163).
PlanKeepsOrder ==
  \A o \in Observations :
    LET op == RecoveryPlan(o).repeat IN
      /\ op[1] = "driver_cancel" /\ mode = "nominal" => Done("evidence_freeze")
      /\ op = Op("cluster_delete") => Started = Cancelled
      /\ op = Op("profile_stop") =>
           Done("cluster_absence_proof") \/ ~ClusterOwned
=============================================================================
