---------------------------- MODULE V3B2Journal ----------------------------
(***************************************************************************)
(* The private write-ahead journal of one V3B-2 lifecycle                  *)
(* (src/kil/v3b2_journal.py): the state its event history amounts to, the  *)
(* rules `_validate_history` applies to the next event, and the operations *)
(* that replace the file.                                                  *)
(*                                                                         *)
(* `_validate_history` reads the whole history on every write.  All it     *)
(* derives from it is, for every (family, key), the stage that pair has    *)
(* reached; `stage` is that table.  A write keeps the earlier events, and  *)
(* the latch is only ever set to the next sequence number, so accepting a  *)
(* history event by event is accepting it whole, and the latch is a        *)
(* Boolean: once set, every later event has a sequence at or above it.     *)
(*                                                                         *)
(* Abstracted: digests, paths, UIDs (a namespace has one driver Pod), the  *)
(* byte and length bounds no history of these families reaches.  A track   *)
(* and its namespace (TRACK_NAMESPACES) are one number; 1..NumTracks is    *)
(* the fixed order.                                                        *)
(***************************************************************************)
EXTENDS Naturals

CONSTANT NumTracks  \* number of tracks; the code has three

ASSUME NumTracksAssumption == NumTracks \in Nat \ {0}

VARIABLES
  committed,  \* the journal was created with expected_inputs_sha256
  mode,       \* lifecycle_mode
  stage,      \* stage[op]: how far the intent/terminal pair op has come
  latched,    \* teardown_from_sequence is set
  refused,    \* profile_start_refused_sequence is set
  comparison  \* foreign_comparison_unchanged: "none", "same" or "changed"

vars == <<committed, mode, stage, latched, refused, comparison>>

----------------------------------------------------------------------------
Tracks == 1..NumTracks
Modes == {"nominal", "request-free"}
Stages == {"none", "pending", "complete", "failed", "abandoned"}

SetupFamilies ==
  {"profile_start", "cluster_create", "image_import", "image_load",
   "calico_apply", "application_apply", "readiness"}
\* The single-key families a teardown-only history still admits.
CleanupFamilies ==
  {"envoy_quiesce", "evidence_freeze", "cluster_delete",
   "cluster_absence_proof", "profile_stop", "profile_delete",
   "profile_absence_proof", "foreign_snapshot_comparison"}
SingleFamilies == SetupFamilies \cup CleanupFamilies \cup {"publication"}
TrackFamilies == {"driver_start", "driver_cancel", "request"}
Families == SingleFamilies \cup TrackFamilies

FailureFamilies ==
  {"profile_start", "profile_stop", "profile_delete", "cluster_create",
   "cluster_delete", "image_import", "image_load", "calico_apply",
   "application_apply", "envoy_quiesce", "driver_start", "driver_cancel"}

\* An operation is a family with its key: the track, or 0 for the empty key.
Ops == (SingleFamilies \X {0}) \cup (TrackFamilies \X Tracks)
Op(f) == <<f, 0>>

Stage(f) == stage[Op(f)]
Done(f) == Stage(f) = "complete"
Start(t) == stage[<<"driver_start", t>>]
Cancel(t) == stage[<<"driver_cancel", t>>]
Request(t) == stage[<<"request", t>>]

\* driver_starts: completed starts, and the Pods a cancellation adopted.
Started == {t \in Tracks : Start(t) = "complete" \/ Cancel(t) # "none"}
Cancelled == {t \in Tracks : Cancel(t) \in {"complete", "abandoned"}}
Claimed == {t \in Tracks : Request(t) # "none"}
Before(t) == 1..(t - 1)

NoEvents == \A op \in Ops : stage[op] = "none"
Active(op) == op[1] # "request" /\ stage[op] = "pending"
Idle == \A op \in Ops : ~Active(op)
SomeAbandoned == \E op \in Ops : stage[op] = "abandoned"
SomeFailed == \E op \in Ops : stage[op] = "failed"
TeardownOnly == latched \/ SomeFailed \/ SomeAbandoned
RequestPending == \E t \in Tracks : Request(t) = "pending"
RequestAbandoned == RequestPending /\ Done("evidence_freeze")
ClusterOwned == Stage("cluster_create") \in {"complete", "abandoned"}

----------------------------------------------------------------------------
(***************************************************************************)
(* The order of the families, one predicate for each part of the chain of  *)
(* family tests in `_validate_history`.                                    *)
(***************************************************************************)
SetupOrder(f) ==
  /\ f = "profile_start" => NoEvents
  /\ f = "cluster_create" => Done("profile_start")
  /\ f = "image_import" => Done("cluster_create")
  /\ f = "image_load" => Done("cluster_create") /\ Done("image_import")
  /\ f = "calico_apply" => Done("cluster_create") /\ Done("image_load")
  /\ f = "application_apply" => Done("calico_apply")
  /\ f = "readiness" => Done("application_apply")

BeforeFreeze == Done("readiness") /\ ~Done("evidence_freeze")

DriverStartOrder(t) ==
  /\ BeforeFreeze
  /\ Started = Before(t)
  /\ mode = "nominal" /\ t > 1 => Request(t - 1) = "complete"

\* Mutant: a request needs no started driver.
RequestOrder_NoDriver(t) ==
  mode = "nominal" /\ BeforeFreeze /\ Claimed = Before(t)

RequestOrder(t) ==
  /\ mode = "nominal"
  /\ BeforeFreeze
  /\ Claimed = Before(t)
  /\ t \in Started
  /\ t > 1 => Request(t - 1) = "complete"

\* Mutant: cancellation does not wait for the freeze.
DriverCancelOrder_Early(t) == t \in Started \ Cancelled

\* A teardown-only history adopts the Pod bound by the readiness proof.
DriverCancelOrder(t) ==
  /\ Done("evidence_freeze") \/ mode = "request-free"
  /\ t \in Started \/ (TeardownOnly /\ Done("readiness"))
  /\ t \notin Cancelled
  /\ \A u \in Before(t) : u \in Started => u \in Cancelled

QuiesceOrder ==
  /\ BeforeFreeze
  /\ mode = "request-free" =>
       /\ TeardownOnly \/ Started = Tracks
       /\ Started = Cancelled

FreezeOrder ==
  /\ Done("readiness")
  /\ mode = "request-free" /\ Started # {} =>
       /\ Started = Cancelled
       /\ Stage("envoy_quiesce") \in {"complete", "abandoned"}

TeardownOrder(f) ==
  /\ f = "cluster_delete" =>
       /\ ClusterOwned
       /\ Started = Cancelled
       /\ Done("readiness") => Done("evidence_freeze") \/ SomeAbandoned
  /\ f = "cluster_absence_proof" => Done("cluster_delete")
  /\ f = "profile_stop" =>
       /\ Stage("profile_start") \in {"complete", "abandoned"}
       /\ ClusterOwned => Done("cluster_absence_proof")
  /\ f = "profile_delete" => Done("profile_stop")
  /\ f = "profile_absence_proof" =>
       Done("profile_delete") \/ Stage("profile_start") = "failed"
  /\ f = "foreign_snapshot_comparison" => Done("profile_absence_proof")

PublicationOrder ==
  /\ ~TeardownOnly
  /\ Done("foreign_snapshot_comparison")
  /\ comparison = "same"

----------------------------------------------------------------------------
(***************************************************************************)
(* What `_validate_history` admits as the next event.  A refused start     *)
(* admits nothing: `_validate_journal` wants exactly one event beside it.  *)
(***************************************************************************)
RequestAllows(f) ==
  /\ RequestPending /\ ~RequestAbandoned =>
       f \in {"envoy_quiesce", "evidence_freeze"}
  /\ RequestAbandoned =>
       f \in (CleanupFamilies \ {"envoy_quiesce", "evidence_freeze"})
               \cup {"driver_cancel", "publication"}

IntentAdmitted(op) ==
  /\ ~refused
  /\ Idle
  /\ stage[op] = "none"
  /\ TeardownOnly => op[1] \in CleanupFamilies \cup {"driver_cancel"}
  /\ RequestAllows(op[1])
  /\ SetupOrder(op[1])
  /\ TeardownOrder(op[1])
  /\ op[1] = "driver_start" => DriverStartOrder(op[2])
  /\ op[1] = "driver_cancel" => DriverCancelOrder(op[2])
  /\ op[1] = "request" => RequestOrder(op[2])
  /\ op[1] = "envoy_quiesce" => QuiesceOrder
  /\ op[1] = "evidence_freeze" => FreezeOrder
  /\ op[1] = "publication" => PublicationOrder

ResultAdmitted(t) ==
  /\ Request(t) = "pending"
  /\ ~latched
  /\ Idle
  /\ Stage("evidence_freeze") = "none"

TerminalAdmitted(op, s) ==
  /\ ~refused
  /\ op[1] # "request"
  /\ stage[op] = "pending"
  /\ s = "failed" => op[1] \in FailureFamilies
  /\ s = "abandoned" =>
       /\ op[1] # "publication"
       /\ op[1] \in {"profile_start", "cluster_create"} \/ ClusterOwned

\* `decide` claims no completed forward work for a latched journal.
DecisionAdmitted(op, s) ==
  committed /\ latched /\ s = "complete" =>
    op[1] \notin SetupFamilies \cup {"driver_start"}

----------------------------------------------------------------------------
Init ==
  /\ committed \in BOOLEAN
  /\ mode \in Modes
  /\ stage = [op \in Ops |-> "none"]
  /\ latched = FALSE
  /\ refused = FALSE
  /\ comparison = "none"

SelectMode(m) ==
  /\ NoEvents
  /\ mode' = m
  /\ UNCHANGED <<committed, stage, latched, refused, comparison>>

AppendIntent(op) ==
  /\ IntentAdmitted(op)
  /\ stage' = [stage EXCEPT ![op] = "pending"]
  /\ UNCHANGED <<committed, mode, latched, refused, comparison>>

AppendRequestResult(t) ==
  /\ ResultAdmitted(t)
  /\ stage' = [stage EXCEPT ![<<"request", t>>] = "complete"]
  /\ UNCHANGED <<committed, mode, latched, refused, comparison>>

\* The flag a completed foreign comparison leaves behind.
Compared(op, s) ==
  IF op = Op("foreign_snapshot_comparison") /\ s = "complete"
    THEN comparison' \in {"same", "changed"}
    ELSE comparison' = comparison

\* append_event of a terminal: only a journal without committed inputs.
AppendTerminal(op, s) ==
  /\ ~committed
  /\ TerminalAdmitted(op, s)
  /\ stage' = [stage EXCEPT ![op] = s]
  /\ Compared(op, s)
  /\ UNCHANGED <<committed, mode, latched, refused>>

\* append_observed_terminal: any terminal but a completion latches teardown.
AppendObservedTerminal(op, s) ==
  /\ TerminalAdmitted(op, s)
  /\ DecisionAdmitted(op, s)
  /\ stage' = [stage EXCEPT ![op] = s]
  /\ latched' = (latched \/ s # "complete")
  /\ Compared(op, s)
  /\ UNCHANGED <<committed, mode, refused>>

LatchTeardown ==
  /\ latched' = TRUE
  /\ UNCHANGED <<committed, mode, stage, refused, comparison>>

LatchRefusal ==
  /\ Stage("profile_start") = "pending"
  /\ refused' = TRUE
  /\ latched' = TRUE
  /\ UNCHANGED <<committed, mode, stage, comparison>>

Next ==
  \/ \E m \in Modes : SelectMode(m)
  \/ \E op \in Ops : AppendIntent(op)
  \/ \E t \in Tracks : AppendRequestResult(t)
  \/ \E op \in Ops, s \in {"complete", "failed", "abandoned"} :
       AppendTerminal(op, s) \/ AppendObservedTerminal(op, s)
  \/ LatchTeardown
  \/ LatchRefusal

Spec == Init /\ [][Next]_vars

----------------------------------------------------------------------------
\* Type correctness of the journal's state (all of `_validate_journal`).
TypeOK ==
  /\ committed \in BOOLEAN
  /\ mode \in Modes
  /\ stage \in [Ops -> Stages]
  /\ latched \in BOOLEAN
  /\ refused \in BOOLEAN
  /\ comparison \in {"none", "same", "changed"}

\* A request was claimed only in nominal mode, over a started driver, after
\* readiness, and with every earlier track's request already answered: no
\* order of writes, however late a terminal arrives, leaves two requests
\* unanswered or one whose driver was never proved (the request rules of
\* `_validate_history`, lines 1148-1160 and 1186-1195).
RequestChain ==
  \A t \in Claimed :
    /\ mode = "nominal"
    /\ Done("readiness")
    /\ t \in Started
    /\ \A u \in Before(t) : Request(u) = "complete"

\* Once an evidence freeze was intended, or teardown latched, no request is
\* claimed and no late result promoted, whatever else is written afterwards
\* ("terminal after recovery begins", lines 1260-1270).
LateResultsClosed ==
  [][Stage("evidence_freeze") # "none" \/ latched =>
       \A t \in Tracks : Request(t)' = Request(t)]_vars

\* With committed inputs a teardown-only history never again completes a
\* setup stage or a driver start and never claims one, a request or a
\* publication: forward work is over even for the operation that was pending
\* when the latch fell (lines 1140-1147 and decide in v3b2_proofs.py).
ForwardClosed ==
  [][TeardownOnly /\ committed =>
       \A op \in Ops :
         /\ op[1] \in SetupFamilies \cup {"driver_start", "request"} =>
              (stage'[op] = "complete" => stage[op] = "complete")
         /\ op[1] \notin CleanupFamilies \cup {"driver_cancel"} =>
              (stage[op] = "none" => stage'[op] = "none")]_vars

\* With committed inputs a failed or abandoned operation always stands in a
\* latched journal, and a refused start in a journal whose one pair is that
\* pending start: the two ways `_validate_history` and `decide` recognise
\* teardown cannot disagree (lines 1512-1547, 1404-1417).
FailureLatches ==
  /\ committed /\ (SomeFailed \/ SomeAbandoned) => latched
  /\ refused => latched /\ Stage("profile_start") = "pending"

\* Drivers of a nominal lifecycle are cancelled only after the evidence is
\* durably frozen, so no cancellation destroys a source still to be captured
\* ("driver cancellation requires durable evidence freeze", lines 1209-1213).
CancelAfterFreeze ==
  mode = "nominal" =>
    \A t \in Tracks : Cancel(t) # "none" => Done("evidence_freeze")

\* A publication was intended only behind the whole chain profile_start,
\* stop, delete, absence proof and an unchanged foreign comparison, each of
\* them complete, and nothing later weakens that (lines 1239-1251).
PublicationFollowsTeardown ==
  Stage("publication") # "none" =>
    /\ comparison = "same"
    /\ \A f \in {"profile_start", "profile_stop", "profile_delete",
                 "profile_absence_proof", "foreign_snapshot_comparison"} :
         Done(f)

\* Both: what is in a journal was written behind what it rests on, whoever wrote
\* it and in whatever order the terminals came in (`_validate_history`).
HistoryInOrder == RequestChain /\ PublicationFollowsTeardown
=============================================================================
