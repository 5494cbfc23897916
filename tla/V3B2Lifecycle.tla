--------------------------- MODULE V3B2Lifecycle ---------------------------
(***************************************************************************)
(* The V3B-2 controller (src/kil/v3b2_controller.py) driving the host      *)
(* through the journal, with the decisions of src/kil/v3b2_proofs.py.      *)
(*                                                                         *)
(* One controller process runs at a time.  It walks a script; every owned  *)
(* operation is an intent written ahead, a command (for some none), a      *)
(* fresh observation of the host and a terminal the observation decides.   *)
(* The process may die between any two of these; another may be started,   *)
(* and sees only the journal, the private files and the host.              *)
(*                                                                         *)
(* `faults` counts what the environment does wrong: a command that fails   *)
(* or only partly takes effect, an observation that cannot be made, a      *)
(* check that raises, a foreign profile that changes, a process that dies. *)
(* MaxFaults bounds it.                                                    *)
(*                                                                         *)
(* Abstracted: identities and bindings (the owned profile, cluster and     *)
(* Pods are never replaced by others of the same name), the contents of    *)
(* the evidence except the requests it has to show, the loops that wait    *)
(* for Pods, and the bounds of 32 and 64 rounds on teardown, which take    *)
(* fewer operations than that.  Of the four private paths that a lifecycle *)
(* has to give up, the kubeconfig and the Calico manifest are left out:    *)
(* both are written behind a running profile and go where the Docker       *)
(* configuration goes, while the kind configuration is written by every up.*)
(***************************************************************************)
EXTENDS V3B2Journal

CONSTANTS
  Programs,          \* the subcommands an operator uses
  Contracts,         \* runtime_contract_complete, as the inputs may say it
  Orphans,           \* a command may outlive the process that started it
  MaxFaults          \* how much the environment may do wrong

ASSUME ProgramsAssumption ==
  Programs \subseteq {"up", "nominal", "request-free", "down", "recover"}
ASSUME ContractsAssumption == Contracts \subseteq BOOLEAN
ASSUME OrphansAssumption == Orphans \in BOOLEAN
ASSUME MaxFaultsAssumption == MaxFaults \in Nat

VARIABLES
  world,     \* the host, the owned runtime and the private files
  inflight,  \* the operation whose command outlived its process, or NoOp
  run,       \* the controller process
  faults     \* how often the environment has failed so far

journal == <<committed, mode, stage, latched, refused, comparison>>
lifecycle == <<journal, world, inflight, run, faults>>

----------------------------------------------------------------------------
NoOp == <<"none", 0>>
Off == [prog |-> "none", at |-> "off", op |-> NoOp, top |-> FALSE, bad |-> FALSE]
Forward == {"up", "nominal", "request-free"}

\* Operations without a command of their own: the intent is observed at once.
Noops == {"readiness", "driver_start", "evidence_freeze", "cluster_absence_proof",
          "profile_absence_proof", "foreign_snapshot_comparison"}
\* Operations that are first observed, then repeated under current ownership.
Cleanups == {"driver_cancel", "cluster_delete", "profile_stop", "profile_delete"}
\* Stages of the setup that leave nothing outside the cluster.
InCluster == {"image_import", "image_load", "calico_apply", "application_apply",
              "readiness"}

InitialWorld(contract) ==
  [contract |-> contract, profile |-> "absent", paths |-> {"docker_config"},
   cluster |-> "absent", applied |-> {},
   driver |-> [t \in Tracks |-> "none"], sent |-> [t \in Tracks |-> 0],
   drained |-> FALSE, version |-> 0, captured |-> <<>>, published |-> FALSE,
   drift |-> FALSE]

Daemon == world.profile = "running"
ClusterSeen == Daemon /\ world.cluster = "present"
Waiting(t) == ClusterSeen /\ world.driver[t] = "waiting"
Served == {t \in Tracks : world.sent[t] > 0}
Pending == {op \in Ops : Active(op)}
Least(S) == CHOOSE t \in S : \A u \in S : t <= u

----------------------------------------------------------------------------
(***************************************************************************)
(* The host: what a command leaves behind when it takes effect, and what   *)
(* it may leave behind when it fails half-way.  A command that finds       *)
(* nothing to act on changes nothing.                                      *)
(***************************************************************************)
ClusterGone ==
  [world EXCEPT !.cluster = "absent", !.applied = {}, !.drained = FALSE,
                !.driver = [t \in Tracks |-> "none"]]

Effect(op) ==
  CASE op[1] = "profile_start" /\ world.profile = "absent" ->
         {[world EXCEPT !.profile = "running"]}
    [] op[1] = "cluster_create" /\ Daemon /\ world.cluster = "absent" ->
         {[world EXCEPT !.cluster = "present"]}
    [] op[1] \in {"image_import", "image_load", "calico_apply"} /\ ClusterSeen ->
         {[world EXCEPT !.applied = @ \cup {op[1]}]}
    [] op[1] = "application_apply" /\ ClusterSeen ->
         {[world EXCEPT !.applied = @ \cup {op[1]},
                        !.driver = [t \in Tracks |-> "waiting"]]}
    [] op[1] = "request" /\ Waiting(op[2]) ->
         {[world EXCEPT !.sent[op[2]] = @ + 1, !.driver[op[2]] = d] :
            d \in {"exited", "broken"}}
    [] op[1] = "driver_cancel" /\ Waiting(op[2]) ->
         {[world EXCEPT !.driver[op[2]] = d] : d \in {"exited", "broken"}}
    [] op[1] = "envoy_quiesce" /\ ClusterSeen ->
         {[world EXCEPT !.drained = TRUE]}
    [] op[1] = "cluster_delete" /\ ClusterSeen -> {ClusterGone}
    [] op[1] = "profile_stop" /\ Daemon ->
         {[world EXCEPT !.profile = "stopped"]}
    [] op[1] = "profile_delete" /\ world.profile \in {"stopped", "orphan"} ->
         {[ClusterGone EXCEPT !.profile = "absent"]}
    [] op[1] = "publication" -> {[world EXCEPT !.published = TRUE]}
    [] OTHER -> {world}

PartialEffect(op) ==
  CASE op[1] = "profile_start" /\ world.profile = "absent" ->
         {[world EXCEPT !.profile = "stopped"]}
    [] op[1] = "cluster_create" /\ Daemon /\ world.cluster = "absent" ->
         {[world EXCEPT !.cluster = "broken"]}
    [] op[1] = "cluster_delete" /\ ClusterSeen ->
         {[ClusterGone EXCEPT !.cluster = "broken"]}
    [] op[1] = "profile_delete" /\ world.profile = "stopped" ->
         {[ClusterGone EXCEPT !.profile = "orphan"]}
    [] OTHER -> {}

\* _up_lifecycle writes the kind configuration, which must not exist.
KindConfigured == [world EXCEPT !.paths = @ \cup {"kind_config"}]

----------------------------------------------------------------------------
(***************************************************************************)
(* The decisions: what an operation's registered observations of the host  *)
(* establish (OPERATIONS), and what a latched journal makes of that.       *)
(***************************************************************************)
\* Mutant: a cluster whose API is gone counts as gone.
NoClusterLeft_Unreachable == Daemon /\ ~ClusterSeen

\* _cluster_absence: the owned daemon lists no container of the cluster.
NoClusterLeft == Daemon /\ world.cluster = "absent"

\* _profile: nothing listed, no instance or disk left, active paths cleared.
NoProfileLeft == world.profile = "absent" /\ world.paths = {}

\* Mutant: a missing running profile is a start that did not happen.
StartNotApplied_NotRunning == ~refused /\ ~Daemon

StartNotApplied == ~refused /\ world.profile = "absent"

\* _applied: the live objects are the reviewed ones, exactly.
AppliedSeen(f) == ClusterSeen /\ f \in world.applied

\* _readiness: a pending platform contract is never ready.
RuntimeReady == world.contract /\ AppliedSeen("application_apply")

\* _driver: the bound Pod waits for its instruction, or has ended.
DriverReady(t) == Waiting(t)
DriverEnded(t, how) == ClusterSeen /\ world.driver[t] = how

\* _quiescence: every listener refuses and every gauge is zero.
Quiescent == ClusterSeen /\ world.drained

\* _freeze: manifest and sources read as the intent that commits to them.
SourcesFrozen == world.captured # <<>>

\* _foreign: a complete inventory, in which nothing owned is left to compare.
ForeignComparable == world.profile = "absent"

\* _publication: a failed lifecycle cannot have published.
PublicationSeen == world.published /\ ~latched

Established(op) ==
  CASE op[1] = "profile_start" -> ~refused /\ Daemon
    [] op[1] = "cluster_create" -> ClusterSeen
    [] op[1] \in {"image_import", "image_load", "calico_apply", "application_apply"} ->
         AppliedSeen(op[1])
    [] op[1] = "readiness" -> RuntimeReady
    [] op[1] = "driver_start" -> DriverReady(op[2])
    [] op[1] = "driver_cancel" -> DriverEnded(op[2], "exited")
    [] op[1] = "envoy_quiesce" -> Quiescent
    [] op[1] = "evidence_freeze" -> SourcesFrozen
    [] op[1] \in {"cluster_delete", "cluster_absence_proof"} -> NoClusterLeft
    [] op[1] = "profile_stop" -> world.profile = "stopped"
    [] op[1] \in {"profile_delete", "profile_absence_proof"} -> NoProfileLeft
    [] op[1] = "foreign_snapshot_comparison" -> ForeignComparable
    [] op[1] = "publication" -> PublicationSeen

\* The validators of the registry, before decide looks at the latch.
Validated(op) ==
  IF Established(op) THEN "complete"
  ELSE IF op = Op("profile_start") /\ StartNotApplied THEN "failed"
  ELSE IF \/ op = Op("image_load") /\ ClusterSeen
          \/ op[1] = "driver_cancel" /\ DriverEnded(op[2], "broken")
    THEN "abandoned"
  ELSE "unknown"

Verdict(op) ==
  CASE latched /\ Validated(op) = "complete"
               /\ op[1] \in SetupFamilies \cup {"driver_start"} -> "abandoned"
    [] latched /\ Validated(op) = "unknown"
               /\ op[1] \in InCluster /\ ClusterSeen -> "abandoned"
    [] OTHER -> Validated(op)

\* cleanup_commands: what may be repeated, and when ownership is certain.
CleanupPermitted(op) ==
  \/ op[1] = "profile_stop" /\ Daemon
  \/ op[1] = "profile_delete" /\ world.profile \in {"stopped", "orphan"}
  \/ op[1] = "cluster_delete" /\ ClusterSeen
  \/ op[1] = "driver_cancel" /\ Waiting(op[2])

----------------------------------------------------------------------------
(***************************************************************************)
(* The scripts: the operation the running program wants next, NoOp when it *)
(* has nothing left to do or does not know what it owns.                   *)
(***************************************************************************)
SetupSequence ==
  <<"profile_start", "cluster_create", "image_import", "image_load",
    "calico_apply", "application_apply", "readiness">>
SetupLeft == {i \in 1..7 : ~Done(SetupSequence[i])}

\* self._drivers: the started ones; once latched, those readiness has bound.
Drivers ==
  IF latched THEN {t \in Tracks : Done("readiness")}
             ELSE {t \in Tracks : Start(t) = "complete"}
Uncancelled == Drivers \ Cancelled
CancelOp == <<"driver_cancel", Least(Uncancelled)>>

EvidenceDue == Done("readiness") /\ ~Done("evidence_freeze")

\* _advance_teardown
EvidenceOp ==
  IF mode = "request-free" /\ Uncancelled # {} THEN CancelOp
  ELSE IF Stage("envoy_quiesce") \notin {"complete", "abandoned"}
    THEN Op("envoy_quiesce")
  ELSE Op("evidence_freeze")

TeardownOp ==
  IF Done("profile_absence_proof") THEN
    IF Done("foreign_snapshot_comparison") THEN NoOp
    ELSE Op("foreign_snapshot_comparison")
  ELSE IF Stage("profile_start") = "failed" \/ Done("profile_delete")
    THEN Op("profile_absence_proof")
  ELSE IF Done("profile_stop") THEN Op("profile_delete")
  ELSE IF Done("cluster_absence_proof") \/ Stage("cluster_create") = "none"
    THEN Op("profile_stop")
  ELSE IF Done("cluster_delete") THEN Op("cluster_absence_proof")
  ELSE IF ~ClusterOwned THEN NoOp
  ELSE IF EvidenceDue THEN EvidenceOp
  ELSE IF Uncancelled # {} THEN CancelOp
  ELSE Op("cluster_delete")

\* An unanswered request, in the process that sent it, is its failure.
ForwardOp ==
  LET unstarted == {t \in Tracks : Start(t) = "none"}
      unanswered == {t \in Tracks : Request(t) # "complete"}
      ending == IF Done("publication") THEN NoOp
                ELSE IF Done("foreign_snapshot_comparison") THEN Op("publication")
                ELSE TeardownOp
  IN IF SetupLeft # {} THEN Op(SetupSequence[Least(SetupLeft)])
     ELSE CASE run.prog = "up" -> NoOp
            [] run.prog = "request-free" ->
                 IF unstarted = {} THEN ending
                 ELSE <<"driver_start", Least(unstarted)>>
            [] run.prog = "nominal" ->
                 IF unanswered = {} \/ RequestPending THEN ending
                 ELSE IF Least(unanswered) \in unstarted
                   THEN <<"driver_start", Least(unanswered)>>
                 ELSE <<"request", Least(unanswered)>>

\* down quiesces and freezes, without looking at the mode, then tears down.
DownOp ==
  IF Done("evidence_freeze") THEN TeardownOp
  ELSE IF Done("envoy_quiesce") THEN Op("evidence_freeze")
  ELSE Op("envoy_quiesce")

NextOp == CASE run.prog \in Forward -> ForwardOp
            [] run.prog = "down" -> DownOp
            [] OTHER -> TeardownOp

----------------------------------------------------------------------------
(***************************************************************************)
(* How a program goes on.                                                  *)
(***************************************************************************)
Fault == faults < MaxFaults /\ faults' = faults + 1
At(a, op) == run' = [run EXCEPT !.at = a, !.op = op]

\* An exception: the forward programs turn to recovery, the others end.
Unwind == run' = [Off EXCEPT !.prog = "unwind", !.at = "latch"]
Raise == IF run.prog \in Forward THEN Unwind ELSE run' = Off

\* _advance_teardown returns after these; cancel, quiesce and freeze go on.
Returning(op) == op[1] \notin {"driver_cancel", "envoy_quiesce", "evidence_freeze"}

Continue(op) ==
  CASE run.prog = "unwind" /\ (run.top \/ Returning(op)) ->
         run' = [Off EXCEPT !.prog = "unwind", !.at = "recover"]
    [] run.prog = "recover" /\ (run.top \/ Returning(op)) -> run' = Off
    [] OTHER -> At("step", NoOp)

\* The observation is made, or the host withholds it.
Observed(op, v) ==
  \/ v = Verdict(op) /\ UNCHANGED faults
  \/ v = "unknown" /\ Verdict(op) # "unknown" /\ Fault

Recorded(op, v) ==
  IF v = "unknown" THEN UNCHANGED journal
  ELSE /\ AppendObservedTerminal(op, v)
       /\ op = Op("foreign_snapshot_comparison") =>
            comparison' = IF world.drift THEN "changed" ELSE "same"

----------------------------------------------------------------------------
LifecycleInit ==
  /\ Init
  /\ committed
  /\ mode = "nominal"
  /\ \E contract \in Contracts : world = InitialWorld(contract)
  /\ inflight = NoOp
  /\ run = Off
  /\ faults = 0

\* up, nominal and request-free on a prepared journal without events.
BeginForward(prog) ==
  /\ run = Off /\ NoEvents
  /\ IF prog = "up" THEN UNCHANGED journal ELSE SelectMode(prog)
  /\ run' = [Off EXCEPT !.prog = prog, !.at = "configure"]
  /\ UNCHANGED <<world, inflight, faults>>

\* Mutant: up resumes the pending operation instead of unwinding.
BeginUnwind_Resumes ==
  /\ run = Off /\ ~NoEvents
  /\ run' = IF Pending = {} THEN [Off EXCEPT !.prog = "unwind", !.at = "latch"]
            ELSE [Off EXCEPT !.prog = "up", !.at = "act",
                             !.op = CHOOSE op \in Pending : TRUE]
  /\ UNCHANGED <<journal, world, inflight, faults>>

\* up on a journal with events recovers to owned absence: refused as a reuse
\* at once, or by its kind configuration, or by its first intent behind that.
BeginUnwind ==
  /\ run = Off /\ ~NoEvents
  /\ run' = [Off EXCEPT !.prog = "unwind",
                        !.at = IF ClusterOwned /\ ~Done("cluster_delete")
                               THEN "latch" ELSE "configure"]
  /\ UNCHANGED <<journal, world, inflight, faults>>

\* The first thing up leaves on the host, ahead of any intent.  What may fail
\* is the verification of the tools, the write, or the sync that follows it.
Configure ==
  /\ run.at = "configure"
  /\ \/ /\ "kind_config" \notin world.paths
        /\ world' = KindConfigured
        /\ IF run.prog = "unwind" THEN Unwind ELSE At("step", NoOp)
        /\ UNCHANGED faults
     \/ /\ "kind_config" \in world.paths
        /\ Unwind
        /\ UNCHANGED <<world, faults>>
     \/ /\ Fault
        /\ world' \in {world, KindConfigured}
        /\ Unwind
  /\ UNCHANGED <<journal, inflight>>

\* down wants a bound runtime, and its first intent a journal at rest.
BeginDown ==
  /\ run = Off
  /\ ClusterOwned /\ ~Done("cluster_delete")
  /\ run' = [Off EXCEPT !.prog = "down", !.at = "step"]
  /\ UNCHANGED <<journal, world, inflight, faults>>

BeginRecover ==
  /\ run = Off
  /\ run' = [Off EXCEPT !.prog = "recover", !.at = "recover"]
  /\ UNCHANGED <<journal, world, inflight, faults>>

\* _recover_to_owned_absence latches before it recovers anything.
UnwindLatch ==
  /\ run.at = "latch"
  /\ LatchTeardown
  /\ At("recover", NoOp)
  /\ UNCHANGED <<world, inflight, faults>>

\* Mutant: a pending operation is left to the teardown script.
Recover_SkipsPending ==
  /\ run.at = "recover"
  /\ LatchTeardown
  /\ At("step", NoOp)
  /\ UNCHANGED <<world, inflight, faults>>

\* recover: settle the pending operation, otherwise latch and tear down.
Recover ==
  /\ run.at = "recover"
  /\ \/ /\ run.prog = "unwind" /\ Done("foreign_snapshot_comparison")
        /\ run' = Off
        /\ UNCHANGED journal
     \/ /\ ~(run.prog = "unwind" /\ Done("foreign_snapshot_comparison"))
        /\ \E op \in Pending :
             run' = [run EXCEPT !.at = "prove", !.op = op, !.top = TRUE]
        /\ UNCHANGED journal
     \/ /\ ~(run.prog = "unwind" /\ Done("foreign_snapshot_comparison"))
        /\ Pending = {}
        /\ LatchTeardown
        /\ At("step", NoOp)
  /\ UNCHANGED <<world, inflight, faults>>

\* Mutant: publication does not ask whether a request went unanswered.
Answered_Unasked == TRUE

Answered == ~RequestPending

\* _clear_active_paths_if_profile_absent, and where its caller goes on, which
\* never asks whether the inventory it decides by was withheld.  A file that
\* cannot be removed is an exception, behind the removal of others.
ClearPaths(a, op) ==
  \/ /\ world' = [world EXCEPT !.paths = IF world.profile = "absent" THEN {} ELSE @]
     /\ At(a, op)
     /\ UNCHANGED faults
  \/ Fault /\ world' = world /\ At(a, op)
  \/ /\ Fault /\ world.profile = "absent"
     /\ \E left \in SUBSET world.paths : world' = [world EXCEPT !.paths = left]
     /\ Raise

\* What comes between the choice of an operation and its intent.
Preparation(op) ==
  CASE op = Op("evidence_freeze") -> "captured"
    [] op = Op("profile_absence_proof") /\ Stage("profile_start") = "failed" -> "cleared"
    [] OTHER -> "step"

\* What a program checks before it writes the next intent.
Ready(op) ==
  /\ run.at = Preparation(op)
  /\ IntentAdmitted(op)
  /\ op = Op("profile_start") => world.profile = "absent"
  /\ op[1] = "driver_start" => Waiting(op[2])
  /\ op = Op("publication") => Answered
  /\ run.bad => op[1] = "driver_cancel"

\* Mutant: only the requests whose answer was recorded are captured.
Sources_Answered ==
  [served |-> {t \in Tracks : Request(t) = "complete"}, version |-> world.version]

\* The ledgers hold what was served, answered or not; the binding of a source
\* names the resource version of its Pod.
Sources == [served |-> Served, version |-> world.version]

\* _capture_sources: what is already on disk must read the same again.
CapturePossible == ClusterSeen /\ world.captured \in {<<>>, <<Sources>>} /\ ~run.bad

Capture ==
  /\ run.at = "step" /\ NextOp = Op("evidence_freeze")
  /\ CapturePossible
  /\ world' = [world EXCEPT !.captured = <<Sources>>]
  /\ At("captured", NoOp)
  /\ UNCHANGED <<journal, inflight, faults>>

\* A start that failed leaves its files to the teardown.
ClearFailedStart ==
  /\ run.at = "step" /\ NextOp # NoOp
  /\ Preparation(NextOp) = "cleared"
  /\ ClearPaths("cleared", NoOp)
  /\ UNCHANGED <<journal, inflight>>

\* Mutant: a request is sent first and claimed later.
Written_AfterSend(op) ==
  IF op[1] = "request" THEN UNCHANGED journal ELSE AppendIntent(op)

Written(op) == AppendIntent(op)

\* The intent is written ahead of the operation.
Claim ==
  /\ run.at \in {"step", "captured", "cleared"} /\ NextOp # NoOp
  /\ Ready(NextOp)
  /\ Written(NextOp)
  /\ At(IF NextOp[1] \in Cleanups THEN "prove"
        ELSE IF NextOp[1] \in Noops THEN "observe" ELSE "act", NextOp)
  /\ UNCHANGED <<world, inflight, faults>>

\* A check refuses the next operation before its intent is written.
Balk ==
  /\ run.at \in {"step", "captured", "cleared"} /\ NextOp # NoOp
  /\ \/ /\ IF run.at = Preparation(NextOp) THEN ~Ready(NextOp)
           ELSE NextOp = Op("evidence_freeze") /\ ~CapturePossible
        /\ UNCHANGED faults
     \/ Fault
  /\ Raise
  /\ UNCHANGED <<journal, world, inflight>>

Finish ==
  /\ run.at = "step" /\ NextOp = NoOp
  /\ run' = Off
  /\ UNCHANGED <<journal, world, inflight, faults>>

----------------------------------------------------------------------------
\* The command takes effect and reports it.
Dispatch ==
  /\ run.at = "act"
  /\ world' \in Effect(run.op)
  /\ IF run.op[1] # "request" THEN At("observe", run.op)
     ELSE IF world'.driver[run.op[2]] = "exited" /\ world' # world
       THEN At("answer", run.op)
     ELSE At("step", NoOp)
  /\ UNCHANGED <<journal, inflight, faults>>

\* The command fails, having done all, part or nothing of its work.  The
\* failure latches teardown, except that a request only ends the nominal
\* loop and a publication only raises.
DispatchFails ==
  /\ run.at = "act" /\ Fault
  /\ world' \in Effect(run.op) \cup PartialEffect(run.op) \cup {world}
  /\ IF run.op[1] = "request" THEN At("step", NoOp) /\ UNCHANGED journal
     ELSE IF run.op[1] = "publication" THEN Raise /\ UNCHANGED journal
     ELSE At("last", run.op) /\ LatchTeardown
  /\ UNCHANGED inflight

\* A remnant of the owned profile appeared since the first look.
DispatchRefused ==
  /\ run.at = "act" /\ run.op = Op("profile_start") /\ Fault
  /\ LatchRefusal
  /\ At("last", run.op)
  /\ UNCHANGED <<world, inflight>>

Answer ==
  /\ run.at = "answer"
  /\ AppendRequestResult(run.op[2])
  /\ At("step", NoOp)
  /\ UNCHANGED <<world, inflight, faults>>

\* The terminal of _journal_pair and of its two hand-written copies: only a
\* completion goes on; an unknown outcome latches and is looked at again.
Observe ==
  /\ run.at = "observe"
  /\ \E v \in Stages \cup {"unknown"} :
       /\ Observed(run.op, v)
       /\ IF v = "unknown" THEN LatchTeardown ELSE Recorded(run.op, v)
       /\ CASE v = "complete" ->
                 IF comparison' = "changed" THEN Raise ELSE Continue(run.op)
            [] v = "unknown" /\ run.op[1] \notin
                 {"application_apply", "envoy_quiesce", "publication"} ->
                 At("last", run.op)
            [] OTHER -> Raise
  /\ UNCHANGED <<world, inflight>>

ObserveLast ==
  /\ run.at = "last"
  /\ \E v \in Stages \cup {"unknown"} :
       Observed(run.op, v) /\ Recorded(run.op, v)
  /\ Raise
  /\ UNCHANGED <<world, inflight>>

----------------------------------------------------------------------------
(***************************************************************************)
(* recover on a pending operation: observe; if that decides nothing and    *)
(* ownership is certain, repeat the cleanup command; observe again.        *)
(***************************************************************************)
\* What the outcome of recover means to its caller.  Where up's own recovery
\* ends on an unknown outcome, the exception handlers of nominal and
\* request-free recover once more: the operator's next recover does the same.
Settle(op, v) ==
  CASE v = "unknown" -> IF run.prog = "unwind" THEN run' = Off ELSE Raise
    [] v = "abandoned" /\ op[1] = "driver_cancel" /\ ~run.top ->
         run' = [run EXCEPT !.at = "step", !.op = NoOp, !.bad = TRUE]
    [] OTHER -> Continue(op)

Prove ==
  /\ run.at = "prove"
  /\ \E v \in Stages \cup {"unknown"} :
       /\ Observed(run.op, v)
       /\ Recorded(run.op, v)
       /\ IF v # "unknown" THEN Settle(run.op, v)
          ELSE IF v = Verdict(run.op) /\ CleanupPermitted(run.op)
            THEN At("cleanup", run.op)
          ELSE IF run.op = Op("profile_delete") THEN At("clear", run.op)
          ELSE Settle(run.op, v)
  /\ UNCHANGED <<world, inflight>>

\* The exit status of a cleanup command is not looked at; only a transport
\* exception is one.
Cleanup ==
  /\ run.at = "cleanup"
  /\ \/ world' \in Effect(run.op) /\ UNCHANGED faults
     \/ world' \in PartialEffect(run.op) \cup {world} /\ Fault
  /\ \/ At("clear", run.op)
     \/ Raise /\ faults' # faults
  /\ UNCHANGED <<journal, inflight>>

Clear ==
  /\ run.at = "clear"
  /\ IF run.op = Op("profile_delete") THEN ClearPaths("reprove", run.op)
     ELSE At("reprove", run.op) /\ UNCHANGED <<world, faults>>
  /\ UNCHANGED <<journal, inflight>>

Reprove ==
  /\ run.at = "reprove"
  /\ \E v \in Stages \cup {"unknown"} :
       Observed(run.op, v) /\ Recorded(run.op, v) /\ Settle(run.op, v)
  /\ UNCHANGED <<world, inflight>>

----------------------------------------------------------------------------
\* The process dies.  With Orphans, the command it was waiting for may not.
Crash ==
  /\ run # Off /\ Fault
  /\ run' = Off
  /\ \/ UNCHANGED inflight
     \/ /\ Orphans /\ run.at \in {"act", "cleanup"} /\ inflight = NoOp
        /\ inflight' = run.op
  /\ UNCHANGED <<journal, world>>

\* An orphaned command takes effect, or comes to nothing.
Land ==
  /\ inflight # NoOp
  /\ world' \in Effect(inflight) \cup {world}
  /\ inflight' = NoOp
  /\ UNCHANGED <<journal, run, faults>>

\* Somebody changes a foreign profile or the global context.
ForeignDrift ==
  /\ ~world.drift /\ Fault
  /\ world' = [world EXCEPT !.drift = TRUE]
  /\ UNCHANGED <<journal, inflight, run>>

\* The status of a source Pod changes, and with it the resource version.
PodUpdated ==
  /\ ClusterSeen /\ Fault
  /\ world' = [world EXCEPT !.version = @ + 1]
  /\ UNCHANGED <<journal, inflight, run>>

Begin ==
  \/ \E prog \in Programs \cap Forward : BeginForward(prog)
  \/ "up" \in Programs /\ BeginUnwind
  \/ "down" \in Programs /\ BeginDown
  \/ "recover" \in Programs /\ BeginRecover

Work ==
  \/ Configure \/ UnwindLatch \/ Recover \/ Capture \/ ClearFailedStart
  \/ Claim \/ Balk \/ Finish
  \/ Dispatch \/ DispatchFails \/ DispatchRefused \/ Answer
  \/ Observe \/ ObserveLast \/ Prove \/ Cleanup \/ Clear \/ Reprove

LifecycleNext == Begin \/ Work \/ Crash \/ Land \/ ForeignDrift \/ PodUpdated

LifecycleSpec == LifecycleInit /\ [][LifecycleNext]_lifecycle

\* A process that runs is scheduled, an operator who recovers does it again.
\* The environment owes nothing.
Fairness ==
  /\ WF_lifecycle(Work)
  /\ SF_lifecycle("recover" \in Programs /\ BeginRecover)

FairLifecycleSpec == LifecycleSpec /\ Fairness

----------------------------------------------------------------------------
\* A consequential request goes out at most once, only after its claim is
\* durable and only in a nominal lifecycle, through every crash, restart,
\* failed attach and command that outlives its process ("Never resend an
\* instruction"; _nominal_lifecycle lines 1584-1651).
ClaimedBeforeSent ==
  \A t \in Served :
    /\ world.sent[t] = 1
    /\ Request(t) # "none"
    /\ mode = "nominal"

\* In a teardown-only journal no process starts, creates, applies, sends or
\* publishes anything: whatever is pending is only observed, and what may be
\* repeated is cleanup.  An orphan of an earlier process is no process's act
\* (recover, lines 1683-1709; cleanup_commands).
NoForwardAct ==
  [][latched /\ inflight' = inflight =>
       /\ world'.sent = world.sent
       /\ world'.applied \subseteq world.applied
       /\ world'.profile = "running" => world.profile = "running"
       /\ world'.cluster = "present" => world.cluster = "present"
       /\ world'.published => world.published]_lifecycle

\* A cluster that reached readiness is gone only behind a completed freeze:
\* no failure, restart or abandoned stage lets teardown destroy sources that
\* were never captured (_advance_teardown, lines 1781-1790).
EvidenceBeforeDestruction ==
  Done("readiness") /\ world.cluster # "present" =>
    Done("evidence_freeze")

\* What was frozen is what was served, then and ever after: a request whose
\* answer got lost is in the evidence, and none is served behind the freeze
\* (_capture_sources, lines 1271-1364).
FreezeIsFinal == Done("evidence_freeze") =>
  world.captured # <<>> /\ world.captured[1].served = Served

\* The profile is stopped or deleted only when no part of the cluster is left
\* in it, whatever failed half-way (_validate_history, lines 1239-1241).
ClusterGoesFirst == world.profile # "running" => world.cluster = "absent"

\* Destruction keeps its order whatever fails, restarts or comes late: sources
\* before their cluster, the cluster before its profile (_advance_teardown).
DestructionInOrder == EvidenceBeforeDestruction /\ ClusterGoesFirst

\* A completed absence proof is true and stays true: nothing owned is left and
\* no later step brings it back, so the foreign comparison that follows
\* compares a host without KIL (_profile, lines 184-218).  The one file that
\* may be there again is the kind configuration of an up that was refused.
AbsenceIsFinal ==
  Done("profile_absence_proof") =>
    /\ world.profile = "absent"
    /\ world.cluster = "absent"
    /\ world.paths \subseteq {"kind_config"}

\* A profile start recorded as failed did not happen and does not happen later
\* (design section 7: "A closed `failed` event is permitted only when a bound
\* observation proves that the mutation did not occur").
FailedMeansNotApplied ==
  Stage("profile_start") = "failed" => world.profile = "absent"

\* What the journal says was proved of the profile is true of the host from then
\* on, that nothing is left as well as that nothing was ever started (_profile).
RecordedIsTrue == AbsenceIsFinal /\ FailedMeansNotApplied

\* What is public tells of a lifecycle that ended well: nothing failed, all of
\* it torn down beside an unchanged foreign state, and every request sent
\* once, answered and in the evidence, or in a request-free lifecycle none
\* (_publish, lines 1461-1548).  As for AbsenceIsFinal, a later up may have
\* written its kind configuration.
PublishedIsSound ==
  world.published =>
    /\ world.profile = "absent" /\ world.paths \subseteq {"kind_config"}
    /\ comparison = "same"
    /\ ~SomeFailed /\ ~SomeAbandoned
    /\ world.captured[1].served = (IF mode = "nominal" THEN Tracks ELSE {})
    /\ \A t \in Tracks :
         mode = "nominal" => world.sent[t] = 1 /\ Request(t) = "complete"

\* What recover cannot settle however often it is run: the host shows neither
\* the effect of the pending operation nor its certain absence.  Of the private
\* files only a pending deletion of the profile clears what is left: an absence
\* proof that finds some, because the clearing behind a failed start was
\* withheld or because up has written its kind configuration since, waits on.
Undecidable(op) ==
  CASE op = Op("profile_start") -> refused \/ world.profile = "stopped"
    [] op = Op("cluster_create") -> ~ClusterSeen
    [] op[1] \in InCluster -> ~latched /\ ~Established(op)
    [] op = Op("envoy_quiesce") -> ~world.drained
    [] op = Op("cluster_delete") -> world.cluster = "broken"
    [] op = Op("profile_absence_proof") -> world.paths # {}
    [] OTHER -> FALSE

Uncapturable == world.captured # <<>> /\ ~CapturePossible /\ ~Done("evidence_freeze")

Manual == Uncapturable \/ \E op \in Pending : Undecidable(op)

\* Whoever keeps running recover gets a started lifecycle to its end, the
\* foreign comparison on a host without KIL, unless it hangs on one of the
\* undecidable operations or on sources that cannot be captured again (design
\* section 10: "mandatory evidence freeze and exact teardown continue").
RecoveryEnds ==
  Stage("profile_start") # "none" ~>
    Done("foreign_snapshot_comparison") \/ []Manual

\* A pending quiesce over an Envoy that still serves is repeated (plan, table
\* of recovery rules: "Repeat only the fixed cleanup control when the exact
\* same process remains serving").
QuiesceIsRepeated ==
  Stage("envoy_quiesce") = "pending" ~> Stage("envoy_quiesce") # "pending"

\* What a reader of the bundle sees of the journal and the host.
Owned == INSTANCE OwnedLifecycle WITH
  sent <- Served, answered <- {t \in Tracks : Request(t) = "complete"},
  sealed <- Done("evidence_freeze"), closed <- latched,
  absent <- Done("profile_absence_proof"), verdict <- comparison,
  public <- world.published

\* The controller keeps the promises of OwnedLifecycle, through crashes and
\* failures, as long as no command outlives its process.
KeepsItsPromises == Owned!Spec
=============================================================================
