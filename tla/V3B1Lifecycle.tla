--------------------------- MODULE V3B1Lifecycle ---------------------------
(***************************************************************************)
(* One lifecycle of the V3B-1 controller (tools/v3b1_local_envoy.py):      *)
(* `up` builds the owned profile and what runs in it, `readiness`, `run`   *)
(* and `collect` use it, and `down`, repeated until it succeeds, freezes   *)
(* the evidence, removes everything it owns, publishes one bundle and      *)
(* archives the journal.                                                   *)
(*                                                                         *)
(* The sessions, the drivers and the process are V3B1Session's.  A check   *)
(* that fails by chance ends the process as a crash does, unless the code  *)
(* handles it; one that fails whenever it is reached ends it each time.    *)
(*                                                                         *)
(* Abstracted: the gateways of all tracks are one object, their            *)
(* authorization and target services another, their networks, validators   *)
(* and attachments a third; events that no decision reads; identities,     *)
(* digests and the contents of evidence, but for which requests it shows;  *)
(* the Docker context of the operator; directories exchanged by others.    *)
(***************************************************************************)
EXTENDS V3B1Session

VARIABLES
  life,   \* the journal's other events
  site    \* the profile and its objects, the active state and the bundles

lifecycle == <<log, host, proc, faults, life, site>>

\* Removed in this order (_TEARDOWN_REMOVAL_ROLES), created in the opposite one.
Gateways == NumTracks + 1
Ledgers == NumTracks + 2
Networks == NumTracks + 3
Objects == 1..Networks
Services == {Gateways, Ledgers}

Progress == {"none", "journal", "before", "start_intent", "owned", "bound", "up"}
Owned == life.stage \in {"owned", "bound", "up"}          \* profile_created
Bound == life.stage \in {"bound", "up"}                   \* manifest_persisted
Up == life.stage = "up"
Classes == {"none", "complete", "incomplete"}

AppendLife(new, may, next, raised) ==
  \/ may /\ life' = new /\ proc' = next /\ NoFault
  \/ ~may /\ life' = life /\ proc' = raised /\ NoFault
  \/ may /\ life' \in {life, new} /\ proc' = raised /\ Fault
  \/ may /\ life' = life /\ proc' = Off /\ Fault

Say(new, next) == AppendLife(new, TRUE, next, Off)
Silently(next) == proc' = next /\ UNCHANGED <<life, faults>>
Raise == Silently(Off)

----------------------------------------------------------------------------
(***************************************************************************)
(* up: journal first, then the snapshot of foreign profiles, the profile,  *)
(* the manifest, every object between an intent and its identity, and at   *)
(* last the active state.                                                  *)
(***************************************************************************)
Started(cmd, place) == [Off EXCEPT !.cmd = cmd, !.at = place]

UpBegins ==
  /\ proc = Off /\ life.stage = "none" /\ site.profile = "absent"
  /\ Say([life EXCEPT !.stage = "journal"], Started("up", "up_before"))
  /\ UNCHANGED <<log, host, site>>

UpEvents ==
  \/ /\ At("up_before")
     /\ Say([life EXCEPT !.stage = "before"], To(proc, "up_intent"))
  \/ /\ At("up_intent")
     /\ Say([life EXCEPT !.stage = "start_intent"], To(proc, "up_start"))
  \/ /\ At("up_owned")
     /\ Say([life EXCEPT !.stage = "owned"], To(proc, "up_bind"))
  \/ /\ At("up_bind")
     /\ Say([life EXCEPT !.stage = "bound"], [proc EXCEPT !.at = "up_create", !.t = Networks])
  \/ /\ At("up_create")
     /\ Say([life EXCEPT !.created[Here] = "pending"], To(proc, "up_created"))
  \/ /\ At("up_complete")
     /\ Say([life EXCEPT !.stage = "up"], Off)

UpStart ==
  /\ At("up_start")
  /\ \/ site' = [site EXCEPT !.profile = "running"] /\ proc' = To(proc, "up_owned") /\ NoFault
     \/ site' = [site EXCEPT !.profile = "stopped"] /\ proc' = Off /\ Fault
  /\ UNCHANGED <<log, host, life>>

UpCreated ==
  /\ At("up_created")
  /\ site' = [site EXCEPT !.objects = @ \cup {Here},
                          !.running = @ \cup ({Here} \cap Services)]
  /\ Say([life EXCEPT !.created[Here] = "complete"],
         IF Here = 1 THEN To(proc, "up_state")
                     ELSE [proc EXCEPT !.at = "up_create", !.t = Here - 1])
  /\ UNCHANGED <<log, host>>

UpState ==
  /\ At("up_state")
  /\ site' = [site EXCEPT !.state = TRUE]
  /\ proc' = To(proc, "up_complete")
  /\ UNCHANGED <<log, host, faults, life>>

UpProgram == UpStart \/ UpCreated \/ UpState \/ (UpEvents /\ UNCHANGED <<log, host, site>>)

----------------------------------------------------------------------------
(***************************************************************************)
(* readiness, run and collect, on what _load_and_reverify finds.           *)
(***************************************************************************)
\* Every object is there and serves; a driver is untouched or has done its part.
Serving ==
  /\ site.state /\ site.profile = "running"
  /\ site.objects = Objects /\ site.running = Services
  /\ \A t \in Tracks :
       \/ Authority(t) = "pre_start" /\ host.driver[t] = "created"
       \/ Authority(t) # "pre_start" /\ Eligible(t)
          /\ host.driver[t] \notin Running \cup {"created"}

Use(cmd) == Serving /\ Begin(cmd) /\ UNCHANGED <<life, site>>

AllCompleted == \A t \in Tracks : log.request[t] = "completed"
Sent == {t \in Tracks : host.sent[t] > 0}

\* Otherwise it raises at once.
CollectBegins ==
  /\ proc = Off /\ Serving /\ AllCompleted
  /\ proc' = Started("collect", "collect")
  /\ UNCHANGED <<log, host, faults, life, site>>

Collect ==
  LET sound == /\ Serving /\ AllCompleted /\ host.records = Tracks /\ Sent = Tracks
               /\ \A t \in Tracks : host.result[t] = "driver"
  IN /\ At("collect")
     /\ \/ /\ sound /\ site' = [site EXCEPT !.provisional = "complete"]
           /\ Say([life EXCEPT !.evidence = "collected"], Off)
        \/ ~sound /\ Raise /\ UNCHANGED site
     /\ UNCHANGED <<log, host>>

----------------------------------------------------------------------------
(***************************************************************************)
(* down, while the profile is there: _load_for_down, the requests that a   *)
(* crash left open, the drivers that may still run.                        *)
(***************************************************************************)
\* No profile, and the journal says why: never owned, or to be deleted.
DownAbsent ==
  /\ proc = Off /\ life.stage # "none" /\ ~site.archived
  /\ site.profile = "absent"
  /\ Owned => life.deletion # "none"
  /\ Say([life EXCEPT !.deletion = "complete"], Started("redown", "after"))
  /\ UNCHANGED <<log, host, site>>

\* Mutant: an owned profile that does not run is not started again.
DownPresent_NotRestarted ==
  /\ proc = Off /\ Owned /\ site.profile = "running"
  /\ proc' = Started("down", "load")
  /\ UNCHANGED <<log, host, faults, life, site>>

DownPresent ==
  /\ proc = Off /\ Owned /\ site.profile # "absent"
  /\ site' = [site EXCEPT !.profile = "running"]
  /\ proc' = Started("down", "load")
  /\ UNCHANGED <<log, host, faults, life>>

\* An object without a recorded identity is not touched; one whose removal was
\* about to be recorded is; any other change of the inventory raises.
Recoverable ==
  /\ site.state \/ \A o \in site.objects : life.created[o] = "complete"
  /\ \A t \in Tracks \cap site.objects :
       /\ Authority(t) = "pre_start" => host.driver[t] = "created"
       /\ Authority(t) \notin {"pre_start", "ambiguous"} => host.driver[t] \notin Running

Pended == {t \in Tracks : log.request[t] \in Pending}
PresentDrivers == Tracks \cap site.objects

Freezing(p) == [p EXCEPT !.at = "stop_service", !.t = Gateways]
Quiescing(p, from) ==
  Loop(p, PresentDrivers, from, "quiesce",
       IF Up THEN Freezing(p) ELSE To(p, "partial"))

Load ==
  /\ At("load")
  /\ \/ ~Recoverable /\ Raise
     \/ Recoverable /\ ~Bound /\ Silently(To(proc, "stop"))
     \/ /\ Recoverable /\ Bound
        /\ Say([life EXCEPT !.removed = [o \in Objects |->
                  IF life.removed[o] = "pending" /\ o \notin site.objects
                  THEN "complete" ELSE life.removed[o]]],
               Loop(proc, Pended, 1, "strand", Quiescing(proc, 1)))
  /\ UNCHANGED <<log, host, site>>

\* _close_stranded_request_intents: never sent again, closed by what is known.
Strand ==
  LET next == Onward(proc, Pended, "strand", Quiescing(proc, 1))
  IN /\ At("strand")
     /\ ControlFailure(Here, log.request[Here] # "request_intent", next, Off)
     /\ UNCHANGED <<life, site>>

\* _quiesce_driver_for_teardown stops what the journal cannot vouch for.
Quiesce ==
  /\ At("quiesce")
  /\ \/ /\ Authority(Here) # "ambiguous"
        /\ proc' = Quiescing(proc, Here + 1) /\ NoFault /\ UNCHANGED log
     \/ /\ Authority(Here) = "ambiguous" /\ log.stops[Here] \in {"unstarted", "failed"}
        /\ AppendDriver("stop_intent", To(proc, "quiesced"), Off)
     \/ /\ Authority(Here) = "ambiguous" /\ log.stops[Here] = "pending"
        /\ proc' = To(proc, "quiesced") /\ NoFault /\ UNCHANGED log
  /\ UNCHANGED <<host, life, site>>

Quiesced ==
  LET stopped == IF host.driver[Here] \in Running THEN SetDriver(Here, "dead") ELSE host
  IN /\ At("quiesced")
     /\ \/ host' = stopped /\ AppendDriver("stop_complete", Quiescing(proc, Here + 1), Off)
        \/ /\ host.driver[Here] \in Running /\ host' \in {host, stopped}
           /\ log' \in {log, IF DriverMay(Here, "stop_failed")
                             THEN DriverEvent(Here, "stop_failed") ELSE log}
           /\ proc' = Off /\ Fault
     /\ UNCHANGED <<life, site>>

----------------------------------------------------------------------------
(***************************************************************************)
(* down: gateways are stopped, every source is copied once, the services   *)
(* are stopped, and the bundle is prepared from the copies.  What was      *)
(* never completely up has no evidence worth that.                         *)
(***************************************************************************)
\* Mutant: nothing tells the bundle that the lifecycle was never completely up.
PartialUp_Unrecorded ==
  /\ At("partial")
  /\ Silently(Freezing(proc))
  /\ UNCHANGED <<log, host, site>>

PartialUp ==
  /\ At("partial")
  /\ IF life.failure = "none"
     THEN Say([life EXCEPT !.failure = "intent"], Freezing(proc))
     ELSE Silently(Freezing(proc))
  /\ UNCHANGED <<log, host, site>>

Removing(p, present) == Loop(p, present, 1, "remove", To(p, IF Up THEN "topology" ELSE "stop"))

AfterService(p) ==
  CASE Here = Gateways /\ Up  -> To(p, "freeze")
    [] Here = Gateways /\ ~Up -> [p EXCEPT !.at = "stop_service", !.t = Ledgers]
    [] Here = Ledgers /\ Up   -> To(p, "prepare")
    [] OTHER                  -> Removing([p EXCEPT !.bad = TRUE], site.objects)

\* _stop_and_attest_container
StopService ==
  LET runs == Here \in site.running
      said == life.stops[Here]
  IN /\ At("stop_service")
     /\ \/ runs /\ said = "unstarted"
           /\ Say([life EXCEPT !.stops[Here] = "pending"], To(proc, "stopped_service"))
        \/ said = "pending" /\ Here \in site.objects /\ Silently(To(proc, "stopped_service"))
        \/ ~runs /\ (said # "pending" \/ Here \notin site.objects)
           /\ Silently(AfterService(proc))
     /\ UNCHANGED <<log, host, site>>

StoppedService ==
  /\ At("stopped_service")
  /\ site' = [site EXCEPT !.running = @ \ {Here}]
  /\ Say([life EXCEPT !.stops[Here] = "complete"], AfterService(proc))
  /\ UNCHANGED <<log, host>>

Attempted == AllCompleted /\ \A t \in PresentDrivers : Eligible(t)
Copied == \A s \in Services : life.leg[s] = "copied"
Unfinished == {s \in Services : life.leg[s] \notin {"copied", "uncopied"}}
Legs(p) == Loop(p, Unfinished, 1, "leg", To(p, "freeze_end"))

\* _freeze_sources: its intents, one of each source, follow the start.
Freeze ==
  /\ At("freeze")
  /\ IF Attempted # AllCompleted THEN Raise
     ELSE IF life.freeze = "complete"
       THEN Silently([proc EXCEPT !.at = "stop_service", !.t = Ledgers])
     ELSE Say([life EXCEPT !.freeze = "started"], Legs(proc))
  /\ UNCHANGED <<log, host, site>>

\* _collect_freeze_leg: a gateway's log outlives it, a ledger has to be running.
Readable(s) == s \in site.objects /\ (s = Ledgers => s \in site.running)

Leg ==
  /\ At("leg")
  /\ \/ /\ life.leg[Here] = "none" /\ Readable(Here)
        /\ site' = [site EXCEPT !.kept[Here] = Sent]
        /\ Say([life EXCEPT !.leg[Here] = "bytes"], To(proc, "leg_end"))
     \/ /\ life.leg[Here] = "none"
        /\ life' = [life EXCEPT !.leg[Here] = "uncopied"]
        /\ proc' = Onward(proc, Unfinished, "leg", To(proc, "freeze_end"))
        /\ IF Readable(Here) THEN Fault ELSE NoFault
        /\ UNCHANGED site
     \/ life.leg[Here] = "bytes" /\ Silently(To(proc, "leg_end")) /\ UNCHANGED site
  /\ UNCHANGED <<log, host>>

LegEnd ==
  /\ At("leg_end")
  /\ Say([life EXCEPT !.leg[Here] = "copied"],
         Onward(proc, Unfinished, "leg", To(proc, "freeze_end")))
  /\ UNCHANGED <<log, host, site>>

FreezeEnd ==
  /\ At("freeze_end")
  /\ Say([life EXCEPT !.freeze = "complete"], [proc EXCEPT !.at = "stop_service", !.t = Ledgers])
  /\ UNCHANGED <<log, host, site>>

\* _failure_request_records and _private_driver_result_sources: a record is of
\* a completed request, a result file is what the journal says of the request.
FailureEvidenceAgrees ==
  \A t \in Tracks :
    /\ t \in host.records <=> log.request[t] = "completed"
    /\ host.result[t] # "none" \/ log.failure[t] # "transport" =>
         IF log.request[t] = "completed" \/ log.failure[t] = "transport"
           THEN host.result[t] = "driver"
         ELSE IF log.request[t] = "failed" THEN host.result[t] \in {"none", "control"}
         ELSE host.result[t] = "none"

CompleteEvidenceAgrees ==
  /\ \A s \in Services : site.kept[s] = Tracks
  /\ host.records = Tracks /\ \A t \in Tracks : host.result[t] = "driver"

\* _prepare_teardown_evidence: whatever fails in it rejects the evidence, and
\* may do so when an earlier bundle is partly overwritten.
Prepare ==
  LET complete == AllCompleted /\ Copied
      class == IF complete THEN "complete" ELSE "incomplete"
      agrees == IF complete THEN CompleteEvidenceAgrees ELSE FailureEvidenceAgrees
      bundled == [site EXCEPT !.provisional = class]
      overwritten == [site EXCEPT !.provisional = "broken"]
      rejected == To(proc, "reject")
  IN /\ At("prepare")
     /\ \/ /\ agrees /\ site' = bundled
           /\ AppendLife([life EXCEPT !.evidence = class], TRUE,
                         [proc EXCEPT !.at = "attest", !.told = complete], rejected)
        \/ ~agrees /\ site' = site /\ Silently(rejected)
        \/ agrees /\ site' \in {site, overwritten} /\ life' = life /\ proc' = rejected /\ Fault
     /\ UNCHANGED <<log, host>>

Attest ==
  /\ At("attest")
  /\ AppendLife([life EXCEPT !.attested = IF proc.told THEN "full" ELSE "empty"], TRUE,
                Removing(proc, site.objects), To(proc, "reject"))
  /\ UNCHANGED <<log, host, site>>

Reject ==
  /\ At("reject")
  /\ Silently(Removing([proc EXCEPT !.bad = TRUE, !.told = FALSE], site.objects))
  /\ UNCHANGED <<log, host, site>>

----------------------------------------------------------------------------
(***************************************************************************)
(* down: every owned object is removed between an intent and a completion, *)
(* then the profile.                                                       *)
(***************************************************************************)
Remove ==
  /\ At("remove")
  /\ IF life.removed[Here] = "unstarted"
     THEN Say([life EXCEPT !.removed[Here] = "pending"], To(proc, "removed"))
     ELSE Silently(To(proc, "removed"))
  /\ UNCHANGED <<log, host, site>>

Removed ==
  /\ At("removed")
  /\ site' = [site EXCEPT !.objects = @ \ {Here}, !.running = @ \ {Here}]
  /\ Say([life EXCEPT !.removed[Here] = "complete"], Removing(proc, site.objects \ {Here}))
  /\ UNCHANGED <<log, host>>

\* _attest_complete_topology_absence
Topology ==
  /\ At("topology")
  /\ IF \A o \in Objects : life.removed[o] = "complete"
     THEN Say([life EXCEPT !.topology = TRUE], To(proc, "stop"))
     ELSE Raise
  /\ UNCHANGED <<log, host, site>>

Stop ==
  /\ At("stop")
  /\ site' = [site EXCEPT !.profile = "stopped", !.running = {}]
  /\ Say([life EXCEPT !.deletion = "intent"], To(proc, "delete"))
  /\ UNCHANGED <<log, host>>

Delete ==
  /\ At("delete")
  /\ site' = [site EXCEPT !.profile = "absent"]
  /\ Say([life EXCEPT !.deletion = "complete"], To(proc, "after"))
  /\ UNCHANGED <<log, host>>

----------------------------------------------------------------------------
(***************************************************************************)
(* down, when the profile is gone: compare the foreign profiles, choose    *)
(* what can be published, publish it and archive the journal.  `redown` is *)
(* a later process, which has only the journal to go by.                   *)
(***************************************************************************)
\* Mutant: the foreign profiles are taken to be what they were before.
After_Assumed ==
  /\ At("after")
  /\ IF life.stage = "journal" THEN Raise
     ELSE IF life.after # "none" THEN Silently(To(proc, "judge"))
     ELSE Say([life EXCEPT !.after = "same"], To(proc, "judge"))
  /\ UNCHANGED <<log, host, site>>

After ==
  /\ At("after")
  /\ IF life.stage = "journal" THEN Raise
     ELSE IF life.after # "none" THEN Silently(To(proc, "judge"))
     ELSE Say([life EXCEPT !.after = IF site.drift THEN "drift" ELSE "same"],
              To(proc, "judge"))
  /\ UNCHANGED <<log, host, site>>

\* The bundle in hand, or the last evidence the journal recorded.
InHand == IF proc.cmd = "down" THEN ~proc.bad ELSE life.failure = "none"
RecordedComplete == life.evidence \in {"collected", "complete"}

Judge ==
  LET class == IF proc.cmd = "down" THEN proc.told ELSE RecordedComplete
  IN /\ At("judge")
     /\ IF ~Bound THEN Silently(To(proc, "archive"))
        ELSE IF Up /\ ~life.topology THEN Raise
        ELSE IF site.public # "none" THEN Silently(To(proc, "recheck"))
        ELSE Silently(
               IF InHand /\ life.after = "same" THEN [proc EXCEPT !.at = "intend", !.told = class]
               ELSE [proc EXCEPT !.told = FALSE,
                       !.at = CASE life.failure = "none"     -> "fail_intent"
                                [] life.failure = "prepared" -> "intend"
                                [] OTHER                     -> "fail_prepare"])
  /\ UNCHANGED <<log, host, site>>

\* post_teardown_failure_bundle_intent and _prepared
FailIntent ==
  /\ At("fail_intent")
  /\ Say([life EXCEPT !.failure = "intent"], To(proc, "fail_prepare"))
  /\ UNCHANGED <<log, host, site>>

FailPrepare ==
  /\ At("fail_prepare")
  /\ IF FailureEvidenceAgrees
     THEN /\ site' = [site EXCEPT !.provisional = "incomplete"]
          /\ Say([life EXCEPT !.failure = "prepared"], To(proc, "intend"))
     ELSE site' = site /\ Raise
  /\ UNCHANGED <<log, host>>

Class(complete) == IF complete THEN "complete" ELSE "incomplete"

\* _journal_authoritative_attestation raises if no bundle was ever attested.
Intend ==
  /\ At("intend")
  /\ IF (life.evidence = "none" /\ life.failure # "prepared") \/ site.provisional = "none"
       THEN Raise
     ELSE IF proc.cmd = "redown" /\ life.intent # "none" THEN Silently(To(proc, "finalize"))
     ELSE Say([life EXCEPT !.intent = Class(proc.told)], To(proc, "finalize"))
  /\ UNCHANGED <<log, host, site>>

\* finalize_publication up to its rename
Publishable ==
  /\ proc.told => life.attested = "full" /\ life.after = "same"
  /\ ~proc.told => life.failure = "prepared" \/ life.attested \in {"none", "empty"}
  /\ site.provisional = Class(proc.told)

Finalize ==
  /\ At("finalize")
  /\ IF Publishable
     THEN /\ site' = [site EXCEPT !.public = Class(proc.told)]
          /\ Silently(To(proc, "publish"))
     ELSE site' = site /\ Raise
  /\ UNCHANGED <<log, host>>

Publish ==
  /\ At("publish")
  /\ AppendLife([life EXCEPT !.published = TRUE], TRUE,
                To(proc, IF proc.cmd = "down" THEN "archive" ELSE "recheck"),
                To(proc, "quarantine"))
  /\ UNCHANGED <<log, host, site>>

\* What fails after the rename takes the bundle back, if it can.
Quarantine ==
  /\ At("quarantine")
  /\ \/ site' = [site EXCEPT !.public = "none"] /\ NoFault
     \/ site' = site /\ Fault
  /\ proc' = Off
  /\ UNCHANGED <<log, host, life>>

\* _publication_recovery_contract: the class to expect of a public bundle comes
\* from the failure transition, or else from the last completed collection.
RecoveredClass == IF life.failure # "none" THEN "incomplete" ELSE life.evidence
RecoveryContract ==
  /\ life.failure # "intent"
  /\ life.failure = "none" =>
       life.attested = (IF RecoveredClass = "complete" THEN "full" ELSE "empty")
  /\ RecoveredClass = life.intent

\* _verify_recovered_publication
Recheck ==
  /\ At("recheck")
  /\ IF RecoveryContract /\ site.public = RecoveredClass
     THEN Say([life EXCEPT !.published = TRUE], To(proc, "archive"))
     ELSE Raise
  /\ UNCHANGED <<log, host, site>>

Archive ==
  /\ At("archive")
  /\ \/ /\ site' = [site EXCEPT !.archived = TRUE, !.state = FALSE]
        /\ proc' = Off /\ NoFault
     \/ /\ site' = [site EXCEPT !.state = FALSE]
        /\ proc' = IF proc.cmd = "down" /\ Bound THEN To(proc, "quarantine") ELSE Off
        /\ Fault
  /\ UNCHANGED <<log, host, life>>

----------------------------------------------------------------------------
(***************************************************************************)
(* The world around it.                                                    *)
(***************************************************************************)
ForeignProfileChanges ==
  /\ life.stage \notin {"none", "journal"} /\ life.after = "none" /\ ~site.drift
  /\ site' = [site EXCEPT !.drift = TRUE]
  /\ Fault
  /\ UNCHANGED <<log, host, proc, life>>

\* The machine stops, and with it the process and everything that runs.
Reboot ==
  /\ site.profile = "running"
  /\ site' = [site EXCEPT !.profile = "stopped", !.running = {}]
  /\ host' = [host EXCEPT !.driver = [t \in Tracks |->
                IF host.driver[t] \in Running THEN "dead" ELSE host.driver[t]]]
  /\ proc' = Off
  /\ Fault
  /\ UNCHANGED <<log, life>>

DownProgram ==
  \/ Load \/ Strand \/ Quiesce \/ Quiesced \/ PartialUp \/ StopService \/ StoppedService
  \/ Freeze \/ Leg \/ LegEnd \/ FreezeEnd \/ Prepare \/ Attest \/ Reject
  \/ Remove \/ Removed \/ Topology \/ Stop \/ Delete
  \/ After \/ Judge \/ FailIntent \/ FailPrepare \/ Intend \/ Finalize \/ Publish
  \/ Quarantine \/ Recheck \/ Archive

Down == DownAbsent \/ DownPresent
Step == UpProgram \/ Collect \/ DownProgram \/ (Program /\ UNCHANGED <<life, site>>)
World == (Drivers /\ UNCHANGED <<life, site>>) \/ (Crash /\ UNCHANGED <<life, site>>)
         \/ ForeignProfileChanges \/ Reboot

LifeInit ==
  /\ Init
  /\ life = [stage |-> "none", created |-> [o \in Objects |-> "unstarted"],
             removed |-> [o \in Objects |-> "unstarted"],
             stops |-> [s \in Services |-> "unstarted"], freeze |-> "none",
             leg |-> [s \in Services |-> "none"], evidence |-> "none",
             attested |-> "none", failure |-> "none", topology |-> FALSE,
             deletion |-> "none", after |-> "none", intent |-> "none",
             published |-> FALSE]
  /\ site = [profile |-> "absent", objects |-> {}, running |-> {}, state |-> FALSE,
             kept |-> [s \in Services |-> {}], provisional |-> "none",
             public |-> "none", archived |-> FALSE, drift |-> FALSE]

LifeNext ==
  \/ UpBegins \/ (\E cmd \in {"readiness", "run"} : Use(cmd)) \/ CollectBegins \/ Down
  \/ Step \/ World

LifeSpec == LifeInit /\ [][LifeNext]_lifecycle

\* Programs run on, drivers do what they were told, and whoever began a
\* lifecycle repeats `down`, as every refusal of the controller asks for.
FairSpec ==
  /\ LifeSpec
  /\ WF_lifecycle(Step)
  /\ WF_lifecycle(\E t \in Tracks : (DriverSends(t) \/ DriverReadsEof(t)) /\ NoFault
                                      /\ UNCHANGED <<life, site>>)
  /\ SF_lifecycle(Down)
----------------------------------------------------------------------------
(***************************************************************************)
(* What a lifecycle promises.                                              *)
(***************************************************************************)
\* A bundle that calls itself complete stands for a lifecycle in which every
\* request was sent once and completed, and is in the copied sources, of which
\* nothing is left, and which left the foreign profiles as they were
\* (_prepare_teardown_evidence, down, finalize_publication).
CompleteIsTrue ==
  site.public = "complete" =>
    /\ AllCompleted /\ \A t \in Tracks : host.sent[t] = 1
    /\ \A s \in Services : site.kept[s] = Tracks
    /\ ~site.drift
    /\ site.profile = "absent" /\ site.objects = {}

\* What was copied of a source is what there is to copy at any later time: no
\* request arrives behind the freeze (_quiesce_driver_for_teardown,
\* _freeze_before_service_teardown, _freeze_sources).
FrozenIsFinal ==
  \A s \in Services : life.leg[s] \in {"bytes", "copied"} => site.kept[s] = Sent

\* What a bundle says of the lifecycle behind it (LocalLifecycle).
Verdict == CASE life.after = "none" -> "none"
             [] life.after = "same" -> "same"
             [] OTHER               -> "changed"

Promised == INSTANCE LocalLifecycle WITH
  sent <- Sent, frozen <- life.freeze = "complete", lost <- life.failure # "none",
  gone <- life.deletion = "complete", verdict <- Verdict,
  public <- site.public, archived <- site.archived

\* The lifecycle keeps those promises, whatever dies in it and however often
\* `down` is repeated (down, _prepare_teardown_evidence, finalize_publication).
PromisesKept == Promised!Spec

----------------------------------------------------------------------------
(***************************************************************************)
(* Where the controller leaves a lifecycle to its operator: every further  *)
(* `down` raises.                                                          *)
(***************************************************************************)
\* A profile, or an object, that the journal cannot call its own.
Unowned ==
  \/ site.profile # "absent" /\ ~Owned
  \/ ~site.state /\ \E o \in site.objects : life.created[o] = "pending"

\* up died before it had noted the foreign profiles.
NoSnapshot == life.stage = "journal"

\* An ambiguous driver whose history admits no stop any more.
Unstoppable(t) ==
  /\ t \in site.objects /\ Authority(t) = "ambiguous"
  /\ IF log.stops[t] = "pending" THEN log.driver[t] # "stop_intent"
                                 ELSE ~DriverMay(t, "stop_intent")

\* A file of a request that the journal says failed, after all else is gone.
Disagreeing == Bound /\ site.profile = "absent" /\ ~FailureEvidenceAgrees

\* A rejected bundle and a process that died before it could say so.
Unattested ==
  /\ proc = Off /\ Bound /\ site.profile = "absent"
  /\ life.failure = "none" /\ life.after = "same"
  /\ \/ life.evidence = "none" \/ site.provisional = "broken"
     \/ life.attested # (IF life.evidence = "incomplete" THEN "empty" ELSE "full")

NeedsAHand == Unowned \/ NoSnapshot \/ (\E t \in Tracks : Unstoppable(t))
              \/ Disagreeing \/ Unattested

\* A lifecycle that was begun is archived if only `down` is repeated often
\* enough, but for the situations above (down after crashes at any point).
DownEnds == life.stage # "none" ~> (site.archived \/ NeedsAHand)

\* "Any driver whose request status is ambiguous makes the bundle incomplete and
\* nonpromotable while exact owned cleanup continues" (the in-network request
\* driver design, 9): its container is removed.  An intent to clean it up, after
\* which the history admits no stop, is in the way (_quiesce_driver_for_teardown).
AmbiguousIsRemoved ==
  \A t \in Tracks :
    (Up /\ t \in site.objects /\ Authority(t) = "ambiguous") ~> (t \notin site.objects)
=============================================================================
