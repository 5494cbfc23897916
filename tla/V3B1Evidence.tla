---------------------------- MODULE V3B1Evidence ----------------------------
(***************************************************************************)
(* The contents of V3B-1 evidence (tools/v3b1_local_envoy.py): what `down` *)
(* copies of the three sources of each track while services may still be   *)
(* writing them (_freeze_sources, _collect_freeze_leg), which bundle       *)
(* _prepare_teardown_evidence makes of the copies, and what the verifiers  *)
(* of a public bundle want of it.  V3B1Lifecycle says when a source is     *)
(* copied and a bundle published; here it is said what they hold.          *)
(*                                                                         *)
(* A process may die, a command fail and the machine restart between any   *)
(* two steps; `down` is repeated.  What a gateway logs is over before a    *)
(* source is copied: it is stopped first.  A request that nobody answered  *)
(* may still be at work in a service.                                      *)
(*                                                                         *)
(* A source is the sequence of what was appended to it: a line is "part"   *)
(* and then "rest".  A file is <<its contents>>, or <<>> when there is     *)
(* none; a digest and a size are the contents they are taken of.           *)
(*                                                                         *)
(* Abstracted: identities, timestamps, the intents that follow the start   *)
(* of a freeze, requests and driver results (V3B1Lifecycle's               *)
(* FailureEvidenceAgrees), a source that is not there or too large: each   *)
(* service creates its file before it serves.                              *)
(***************************************************************************)
EXTENDS Naturals, Sequences, SequencesExt

CONSTANTS
  NumTracks,  \* tracks are 1..NumTracks
  Denied,     \* the tracks the closed result expects a denial of
  MaxFaults,  \* failures, deaths, restarts
  MaxChunks   \* appended to one source

Tracks == 1..NumTracks

ASSUME EvidenceAssumption ==
  /\ NumTracks \in Nat \ {0} /\ Denied \subseteq Tracks
  /\ MaxFaults \in Nat /\ MaxChunks \in Nat

VARIABLES
  world,  \* per track the reply and what the sources hold; what still runs
  log,    \* the journal: freeze, bytes and terminals of the legs, bundle
  disk,   \* the private copies, the provisional and the public bundle
  proc,   \* the process that runs `down`
  faults

evidence == <<world, log, disk, proc, faults>>

----------------------------------------------------------------------------
Ledgers == {"authz", "target"}
Sources == {"envoy"} \cup Ledgers
Legs == Tracks \X Sources

\* execution_order: the access logs, then the ledgers track by track.
LegAt(n) ==
  IF n <= NumTracks THEN <<n, "envoy">>
  ELSE LET i == n - NumTracks - 1
       IN <<1 + i \div 2, IF i % 2 = 0 THEN "authz" ELSE "target">>

Line == <<"part", "rest">>
Contents == {<<>>, Line, Line \o Line}    \* what parses
Records(c) == Len(c) \div 2

\* 200 and 403 with a decision's digest; 500 is the target's own answer.
Replies == {200, 403, 500}
Completed == \A t \in Tracks : world.reply[t] \in Replies

Fault == faults < MaxFaults /\ faults' = faults + 1
NoFault == UNCHANGED faults

----------------------------------------------------------------------------
(***************************************************************************)
(* A freeze, leg by leg.                                                   *)
(***************************************************************************)
Here == LegAt(proc.n)
At(place) == proc.at = place
Go(place) == proc' = [proc EXCEPT !.at = place]
Next1(p) == [p EXCEPT !.at = "leg", !.n = @ + 1, !.copied = <<>>, !.error = "none"]
Off == [at |-> "off", n |-> 1, seen |-> <<>>, copied |-> <<>>, error |-> "none"]
Raise == proc' = Off

\* A service still answers docker exec and cp; its log outlives a gateway.
Readable(leg) == leg[2] = "envoy" \/ world.serving
Live(leg) == world.live[leg]

Expected(leg) == IF leg[2] = "target" /\ leg[1] \in Denied THEN 0 ELSE 1

\* _source_malformed_class
Malformed(leg, c) ==
  \/ c \notin Contents
  \/ IF Completed THEN Records(c) # Expected(leg) ELSE Records(c) > 1

\* Down, until there is a public bundle; what it removed stays removed.
Down ==
  /\ At("off") /\ disk.public = <<>>
  /\ Go(IF world.gone THEN "judge" ELSE IF log.freeze = "none" THEN "start" ELSE "leg")
  /\ UNCHANGED <<world, log, disk, faults>>

Start ==
  /\ At("start")
  /\ log' = [log EXCEPT !.freeze = "started"]
  /\ Go("leg")
  /\ UNCHANGED <<world, disk, faults>>

\* _reattest_frozen_status
Reattests(leg) == disk.file[leg] = log.end[leg][1].copied

\* Mutant: a file that an earlier process left is taken for the copy.
Leg_AdoptsFile ==
  /\ At("leg") /\ proc.n <= 3 * NumTracks
  /\ IF log.end[Here] # <<>>
     THEN proc' = IF Reattests(Here) THEN Next1(proc) ELSE Off
     ELSE /\ log.freeze = "started"
          /\ proc' = IF disk.file[Here] # <<>>
                     THEN [proc EXCEPT !.at = "compare", !.seen = disk.file[Here]]
                     ELSE [proc EXCEPT !.at = "observe"]
  /\ UNCHANGED <<world, log, disk, faults>>

\* A leg is over, or its bytes are the journal's, or what lies at its path is
\* put aside and it is copied.
Leg ==
  /\ At("leg") /\ proc.n <= 3 * NumTracks
  /\ CASE log.end[Here] # <<>> ->
            /\ proc' = IF Reattests(Here) THEN Next1(proc) ELSE Off
            /\ UNCHANGED disk
       [] log.end[Here] = <<>> /\ log.bytes[Here] # <<>> ->
            /\ proc' = IF disk.file[Here] = log.bytes[Here]
                       THEN [proc EXCEPT !.at = "terminal", !.copied = disk.file[Here]]
                       ELSE Off
            /\ UNCHANGED disk
       [] OTHER ->
            /\ disk' = [disk EXCEPT !.file[Here] = <<>>]
            /\ Go("observe")
  /\ UNCHANGED <<world, log, faults>>

\* What the container cannot be asked for ends the leg without a copy.
CommandFailed == proc' = [proc EXCEPT !.at = "terminal", !.copied = <<>>,
                                      !.error = "command_failed"]

\* docker logs is the copy; a ledger is probed for its size and digest first.
Observe ==
  /\ At("observe")
  /\ \/ /\ Readable(Here)
        /\ proc' = [proc EXCEPT !.seen = <<Live(Here)>>,
                                !.at = IF Here[2] = "envoy" THEN "compare" ELSE "copy"]
        /\ disk' = IF Here[2] = "envoy"
                   THEN [disk EXCEPT !.file[Here] = <<Live(Here)>>] ELSE disk
        /\ NoFault
     \/ ~Readable(Here) /\ CommandFailed /\ disk' = disk /\ NoFault
     \/ Readable(Here) /\ CommandFailed /\ disk' = disk /\ Fault
  /\ UNCHANGED <<world, log>>

CopySucceeds ==
  /\ Readable(Here)
  /\ disk' = [disk EXCEPT !.file[Here] = <<Live(Here)>>]
  /\ Go("compare")
  /\ NoFault

\* Mutant: what docker cp left when it failed stays where it is.
Copy_LeavesPart ==
  /\ At("copy")
  /\ \/ CopySucceeds
     \/ /\ Readable(Here) /\ Fault
        /\ disk' = [disk EXCEPT !.file[Here] = <<Live(Here)>>]
        /\ Go("export")
  /\ UNCHANGED <<world, log>>

\* docker cp; what it left when it failed is put aside.
Copy ==
  /\ At("copy")
  /\ \/ CopySucceeds
     \/ Readable(Here) /\ Fault /\ disk' = disk /\ Go("export")
  /\ UNCHANGED <<world, log>>

\* The container prints its own file, which has to be what the probe saw.
Export ==
  /\ At("export")
  /\ \/ /\ Readable(Here) /\ proc.seen = <<Live(Here)>> /\ NoFault
        /\ disk' = [disk EXCEPT !.file[Here] = <<Live(Here)>>]
        /\ Go("compare")
     \/ /\ IF Readable(Here) /\ proc.seen = <<Live(Here)>> THEN Fault ELSE NoFault
        /\ CommandFailed
        /\ UNCHANGED disk
  /\ UNCHANGED <<world, log>>

\* evidence_freeze_leg_bytes_persisted, of a copy that is what was seen.
Persist ==
  LET copy == disk.file[Here]
      same == copy = proc.seen
  IN /\ At("compare")
     /\ log' = IF same THEN [log EXCEPT !.bytes[Here] = copy] ELSE log
     /\ proc' = [proc EXCEPT !.at = "terminal", !.copied = copy,
                             !.error = IF same THEN "none" ELSE "mismatch"]
     /\ UNCHANGED <<world, disk, faults>>

Kept(leg) ==
  /\ log.end[leg] # <<>>
  /\ log.end[leg][1].status \in {"copied", "malformed"}

\* The journal's rule for a terminal: bytes of its own, if and only if kept.
Admitted(leg, end) ==
  log.bytes[leg] = IF end.status \in {"copied", "malformed"} THEN end.copied ELSE <<>>

\* source_collection_terminal
Terminal ==
  LET status == IF proc.error # "none" THEN proc.error
                ELSE IF Malformed(Here, proc.copied[1]) THEN "malformed" ELSE "copied"
      end == [status |-> status, copied |-> proc.copied]
  IN /\ At("terminal")
     /\ IF Admitted(Here, end)
        THEN log' = [log EXCEPT !.end[Here] = <<end>>] /\ proc' = Next1(proc)
        ELSE log' = log /\ Raise
     /\ UNCHANGED <<world, disk, faults>>

Promotable == Completed /\ \A leg \in Legs : log.end[leg][1].status = "copied"

\* evidence_freeze_complete; then the services are stopped, and their ledgers
\* are gone with them.
Frozen ==
  /\ At("leg") /\ proc.n > 3 * NumTracks
  /\ log' = [log EXCEPT !.freeze = IF Promotable THEN "promotable" ELSE "partial"]
  /\ world' = [world EXCEPT !.serving = FALSE]
  /\ Go("prepare")
  /\ UNCHANGED <<disk, faults>>

----------------------------------------------------------------------------
(***************************************************************************)
(* The bundle.                                                             *)
(***************************************************************************)
Answer(denied) == IF denied THEN 403 ELSE 200

\* A decision record holds the status that authorization answered.
Decided(t) == IF world.reply[t] = 403 THEN 403 ELSE 200

\* Mutant: the decisions are joined, the access records are only counted.
Joins_ByDecision(data) ==
  \A t \in Tracks :
    /\ Records(data[<<t, "authz">>]) = 1 /\ Records(data[<<t, "envoy">>]) = 1
    /\ Decided(t) = Answer(t \in Denied)

\* join_evidence: one decision and one access record of each request, with one
\* status, one marker behind a permit and none behind a denial, and the central
\* result.
Joins(data) ==
  \A t \in Tracks :
    /\ Records(data[<<t, "authz">>]) = 1 /\ Records(data[<<t, "envoy">>]) = 1
    /\ Decided(t) = world.reply[t]
    /\ Records(data[<<t, "target">>]) = IF world.reply[t] = 200 THEN 1 ELSE 0
    /\ world.reply[t] = Answer(t \in Denied)

\* Mutant: malformed copies are preserved with the others.
Preserved_Malformed ==
  [leg \in Legs |-> IF Kept(leg) THEN log.end[leg][1].copied[1] ELSE <<>>]

\* A bundle keeps the copies that are not malformed.
Preserved ==
  [leg \in Legs |-> IF log.end[leg][1].status = "copied"
                    THEN log.end[leg][1].copied[1] ELSE <<>>]

Bundle(class, data) == [class |-> class, data |-> data]
Nothing == [leg \in Legs |-> <<>>]
Broken == Bundle("broken", Nothing)

\* _prepare_teardown_evidence: files are written one by one over what an
\* earlier process left, and then attested; whatever fails rejects them.
Prepare ==
  LET acceptable == /\ \A leg \in Legs : Reattests(leg)
                    /\ log.freeze = "promotable" => Joins(Preserved)
  IN /\ At("prepare")
     /\ \/ acceptable /\ disk' = [disk EXCEPT !.bundle = Broken] /\ Go("attest") /\ NoFault
        \/ ~acceptable /\ disk' = disk /\ Go("reject") /\ NoFault
        \/ acceptable /\ disk' = [disk EXCEPT !.bundle = Broken] /\ Go("reject") /\ Fault
     /\ UNCHANGED <<world, log>>

Attest ==
  LET bundle == Bundle(IF log.freeze = "promotable" THEN "complete" ELSE "incomplete",
                       Preserved)
  IN /\ At("attest")
     /\ disk' = [disk EXCEPT !.bundle = bundle]
     /\ log' = [log EXCEPT !.attested = <<bundle>>]
     /\ Go("remove")
     /\ UNCHANGED <<world, faults>>

\* Everything is removed.  Rejected evidence, or foreign profiles that are not
\* what they were, make it a failure.
TearDown ==
  /\ At("remove") \/ At("reject")
  /\ world' = [world EXCEPT !.gone = TRUE]
  /\ \/ At("remove") /\ Go("publish") /\ NoFault
     \/ At("remove") /\ Go("replace") /\ Fault
     \/ At("reject") /\ Go("replace") /\ NoFault
  /\ UNCHANGED <<log, disk>>

\* A later process has only the journal to go by, and the foreign profiles.
Judge ==
  /\ At("judge")
  /\ \/ /\ CASE log.failure = "intent" -> Go("prepare_failure")
               [] log.failure # "intent" /\ log.attested # <<>> -> Go("publish")
               [] OTHER -> Raise
        /\ NoFault
     \/ log.failure = "none" /\ Go("replace") /\ Fault
  /\ UNCHANGED <<world, log, disk>>

\* post_teardown_failure_bundle_intent
Replace ==
  /\ At("replace")
  /\ log' = [log EXCEPT !.failure = "intent"]
  /\ Go("prepare_failure")
  /\ UNCHANGED <<world, disk, faults>>

\* _prepare_failure_provisional with nothing but the requests
PrepareFailure ==
  LET bundle == Bundle("incomplete", Nothing)
  IN /\ At("prepare_failure")
     /\ disk' = [disk EXCEPT !.bundle = bundle]
     /\ log' = [log EXCEPT !.failure = "prepared", !.attested = <<bundle>>]
     /\ Go("publish")
     /\ UNCHANGED <<world, faults>>

----------------------------------------------------------------------------
(***************************************************************************)
(* Publication.                                                            *)
(***************************************************************************)
\* _validate_provisional_tree
TreeStands(bundle) ==
  \A t \in Tracks :
    LET c == bundle.data[<<t, "authz">>]
    IN c \in Contents /\ IF bundle.class = "complete" THEN Records(c) = 1
                                                      ELSE Records(c) <= 1

\* A complete bundle says how many records each source held, and holds them.
SourcesCounted(bundle) ==
  bundle.class = "complete" =>
    \A leg \in Legs : Records(bundle.data[leg]) = Expected(leg)

Publishable(bundle) ==
  log.attested = <<bundle>> /\ TreeStands(bundle) /\ SourcesCounted(bundle)

\* _validate_presenter_records and _validate_failure_presenter_records
AcceptedAsProof(data) ==
  /\ \A leg \in Legs : data[leg] \in Contents /\ Records(data[leg]) = Expected(leg)
  /\ Joins(data)
AcceptedAsFailure(data) ==
  \A leg \in Legs : data[leg] \in Contents /\ Records(data[leg]) <= 1

Accepts(bundle) ==
  CASE bundle.class = "complete"   -> AcceptedAsProof(bundle.data)
    [] bundle.class = "incomplete" -> AcceptedAsFailure(bundle.data)
    [] OTHER                       -> FALSE

\* finalize_publication, which takes back what its verifier does not accept
Publish ==
  /\ At("publish")
  /\ disk' = IF Publishable(disk.bundle) /\ Accepts(disk.bundle)
             THEN [disk EXCEPT !.public = <<disk.bundle>>] ELSE disk
  /\ Raise
  /\ UNCHANGED <<world, log, faults>>

----------------------------------------------------------------------------
(***************************************************************************)
(* The world around it.                                                    *)
(***************************************************************************)
\* What is appended next: a line's beginning, or the rest of one.
Chunks(c) == {"part"} \cup (IF c # <<>> /\ Last(c) = "part" THEN {"rest"} ELSE {})

\* A service goes on with a request that was given up.
Late(t, s) ==
  /\ world.busy[t] = s /\ world.serving
  /\ Len(Live(<<t, s>>)) < MaxChunks
  /\ \E chunk \in Chunks(Live(<<t, s>>)) :
       world' = [world EXCEPT !.live[<<t, s>>] = Append(@, chunk)]
  /\ UNCHANGED <<log, disk, proc, faults>>

\* The process ends; docker cp leaves what it has written so far.
Die ==
  /\ ~At("off") /\ Fault
  /\ proc' = Off
  /\ disk' \in {disk} \cup
       (IF At("copy") THEN {[disk EXCEPT !.file[Here] = <<c>>] : c \in Prefixes(Live(Here))}
                      ELSE {})
  /\ UNCHANGED <<world, log>>

Reboot ==
  /\ world.serving /\ Fault
  /\ world' = [world EXCEPT !.serving = FALSE]
  /\ proc' = Off
  /\ UNCHANGED <<log, disk>>

\* What stands in the sources of a track when its gateway has been stopped:
\* an answer came after the records it is told by, but the access log may have
\* lost its line; a request without an answer may be anywhere, also behind a
\* record that failed and the error record that followed.
Lines == {<<>>, Line}
Cases ==
  LET case(reply, busy, a, e, g) ==
        [reply |-> reply, busy |-> busy, authz |-> a, envoy |-> e, target |-> g]
  IN {case(0, "none", <<>>, <<>>, <<>>)}
     \cup {case(200, "none", Line, e, Line) : e \in Lines}
     \cup {case(403, "none", Line, e, <<>>) : e \in Lines}
     \cup {case(500, "none", Line, e, g) : e \in Lines, g \in Lines \cup {<<"part">>}}
     \cup {case(0, "authz", <<>>, e, <<>>) : e \in Lines}
     \cup {case(0, "target", Line, e, <<>>) : e \in Lines}
     \cup {case(0, "none", a, e, <<>>) : a \in {Line \o Line, <<"part">> \o Line}, e \in Lines}

EvidenceInit ==
  /\ \E f \in [Tracks -> Cases] :
       world = [reply |-> [t \in Tracks |-> f[t].reply],
                busy |-> [t \in Tracks |-> f[t].busy],
                live |-> [leg \in Legs |-> f[leg[1]][leg[2]]],
                serving |-> TRUE, gone |-> FALSE]
  /\ log = [freeze |-> "none", bytes |-> [leg \in Legs |-> <<>>],
            end |-> [leg \in Legs |-> <<>>], attested |-> <<>>, failure |-> "none"]
  /\ disk = [file |-> [leg \in Legs |-> <<>>], bundle |-> Broken, public |-> <<>>]
  /\ proc = Off
  /\ faults = 0

Program ==
  \/ Start \/ Leg \/ Observe \/ Copy \/ Export \/ Persist \/ Terminal \/ Frozen
  \/ Prepare \/ Attest \/ TearDown \/ Judge \/ Replace \/ PrepareFailure \/ Publish

EvidenceNext ==
  \/ Down \/ Program \/ (\E t \in Tracks, s \in Ledgers : Late(t, s)) \/ Die \/ Reboot

EvidenceSpec == EvidenceInit /\ [][EvidenceNext]_evidence

----------------------------------------------------------------------------
(***************************************************************************)
(* What the evidence is worth.                                             *)
(***************************************************************************)
\* A kept copy is a beginning of its source, and all of it, for good, where the
\* request was answered: neither a copy that a dead process or a failed command
\* left behind nor a line that was just being written stands for a source that
\* holds more (_freeze_sources, _collect_freeze_leg).
FrozenIsSource ==
  \A leg \in Legs :
    Kept(leg) =>
      LET copy == log.end[leg][1].copied
      IN /\ IsPrefix(copy[1], Live(leg))
         /\ world.reply[leg[1]] \in Replies => copy[1] = Live(leg)

\* What any later `down` looks for at a path is there: a terminal never stands
\* beside a file it did not attest, which would stop every teardown from then on
\* (_attest_frozen_status_bytes).
EveryRetryReads == \A leg \in Legs : log.end[leg] # <<>> => Reattests(leg)

\* A public bundle that is complete holds all that the sources ever held, one
\* line each, of requests that were answered as the closed result expects
\* (_source_malformed_class, join_evidence, verify_presenter_bundle).
CompleteIsNominal ==
  disk.public # <<>> /\ disk.public[1].class = "complete" =>
    \A t \in Tracks :
      /\ world.reply[t] = Answer(t \in Denied)
      /\ \A s \in Sources : disk.public[1].data[<<t, s>>] = Live(<<t, s>>)
      /\ world.live[<<t, "target">>] = IF t \in Denied THEN <<>> ELSE Line

\* What was prepared and attested passes the checks of its publication: no
\* evidence that `down` accepted is refused when all it was taken from is gone
\* (_prepare_teardown_evidence, finalize_publication, the two verifiers).
AttestedIsAccepted ==
  log.attested = <<disk.bundle>> => Publishable(disk.bundle) /\ Accepts(disk.bundle)
=============================================================================
