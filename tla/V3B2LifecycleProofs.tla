------------------------ MODULE V3B2LifecycleProofs ------------------------
(***************************************************************************)
(* What the V3B-2 controller and the host keep between them, for any       *)
(* number of tracks, any programs and any number of faults.                *)
(*                                                                         *)
(* A step either writes the journal, and leaves the host alone but for the *)
(* private files, or carries out a command, and leaves every pair of the   *)
(* journal alone.  Kinds says which; Pairs, Hosts and Actors say what      *)
(* that does to a pair, to the host and to the commands still in flight,   *)
(* and the invariants that relate the two follow from them.                *)
(***************************************************************************)
EXTENDS V3B2Lifecycle, V3B2JournalProofs

----------------------------------------------------------------------------
Profiles == {"absent", "running", "stopped", "orphan"}
Clusters == {"absent", "present", "broken"}
Places == {"off", "configure", "step", "captured", "cleared", "latch", "recover",
           "act", "observe", "last", "answer", "prove", "cleanup", "clear", "reprove"}
Scripts == Forward \cup {"none", "unwind", "down", "recover"}
ActivePaths == {"docker_config", "kind_config"}
Captures == [served : SUBSET Tracks, version : Nat]

Worlds ==
  [contract : BOOLEAN, profile : Profiles, paths : SUBSET ActivePaths, cluster : Clusters,
   applied : SUBSET SetupFamilies,
   driver : [Tracks -> {"none", "waiting", "exited", "broken"}],
   sent : [Tracks -> Nat], drained : BOOLEAN, version : Nat,
   captured : {<<>>} \cup {<<s>> : s \in Captures},
   published : BOOLEAN, drift : BOOLEAN]

Runs == [prog : Scripts, at : Places, op : Ops \cup {NoOp},
         top : BOOLEAN, bad : BOOLEAN]

\* Where a pending operation is in the hands of the process.
Busy == {"act", "observe", "last", "answer", "prove", "cleanup", "clear", "reprove"}
\* Where it is not.
Free == {"off", "step", "latch", "recover"}
\* Where only an operation with a terminal of its own can be.
Judging == {"observe", "last", "prove", "cleanup", "clear", "reprove"}

\* The host, the process and what outlived it are well formed.
LTypeOK ==
  /\ TypeOK /\ committed
  /\ world \in Worlds
  /\ inflight \in Ops \cup {NoOp}
  /\ run \in Runs

\* A command of op may still take effect, in the process or behind it.
Acting(op) ==
  \/ run.at \in {"act", "cleanup"} /\ run.op = op
  \/ inflight = op

(***************************************************************************)
(* The process: what it holds in its hands is pending, a teardown runs in  *)
(* a latched journal, and a command is claimed before it may take effect.  *)
(***************************************************************************)
InHand ==
  /\ run.at \in Busy => run.op \in Ops /\ stage[run.op] = "pending"
  /\ run.at \in Judging => run.op[1] # "request"
  /\ run.at = "answer" => run.op[1] = "request" /\ world.sent[run.op[2]] > 0
  /\ run.at = "cleanup" => run.op[1] \in Cleanups
  /\ run.at = "act" => run.op[1] \notin Cleanups /\ (latched => run.op[1] = "envoy_quiesce")

Following ==
  /\ run.prog \in Modes => mode = run.prog
  /\ run.prog = "none" => run.at = "off"
  /\ run.top => run.at \in {"prove", "cleanup", "clear", "reprove"}
  /\ run.top \/ run.at \in {"latch", "recover"} => run.prog \in {"unwind", "recover"}
  /\ run.at = "configure" => run.prog \in Forward \cup {"unwind"}
  /\ run.prog \in {"unwind", "recover"} /\ run.at \notin {"configure", "latch", "recover"} =>
       latched \/ run.top

OnceClaimed ==
  /\ inflight # NoOp => stage[inflight] # "none"
  /\ run.at = "act" => inflight # run.op
  /\ Orphans \/ inflight = NoOp

(***************************************************************************)
(* The journal: what the intents of a lifecycle rest on, beyond what       *)
(* V3B2Journal itself asks for.                                            *)
(***************************************************************************)
SetupChain ==
  \A i \in 1..6 : Stage(SetupSequence[i + 1]) # "none" => Done(SetupSequence[i])

HistoryLinks ==
  /\ Stage("evidence_freeze") # "none" => Done("readiness")
  /\ Stage("cluster_delete") # "none" => ClusterOwned
  /\ Stage("cluster_absence_proof") # "none" => Done("cluster_delete")
  /\ Stage("profile_stop") # "none" /\ ClusterOwned => Done("cluster_absence_proof")
  /\ comparison # "none" => Done("foreign_snapshot_comparison")

\* Only the start of the profile is ever failed.
OnlyStartFails ==
  \A op \in Ops : stage[op] = "failed" => op = Op("profile_start")

\* Destruction was intended behind the evidence, once and for all.
DestructionLinks ==
  /\ Stage("cluster_delete") # "none" =>
       /\ latched \/ Done("readiness")
       /\ Done("readiness") => Done("evidence_freeze")
  /\ Stage("profile_stop") # "none" =>
       /\ Stage("cluster_create") # "pending"
       /\ Stage("cluster_create") = "none" => latched

(***************************************************************************)
(* The host against the journal.                                           *)
(***************************************************************************)
Sent(t) ==
  LET op == <<"request", t>> IN
  /\ Acting(op) => world.sent[t] = 0
  /\ world.sent[t] <= 1
  /\ world.sent[t] > 0 => stage[op] # "none"
  /\ stage[op] = "complete" => world.sent[t] > 0

ProfileLinks ==
  /\ Acting(Op("profile_start")) =>
       /\ world.profile = "absent"
       /\ Stage("profile_start") \notin {"complete", "abandoned"}
       /\ Orphans \/ Stage("profile_start") = "pending"
  /\ Stage("profile_start") = "failed" =>
       Orphans \/ world.profile = "absent"
  /\ Done("profile_absence_proof") /\ Stage("profile_start") # "failed" =>
       world.profile = "absent"
  /\ Done("profile_absence_proof") => world.paths \subseteq {"kind_config"}

ClusterLinks ==
  /\ Acting(Op("cluster_create")) =>
       world.cluster = "absent" /\ Stage("cluster_create") = "pending"
  /\ Stage("cluster_create") = "none" => world.cluster = "absent"
  /\ Stage("profile_stop") # "none" => world.cluster = "absent"
  /\ Done("cluster_delete") => world.cluster = "absent"

EvidenceLinks ==
  /\ world.captured # <<>> => world.captured[1].served \subseteq Served
  /\ run.at = "captured" \/ Stage("evidence_freeze") # "none" =>
       /\ world.captured # <<>>
       /\ {t \in Tracks : Request(t) = "complete"} \subseteq world.captured[1].served
       /\ Orphans \/ world.captured[1].served = Served
  /\ run.at = "act" /\ run.op[1] = "request" => Stage("evidence_freeze") = "none"

PublicationLinks ==
  /\ world.published \/ Acting(Op("publication")) => Stage("publication") # "none"
  /\ Stage("publication") # "none" =>
       /\ \A op \in Ops : op # Op("publication") => stage[op] # "pending"
       /\ SetupLeft = {} /\ Done("evidence_freeze")
       /\ ~SomeFailed /\ ~SomeAbandoned
       /\ mode = "nominal" => \A t \in Tracks : Request(t) = "complete"
       /\ mode = "request-free" => \A t \in Tracks : Start(t) # "none"

LInv ==
  /\ LTypeOK /\ IInv
  /\ InHand /\ Following /\ OnceClaimed
  /\ SetupChain /\ HistoryLinks /\ OnlyStartFails /\ DestructionLinks
  /\ \A t \in Tracks : Sent(t)
  /\ ProfileLinks /\ ClusterLinks /\ DestructionInOrder
  /\ EvidenceLinks /\ PublicationLinks

----------------------------------------------------------------------------
\* The pairs the scripts name.
LEMMA Names ==
  /\ \A f \in SetupFamilies \cup CleanupFamilies \cup {"publication"} : Op(f) \in Ops
  /\ \A f \in {"driver_start", "driver_cancel", "request"}, t \in Tracks : <<f, t>> \in Ops
  /\ NoOp \notin Ops
BY OpsOf, NumTracksAssumption
   DEF Ops, NoOp, SingleFamilies, SetupFamilies, CleanupFamilies, TrackFamilies

\* The least of a set of numbers is one of them.
LEMMA LeastIn ==
  ASSUME NEW S \in SUBSET Nat, S # {}
  PROVE  Least(S) \in S /\ \A u \in S : Least(S) <= u
BY SomeLeast DEF Least

----------------------------------------------------------------------------
(***************************************************************************)
(* What the command of an operation may leave behind, in part or in full.  *)
(***************************************************************************)
Outcome(op) == Effect(op) \cup PartialEffect(op) \cup {world}

\* What such an outcome may differ in, and for which operation.
ProfileTouched(w, op) ==
  w.profile # world.profile =>
    \/ op[1] = "profile_start" /\ world.profile = "absent"
    \/ op[1] = "profile_stop" /\ world.profile = "running" /\ w.profile = "stopped"
    \/ /\ op[1] = "profile_delete" /\ world.profile \in {"stopped", "orphan"}
       /\ w.profile \in {"absent", "orphan"} /\ w.cluster = "absent"

ClusterTouched(w, op) ==
  w.cluster # world.cluster =>
    \/ /\ op[1] = "cluster_create" /\ world.cluster = "absent"
       /\ world.profile = "running"
    \/ op[1] = "cluster_delete" /\ world.cluster = "present"
       /\ w.cluster \in {"absent", "broken"} /\ world.profile = "running"
    \/ op[1] = "profile_delete" /\ w.cluster = "absent"

Touched(w, op) ==
  /\ w \in Worlds
  /\ w.paths = world.paths /\ w.captured = world.captured
  /\ ProfileTouched(w, op) /\ ClusterTouched(w, op)
  /\ \/ w.sent = world.sent
     \/ op[1] = "request" /\ w.sent = [world.sent EXCEPT ![op[2]] = @ + 1]
  /\ w.published = world.published \/ (op[1] = "publication" /\ w.published)
  /\ \/ w.applied \subseteq world.applied
     \/ op[1] \in {"image_import", "image_load", "calico_apply", "application_apply"}

\* A command touches only what it is for (the fixed commands of the registry).
LEMMA Outcomes ==
  ASSUME LTypeOK, NEW op \in Ops, NEW w \in Outcome(op)
  PROVE  Touched(w, op)
<1>t. world \in Worlds
  BY DEF LTypeOK
<1>0. CASE w = world
  BY <1>t, <1>0 DEF Touched, ProfileTouched, ClusterTouched
<1>1. CASE op[1] = "profile_start" /\ w # world
  <2>1. \/ w = [world EXCEPT !.profile = "running"]
        \/ w = [world EXCEPT !.profile = "stopped"]
    BY <1>1 DEF Outcome, Effect, PartialEffect
  <2>2. world.profile = "absent"
    BY <1>1 DEF Outcome, Effect, PartialEffect
  <2>3. w \in Worlds
    BY <1>t, <2>1 DEF Worlds, Profiles
  <2>4. /\ w.cluster = world.cluster /\ w.applied = world.applied /\ w.paths = world.paths
        /\ w.captured = world.captured /\ w.sent = world.sent
        /\ w.published = world.published
    BY <1>t, <2>1 DEF Worlds
  <2>5. ProfileTouched(w, op) /\ ClusterTouched(w, op)
    BY <1>1, <2>2, <2>4 DEF ProfileTouched, ClusterTouched
  <2> QED
    BY <2>3, <2>4, <2>5 DEF Touched
<1>2. CASE op[1] = "cluster_create" /\ w # world
  <2>1. \/ w = [world EXCEPT !.cluster = "present"]
        \/ w = [world EXCEPT !.cluster = "broken"]
    BY <1>2 DEF Outcome, Effect, PartialEffect
  <2>2. world.cluster = "absent" /\ world.profile = "running"
    BY <1>2 DEF Outcome, Effect, PartialEffect, Daemon
  <2> QED
    BY <1>t, <1>2, <2>1, <2>2 DEF Touched, ProfileTouched, ClusterTouched, Worlds, Clusters
<1>3. CASE op[1] \in {"image_import", "image_load", "calico_apply"} /\ w # world
  <2>1. w = [world EXCEPT !.applied = @ \cup {op[1]}]
    BY <1>3 DEF Outcome, Effect, PartialEffect
  <2> QED
    BY <1>t, <1>3, <2>1 DEF Touched, ProfileTouched, ClusterTouched, Worlds, SetupFamilies
<1>4. CASE op[1] = "application_apply" /\ w # world
  <2>1. w = [world EXCEPT !.applied = @ \cup {op[1]},
                          !.driver = [t \in Tracks |-> "waiting"]]
    BY <1>4 DEF Outcome, Effect, PartialEffect
  <2> QED
    BY <1>t, <1>4, <2>1 DEF Touched, ProfileTouched, ClusterTouched, Worlds, SetupFamilies
<1>5. CASE op[1] = "request" /\ w # world
  <2>1. PICK d \in {"exited", "broken"} :
          w = [world EXCEPT !.sent[op[2]] = @ + 1, !.driver[op[2]] = d]
    BY <1>5 DEF Outcome, Effect, PartialEffect
  <2>2. op[2] \in Tracks
    BY <1>5, OpsOf DEF TrackFamilies
  <2>3. w = [world EXCEPT !.sent = [world.sent EXCEPT ![op[2]] = @ + 1],
                          !.driver = [world.driver EXCEPT ![op[2]] = d]]
    BY <2>1, <1>t DEF Worlds
  <2>4. [world.sent EXCEPT ![op[2]] = @ + 1] \in [Tracks -> Nat]
    BY <1>t, <2>2 DEF Worlds
  <2>5. [world.driver EXCEPT ![op[2]] = d] \in
          [Tracks -> {"none", "waiting", "exited", "broken"}]
    BY <1>t, <2>2 DEF Worlds
  <2> QED
    BY <1>t, <1>5, <2>3, <2>4, <2>5 DEF Touched, ProfileTouched, ClusterTouched, Worlds
<1>6. CASE op[1] = "driver_cancel" /\ w # world
  <2>1. PICK d \in {"exited", "broken"} : w = [world EXCEPT !.driver[op[2]] = d]
    BY <1>6 DEF Outcome, Effect, PartialEffect
  <2>2. op[2] \in Tracks
    BY <1>6, OpsOf DEF TrackFamilies
  <2>3. w = [world EXCEPT !.driver = [world.driver EXCEPT ![op[2]] = d]]
    BY <2>1, <1>t DEF Worlds
  <2>4. [world.driver EXCEPT ![op[2]] = d] \in
          [Tracks -> {"none", "waiting", "exited", "broken"}]
    BY <1>t, <2>2 DEF Worlds
  <2> QED
    BY <1>t, <1>6, <2>3, <2>4 DEF Touched, ProfileTouched, ClusterTouched, Worlds
<1>7. CASE op[1] = "envoy_quiesce" /\ w # world
  <2>1. w = [world EXCEPT !.drained = TRUE]
    BY <1>7 DEF Outcome, Effect, PartialEffect
  <2> QED
    BY <1>t, <1>7, <2>1 DEF Touched, ProfileTouched, ClusterTouched, Worlds
<1>g. /\ ClusterGone \in Worlds /\ ClusterGone.cluster = "absent"
      /\ ClusterGone.applied = {}
      /\ ClusterGone.profile = world.profile /\ ClusterGone.paths = world.paths
      /\ ClusterGone.captured = world.captured /\ ClusterGone.sent = world.sent
      /\ ClusterGone.published = world.published
  BY <1>t DEF ClusterGone, Worlds, Clusters
<1>8. CASE op[1] = "cluster_delete" /\ w # world
  <2>1. w = ClusterGone \/ w = [ClusterGone EXCEPT !.cluster = "broken"]
    BY <1>8 DEF Outcome, Effect, PartialEffect
  <2>2. world.cluster = "present" /\ world.profile = "running"
    BY <1>8 DEF Outcome, Effect, PartialEffect, ClusterSeen, Daemon
  <2> HIDE DEF ClusterGone
  <2> QED
    BY <1>g, <1>8, <2>1, <2>2 DEF Touched, ProfileTouched, ClusterTouched, Worlds, Clusters
<1>9. CASE op[1] = "profile_stop" /\ w # world
  <2>1. w = [world EXCEPT !.profile = "stopped"]
    BY <1>9 DEF Outcome, Effect, PartialEffect
  <2>2. world.profile = "running"
    BY <1>9 DEF Outcome, Effect, PartialEffect, Daemon
  <2> QED
    BY <1>t, <1>9, <2>1, <2>2 DEF Touched, ProfileTouched, ClusterTouched, Worlds, Profiles
<1>10. CASE op[1] = "profile_delete" /\ w # world
  <2>1. \/ w = [ClusterGone EXCEPT !.profile = "absent"]
        \/ w = [ClusterGone EXCEPT !.profile = "orphan"]
    BY <1>10 DEF Outcome, Effect, PartialEffect
  <2>2. world.profile \in {"stopped", "orphan"}
    BY <1>10 DEF Outcome, Effect, PartialEffect
  <2> HIDE DEF ClusterGone
  <2>3. w \in Worlds
    <3>1. "absent" \in Profiles /\ "orphan" \in Profiles
      BY DEF Profiles
    <3>2. PICK p \in Profiles : w = [ClusterGone EXCEPT !.profile = p]
      BY <2>1, <3>1
    <3> QED
      BY <1>g, <3>2 DEF Worlds
  <2>4. /\ w.profile \in {"absent", "orphan"} /\ w.cluster = "absent"
        /\ w.applied = {} /\ w.paths = world.paths /\ w.captured = world.captured
        /\ w.sent = world.sent /\ w.published = world.published
    BY <1>g, <2>1 DEF Worlds
  <2>5. w.applied \subseteq world.applied
    BY <2>4
  <2>6. ProfileTouched(w, op) /\ ClusterTouched(w, op)
    BY <1>10, <2>2, <2>4 DEF ProfileTouched, ClusterTouched
  <2> QED
    BY <2>3, <2>4, <2>5, <2>6 DEF Touched
<1>11. CASE op[1] = "publication" /\ w # world
  <2>1. w = [world EXCEPT !.published = TRUE]
    BY <1>11 DEF Outcome, Effect, PartialEffect
  <2> QED
    BY <1>t, <1>11, <2>1 DEF Touched, ProfileTouched, ClusterTouched, Worlds
<1>12. CASE op[1] \notin {"profile_start", "cluster_create", "image_import",
                "image_load", "calico_apply", "application_apply", "request",
                "driver_cancel", "envoy_quiesce", "cluster_delete",
                "profile_stop", "profile_delete", "publication"}
  <2>1. w = world
    BY <1>12 DEF Outcome, Effect, PartialEffect
  <2> QED
    BY <1>0, <2>1
<1> QED
  BY <1>0, <1>1, <1>2, <1>3, <1>4, <1>5, <1>6, <1>7, <1>8, <1>9, <1>10, <1>11,
     <1>12

----------------------------------------------------------------------------
(***************************************************************************)
(* What the scripts want next, and why.                                    *)
(***************************************************************************)
\* Teardown wants only cleanup: the cluster behind its evidence, the profile
\* behind its cluster, and nothing behind the comparison.
LEMMA Teardowns ==
  ASSUME TypeOK
  PROVE  /\ TeardownOp \in Ops \cup {NoOp}
         /\ TeardownOp[1] \in CleanupFamilies \cup {"driver_cancel", "none"}
         /\ TeardownOp[1] = "cluster_delete" => ~EvidenceDue
         /\ TeardownOp[1] = "profile_stop" =>
              Done("cluster_absence_proof") \/ Stage("cluster_create") = "none"
         /\ Done("profile_absence_proof") /\ Done("foreign_snapshot_comparison") =>
              TeardownOp = NoOp
<1> DEFINE T == {"envoy_quiesce", "evidence_freeze", "cluster_delete",
                 "cluster_absence_proof", "profile_stop", "profile_delete",
                 "profile_absence_proof", "foreign_snapshot_comparison"}
<1>1. Uncancelled \in SUBSET Nat /\ Uncancelled \subseteq Tracks
  BY NumTracksAssumption DEF Uncancelled, Drivers, Tracks
<1>2. Uncancelled # {} => CancelOp \in Ops /\ CancelOp[1] = "driver_cancel"
  BY <1>1, LeastIn, Names DEF CancelOp
<1>3. \A f \in T : Op(f) \in Ops /\ Op(f)[1] = f
  BY Names DEF CleanupFamilies, Op
<1>4. NoOp[1] = "none"
  BY DEF NoOp
<1>5. EvidenceDue =>
        /\ EvidenceOp \in Ops
        /\ EvidenceOp[1] \in {"driver_cancel", "envoy_quiesce", "evidence_freeze"}
  <2> HIDE DEF T
  <2> QED
    BY <1>2, <1>3 DEF EvidenceOp, T
<1>6. T \subseteq CleanupFamilies
  BY DEF CleanupFamilies
<1> QED
  BY <1>2, <1>3, <1>4, <1>5, <1>6 DEF TeardownOp

\* What a program may want next, and what it then knows of the journal.
Wanted ==
  \/ NextOp = NoOp
  \/ /\ NextOp = TeardownOp
     /\ run.prog \in Forward => SetupLeft = {}
     /\ run.prog = "down" => Done("evidence_freeze")
  \/ \E i \in SetupLeft :
       run.prog \in Forward /\ NextOp = Op(SetupSequence[i])
  \/ /\ run.prog \in Modes /\ SetupLeft = {}
     /\ \E t \in Tracks : NextOp = <<"driver_start", t>> /\ Start(t) = "none"
     /\ run.prog = "nominal" => \E t \in Tracks : Request(t) # "complete"
  \/ /\ run.prog = "nominal" /\ SetupLeft = {}
     /\ \E t \in Tracks : NextOp = <<"request", t>> /\ Request(t) # "complete"
  \/ /\ run.prog \in Modes /\ SetupLeft = {}
     /\ NextOp = Op("publication")
     /\ run.prog = "request-free" => \A t \in Tracks : Start(t) # "none"
     /\ run.prog = "nominal" =>
          RequestPending \/ \A t \in Tracks : Request(t) = "complete"
  \/ /\ run.prog = "down" /\ ~Done("evidence_freeze")
     /\ NextOp \in {Op("evidence_freeze"), Op("envoy_quiesce")}

\* Every script wants one of these.
LEMMA Wants ==
  ASSUME LTypeOK
  PROVE  Wanted
<1>s. SetupLeft \in SUBSET Nat
  BY DEF SetupLeft
<1>1. CASE run.prog \in Forward /\ SetupLeft # {}
  <2>1. Least(SetupLeft) \in SetupLeft
    BY <1>s, <1>1, LeastIn
  <2>2. NextOp = Op(SetupSequence[Least(SetupLeft)])
    BY <1>1 DEF NextOp, ForwardOp, Forward
  <2> QED
    BY <1>1, <2>1, <2>2 DEF Wanted
<1>2. CASE run.prog \in Forward /\ SetupLeft = {}
  <2> DEFINE unstarted == {t \in Tracks : Start(t) = "none"}
             unanswered == {t \in Tracks : Request(t) # "complete"}
             ending == IF Done("publication") THEN NoOp
                       ELSE IF Done("foreign_snapshot_comparison")
                         THEN Op("publication")
                       ELSE TeardownOp
  <2>1. NextOp = ForwardOp
    BY <1>2 DEF NextOp, Forward
  <2>2. /\ unstarted \in SUBSET Nat /\ unstarted \subseteq Tracks
        /\ unanswered \in SUBSET Nat /\ unanswered \subseteq Tracks
    BY NumTracksAssumption DEF Tracks
  <2>3. ending \in {NoOp, Op("publication"), TeardownOp}
    OBVIOUS
  <2>4. CASE run.prog = "up"
    <3>1. NextOp = NoOp
      BY <1>2, <2>1, <2>4 DEF ForwardOp
    <3> QED
      BY <3>1 DEF Wanted
  <2>5. CASE run.prog = "request-free"
    <3>1. NextOp = IF unstarted = {} THEN ending ELSE <<"driver_start", Least(unstarted)>>
      BY <1>2, <2>1, <2>5 DEF ForwardOp
    <3>2. CASE unstarted = {}
      <4>1. NextOp \in {NoOp, Op("publication"), TeardownOp}
        BY <2>3, <3>1, <3>2
      <4> QED
        BY <1>2, <2>5, <3>2, <4>1 DEF Wanted, Modes
    <3>3. CASE unstarted # {}
      <4>1. Least(unstarted) \in unstarted
        BY <2>2, <3>3, LeastIn
      <4>2. Least(unstarted) \in Tracks /\ Start(Least(unstarted)) = "none"
        BY <4>1
      <4>3. NextOp = <<"driver_start", Least(unstarted)>>
        BY <3>1, <3>3
      <4> HIDE DEF unstarted
      <4> QED
        BY <1>2, <2>5, <4>2, <4>3 DEF Wanted, Modes
    <3> QED
      BY <3>2, <3>3
  <2>6. CASE run.prog = "nominal"
    <3>1. NextOp = IF unanswered = {} \/ RequestPending THEN ending
                   ELSE IF Least(unanswered) \in unstarted
                     THEN <<"driver_start", Least(unanswered)>>
                   ELSE <<"request", Least(unanswered)>>
      BY <1>2, <2>1, <2>6 DEF ForwardOp
    <3>2. CASE unanswered = {} \/ RequestPending
      <4>1. NextOp \in {NoOp, Op("publication"), TeardownOp}
        BY <2>3, <3>1, <3>2
      <4>2. RequestPending \/ \A t \in Tracks : Request(t) = "complete"
        BY <3>2
      <4> QED
        BY <1>2, <2>6, <4>1, <4>2 DEF Wanted, Modes
    <3>3. CASE unanswered # {} /\ ~RequestPending
      <4>1. Least(unanswered) \in unanswered
        BY <2>2, <3>3, LeastIn
      <4>2. Least(unanswered) \in Tracks /\ Request(Least(unanswered)) # "complete"
        BY <4>1
      <4>3. Least(unanswered) \in unstarted => Start(Least(unanswered)) = "none"
        OBVIOUS
      <4>4. \/ NextOp = <<"request", Least(unanswered)>>
            \/ /\ NextOp = <<"driver_start", Least(unanswered)>>
               /\ Start(Least(unanswered)) = "none"
        BY <3>1, <3>3, <4>3
      <4> HIDE DEF unanswered, unstarted
      <4> QED
        BY <1>2, <2>6, <4>2, <4>4 DEF Wanted, Modes
    <3> QED
      BY <3>2, <3>3
  <2> QED
    BY <1>2, <2>4, <2>5, <2>6 DEF Forward
<1>3. CASE run.prog = "down"
  <2>1. NextOp = DownOp
    BY <1>3 DEF NextOp, Forward
  <2> QED
    BY <1>3, <2>1 DEF Wanted, DownOp, Forward
<1>4. CASE run.prog \notin Forward \cup {"down"}
  <2>1. NextOp = TeardownOp
    BY <1>4 DEF NextOp, Forward
  <2> QED
    BY <1>4, <2>1 DEF Wanted, Forward
<1> QED
  BY <1>1, <1>2, <1>3, <1>4

\* What is wanted is an operation of the journal.
LEMMA WantsOps ==
  ASSUME LTypeOK, NextOp # NoOp
  PROVE  NextOp \in Ops
<1>1. TypeOK
  BY DEF LTypeOK
<1>2. \A i \in 1..7 : Op(SetupSequence[i]) \in Ops
  BY Names DEF SetupSequence, SetupFamilies
<1>3. SetupLeft \subseteq 1..7
  BY DEF SetupLeft
<1>4. Op("publication") \in Ops /\ Op("evidence_freeze") \in Ops /\ Op("envoy_quiesce") \in Ops
  BY Names DEF CleanupFamilies
<1> QED
  BY <1>1, <1>2, <1>3, <1>4, Wants, Teardowns, Names DEF Wanted

----------------------------------------------------------------------------
(***************************************************************************)
(* The steps, by what they do to the journal and to the host.              *)
(***************************************************************************)
\* How a process goes on once an outcome is known: nothing is in its hands.
Onward ==
  /\ run' \in Runs /\ run'.at \in Free /\ ~run'.top
  /\ run'.prog \in Modes => run.prog = run'.prog
  /\ run'.at \in {"latch", "recover"} => run'.prog = "unwind"
  /\ run'.at = "step" => run'.prog = run.prog /\ ~run.top
  /\ run'.at = "off" <=> run'.prog = "none"

\* Where a process is after it goes on to a place, or raises.
LEMMA Goes ==
  ASSUME LTypeOK
  PROVE  /\ \A a, op : At(a, op) =>
              /\ run'.at = a /\ run'.op = op /\ run'.prog = run.prog
              /\ run'.top = run.top /\ run'.bad = run.bad
         /\ \A a \in Places, op \in Ops \cup {NoOp} : At(a, op) => run' \in Runs
         /\ Unwind => /\ run' \in Runs /\ ~run'.top
                      /\ run'.prog = "unwind" /\ run'.at = "latch"
         /\ Raise => /\ run' \in Runs /\ ~run'.top
                     /\ \/ run'.prog = "unwind" /\ run'.at = "latch"
                        \/ run'.prog = "none" /\ run'.at = "off"
<1>1. run \in Runs
  BY DEF LTypeOK
<1>u. Unwind => /\ run' \in Runs /\ ~run'.top
                /\ run'.prog = "unwind" /\ run'.at = "latch"
  BY DEF Unwind, Off, Runs, Scripts, Places
<1>2. Raise => /\ run' \in Runs /\ ~run'.top
               /\ \/ run'.prog = "unwind" /\ run'.at = "latch"
                  \/ run'.prog = "none" /\ run'.at = "off"
  <2>1. Raise => run' = Off \/ Unwind
    BY DEF Raise
  <2>2. Off \in Runs /\ ~Off.top /\ Off.prog = "none" /\ Off.at = "off"
    BY DEF Off, Runs, Scripts, Places
  <2> QED
    BY <1>u, <2>1, <2>2
<1>3. \A a, op : At(a, op) =>
        /\ run'.at = a /\ run'.op = op /\ run'.prog = run.prog
        /\ run'.top = run.top /\ run'.bad = run.bad
  BY <1>1 DEF At, Runs
<1>4. \A a \in Places, op \in Ops \cup {NoOp} : At(a, op) => run' \in Runs
  BY <1>1 DEF At, Runs
<1> QED
  BY <1>u, <1>2, <1>3, <1>4

\* After an exception, a completion or an outcome of recover it goes on so.
LEMMA RunsOn ==
  ASSUME LTypeOK, Following, run.at # "off"
  PROVE  /\ Raise => Onward
         /\ \A op : Continue(op) => Onward
         /\ \A op, v : Settle(op, v) => Onward
<1>r. run \in Runs
  BY DEF LTypeOK
<1>0. run' = Off => Onward
  BY DEF Onward, Off, Free, Modes, Runs, Scripts, Places
<1>u. run' = [Off EXCEPT !.prog = "unwind", !.at = "recover"] => Onward
  BY DEF Onward, Off, Free, Modes, Runs, Scripts, Places
<1>1. Raise => Onward
  BY Goes DEF Onward, Free, Modes
<1>2. At("step", NoOp) /\ ~run.top /\ run.prog # "none" => Onward
  BY Goes DEF Onward, Free, Places
<1>3. run.prog # "none" /\ (run.top => run.prog \in {"unwind", "recover"})
  BY DEF Following
<1>4. ASSUME NEW op, Continue(op) PROVE Onward
  <2>1. CASE run.prog = "unwind" /\ (run.top \/ Returning(op))
    BY <1>4, <2>1, <1>u DEF Continue
  <2>2. CASE run.prog = "recover" /\ (run.top \/ Returning(op))
    BY <1>4, <2>2, <1>0 DEF Continue
  <2>3. CASE /\ ~(run.prog = "unwind" /\ (run.top \/ Returning(op)))
             /\ ~(run.prog = "recover" /\ (run.top \/ Returning(op)))
    <3>1. ~run.top /\ At("step", NoOp)
      BY <1>4, <2>3, <1>3 DEF Continue
    <3> QED
      BY <3>1, <1>2, <1>3
  <2> QED
    BY <2>1, <2>2, <2>3
<1>5. ASSUME NEW op, NEW v, Settle(op, v) PROVE Onward
  <2>1. CASE v = "unknown"
    <3>1. run' = Off \/ Raise
      BY <1>5, <2>1 DEF Settle
    <3> QED
      BY <3>1, <1>0, <1>1
  <2>2. CASE v = "abandoned" /\ op[1] = "driver_cancel" /\ ~run.top
    <3>1. run' = [run EXCEPT !.at = "step", !.op = NoOp, !.bad = TRUE]
      BY <1>5, <2>2 DEF Settle
    <3> QED
      BY <2>2, <3>1, <1>r, <1>3 DEF Onward, Runs, Places, Free
  <2>3. CASE v # "unknown" /\ ~(v = "abandoned" /\ op[1] = "driver_cancel" /\ ~run.top)
    <3>1. Continue(op)
      BY <1>5, <2>3 DEF Settle
    <3> QED
      BY <3>1, <1>4
  <2> QED
    BY <2>1, <2>2, <2>3
<1> QED
  BY <1>1, <1>4, <1>5

\* What a verdict says of the host.
LEMMA Verdicts ==
  ASSUME NEW op \in Ops
  PROVE  /\ Verdict(op) \in Settled \cup {"unknown"}
         /\ Verdict(op) = "complete" => Established(op)
         /\ Verdict(op) = "failed" =>
              op = Op("profile_start") /\ world.profile = "absent"
         /\ op[1] \in {"profile_start", "cluster_create"} /\ Verdict(op) = "abandoned" =>
              Established(op)
<1>1. /\ Validated(op) \in Settled \cup {"unknown"}
      /\ Validated(op) = "complete" => Established(op)
      /\ Validated(op) = "failed" =>
           op = Op("profile_start") /\ world.profile = "absent"
      /\ op[1] \in {"profile_start", "cluster_create"} => Validated(op) # "abandoned"
  BY DEF Validated, StartNotApplied, Settled, Op
<1>2. \/ Verdict(op) = Validated(op)
      \/ Verdict(op) = "abandoned" /\ Validated(op) = "complete"
      \/ Verdict(op) = "abandoned" /\ op[1] \in InCluster
  <2>1. CASE /\ latched /\ Validated(op) = "complete"
             /\ op[1] \in SetupFamilies \cup {"driver_start"}
    BY <2>1 DEF Verdict
  <2>2. CASE latched /\ Validated(op) = "unknown" /\ op[1] \in InCluster /\ ClusterSeen
    BY <2>2 DEF Verdict
  <2> QED
    BY <2>1, <2>2 DEF Verdict
<1> QED
  BY <1>1, <1>2 DEF InCluster, Settled

\* The host as a reader of the journal knows it stays; of the active paths only
\* the kind configuration may come.
Kept ==
  /\ world' \in Worlds
  /\ world'.profile = world.profile /\ world'.cluster = world.cluster
  /\ world'.sent = world.sent /\ world'.published = world.published
  /\ world'.applied = world.applied
  /\ world'.paths \subseteq world.paths \cup {"kind_config"}

\* A step that neither writes a pair nor carries out a command.
Turns ==
  /\ UNCHANGED <<stage, comparison>>
  /\ mode' = mode \/ NoEvents
  /\ Kept /\ world'.captured = world.captured
  /\ run' = run \/ run'.at \notin {"captured", "act"}
  /\ \A op \in Ops : Acting(op)' => Acting(op) \/ op[1] \in Cleanups

\* The terminal that the observation decides.
Decides(op) ==
  /\ run.at \in Judging /\ run.op = op
  /\ stage[op] = "pending" /\ Verdict(op) \in Settled
  /\ stage' = [stage EXCEPT ![op] = Verdict(op)]
  /\ TerminalAdmitted(op, Verdict(op)) /\ DecisionAdmitted(op, Verdict(op))
  /\ latched' = (latched \/ Verdict(op) # "complete")
  /\ \/ comparison' = comparison
     \/ /\ op = Op("foreign_snapshot_comparison") /\ Verdict(op) = "complete"
        /\ comparison' \in {"same", "changed"}
  /\ UNCHANGED <<committed, mode, refused, world, inflight>>
  /\ Onward

\* A command takes effect, or part of it, or none.
Commands(op) ==
  /\ op \in Ops /\ Acting(op) /\ world' \in Outcome(op)
  /\ UNCHANGED <<committed, mode, stage, refused, comparison>>
  /\ \/ latched' = latched
     \/ latched' /\ run.at = "act" /\ run.op = op /\ op[1] \notin {"request", "publication"}
  /\ run' = run \/ run'.at \notin {"captured", "act"}
  /\ \A o \in Ops : Acting(o)' => Acting(o) /\ (o = op => o[1] \in Cleanups)

\* An observation is written down, or nothing is.
LEMMA Judges ==
  ASSUME LTypeOK, InHand, Following, run.at \in Judging, NEW v \in Stages \cup {"unknown"},
         Observed(run.op, v), Recorded(run.op, v), UNCHANGED <<world, inflight>>
  PROVE  /\ v # "unknown" /\ Onward => Decides(run.op)
         /\ v = "unknown" => UNCHANGED journal
<1>1. run.op \in Ops /\ stage[run.op] = "pending"
  BY DEF InHand, Judging, Busy
<1>2. CASE v = "unknown"
  BY <1>2 DEF Recorded
<1>3. CASE v # "unknown"
  <2>1. v = Verdict(run.op) /\ v \in Settled
    BY <1>1, <1>3, Verdicts DEF Observed, Settled
  <2>2. AppendObservedTerminal(run.op, v)
    BY <1>3 DEF Recorded
  <2> QED
    BY <1>1, <1>3, <2>1, <2>2 DEF Decides, AppendObservedTerminal, Compared
<1> QED
  BY <1>2, <1>3

\* The latch falls and nothing else.
LEMMA KeptAsIs ==
  ASSUME LTypeOK, UNCHANGED world
  PROVE  Kept /\ world'.captured = world.captured
BY DEF LTypeOK, Kept

\* Configuring and clearing touch nothing but the active paths.
LEMMA Configures ==
  ASSUME LTypeOK, world' \in {world, KindConfigured}
  PROVE  Kept /\ world'.captured = world.captured
<1>1. world \in Worlds /\ "kind_config" \in ActivePaths
  BY DEF LTypeOK, ActivePaths
<1>2. CASE world' = world
  BY <1>2, KeptAsIs
<1>3. CASE world' = KindConfigured
  <2>1. world' = [world EXCEPT !.paths = world.paths \cup {"kind_config"}]
    BY <1>3 DEF KindConfigured
  <2> QED
    BY <1>1, <2>1 DEF Kept, Worlds
<1> QED
  BY <1>2, <1>3

LEMMA Clears ==
  ASSUME LTypeOK, NEW a, NEW op, ClearPaths(a, op)
  PROVE  /\ Kept /\ world'.captured = world.captured
         /\ At(a, op) \/ Raise
<1>1. world \in Worlds
  BY DEF LTypeOK
<1>2. ASSUME NEW left \in SUBSET world.paths, world' = [world EXCEPT !.paths = left]
      PROVE  Kept /\ world'.captured = world.captured
  BY <1>1, <1>2 DEF Kept, Worlds
<1>3. \E left \in SUBSET world.paths : world' = [world EXCEPT !.paths = left]
  <2>1. world = [world EXCEPT !.paths = world.paths]
    BY <1>1 DEF Worlds
  <2> QED
    BY <2>1 DEF ClearPaths
<1> QED
  BY <1>2, <1>3 DEF ClearPaths

\* The kinds of step.
Kind ==
  \/ Turns \/ Claim \/ Answer \/ Capture
  \/ \E op \in Ops : Decides(op) \/ Commands(op)

\* Every step is of one of these kinds.
LEMMA Kinds ==
  ASSUME LTypeOK, InHand, Following, OnceClaimed, [LifecycleNext]_lifecycle
  PROVE  Kind
<1>k. UNCHANGED world => Kept /\ world'.captured = world.captured
  BY KeptAsIs
<1>r. run \in Runs /\ (run.at \in Busy => run.op \in Ops) /\ Judging \subseteq Busy
  BY DEF LTypeOK, InHand, Judging, Busy
<1>f. Onward => run'.at \notin {"act", "cleanup", "captured"}
  BY DEF Onward, Free
<1>0. CASE UNCHANGED lifecycle
  BY <1>0, <1>k DEF lifecycle, journal, Kind, Turns, Acting
<1>1. ASSUME NEW prog \in Programs \cap Forward, BeginForward(prog) PROVE Kind
  <2>1. UNCHANGED <<stage, comparison, world, inflight>> /\ NoEvents /\ run'.at = "configure"
    BY <1>1 DEF BeginForward, SelectMode, journal, Off
  <2> QED
    BY <2>1, <1>k DEF Kind, Turns, Acting
<1>2. CASE BeginUnwind \/ BeginDown \/ BeginRecover
  <2>1. UNCHANGED <<stage, comparison, mode, world, inflight>>
        /\ run'.at \in {"configure", "latch", "step", "recover"}
    BY <1>2 DEF BeginUnwind, BeginDown, BeginRecover, journal, Off
  <2> QED
    BY <2>1, <1>k DEF Kind, Turns, Acting
<1>3. CASE UnwindLatch \/ Recover \/ Balk \/ Finish
  <2>1. UNCHANGED <<stage, comparison, mode, world, inflight>>
    BY <1>3 DEF UnwindLatch, Recover, Balk, Finish, LatchTeardown, journal
  <2>2. run'.at \notin {"act", "cleanup", "captured"}
    <3>1. CASE UnwindLatch
      BY <3>1, Goes DEF UnwindLatch
    <3>2. CASE Recover
      <4>1. \/ run' = Off
            \/ \E op \in Pending : run' = [run EXCEPT !.at = "prove", !.op = op, !.top = TRUE]
            \/ At("step", NoOp)
        BY <3>2 DEF Recover
      <4>2. CASE run' = Off
        BY <4>2 DEF Off
      <4>3. CASE \E op \in Pending :
                   run' = [run EXCEPT !.at = "prove", !.op = op, !.top = TRUE]
        <5>1. PICK op \in Pending :
                run' = [run EXCEPT !.at = "prove", !.op = op, !.top = TRUE]
          BY <4>3
        <5>2. run'.at = "prove"
          BY <5>1, <1>r DEF Runs
        <5> QED
          BY <5>2
      <4>4. CASE At("step", NoOp)
        BY <4>4, Goes
      <4> QED
        BY <4>1, <4>2, <4>3, <4>4
    <3>3. CASE Balk
      BY <3>3, Goes DEF Balk
    <3>4. CASE Finish
      BY <3>4 DEF Finish, Off
    <3> QED
      BY <1>3, <3>1, <3>2, <3>3, <3>4
  <2> QED
    BY <2>1, <2>2, <1>k DEF Kind, Turns, Acting
<1>c. CASE Configure \/ ClearFailedStart
  <2>1. UNCHANGED <<stage, comparison, mode, inflight>>
    BY <1>c DEF Configure, ClearFailedStart, journal
  <2>2. run'.at \notin {"act", "cleanup", "captured"}
    BY <1>c, Goes, Clears DEF Configure, ClearFailedStart
  <2>3. Kept /\ world'.captured = world.captured
    <3>1. CASE Configure
      <4>1. world' \in {world, KindConfigured}
        BY <3>1 DEF Configure
      <4> QED
        BY <4>1, Configures
    <3>2. CASE ClearFailedStart
      BY <3>2, Clears DEF ClearFailedStart
    <3> QED
      BY <1>c, <3>1, <3>2
  <2> QED
    BY <2>1, <2>2, <2>3 DEF Kind, Turns, Acting
<1>4. CASE Claim \/ Answer \/ Capture
  BY <1>4 DEF Kind
<1>5. CASE Dispatch \/ DispatchFails \/ DispatchRefused
  <2>1. run.at = "act" /\ run.op \in Ops /\ Acting(run.op) /\ inflight # run.op
    BY <1>5, <1>r DEF Dispatch, DispatchFails, DispatchRefused, Acting, Busy, OnceClaimed
  <2>2. run'.at \notin {"act", "cleanup", "captured"} /\ inflight' = inflight
    <3>1. CASE Dispatch
      <4>1. At("observe", run.op) \/ At("answer", run.op) \/ At("step", NoOp)
        BY <3>1 DEF Dispatch
      <4> QED
        BY <3>1, <4>1, Goes DEF Dispatch
    <3>2. CASE DispatchFails
      <4>1. At("step", NoOp) \/ Raise \/ At("last", run.op)
        BY <3>2 DEF DispatchFails
      <4> QED
        BY <3>2, <4>1, Goes DEF DispatchFails
    <3>3. CASE DispatchRefused
      BY <3>3, Goes DEF DispatchRefused
    <3> QED
      BY <1>5, <3>1, <3>2, <3>3
  <2>3. UNCHANGED <<committed, mode, stage, comparison>>
    BY <1>5 DEF Dispatch, DispatchFails, DispatchRefused, LatchTeardown,
       LatchRefusal, journal
  <2>4. \A o \in Ops : Acting(o)' => Acting(o) /\ o # run.op
    BY <2>1, <2>2 DEF Acting
  <2>5. CASE Dispatch \/ DispatchFails
    <3>1. world' \in Outcome(run.op)
      BY <2>5 DEF Dispatch, DispatchFails, Outcome
    <3>2. refused' = refused
      BY <2>5 DEF Dispatch, DispatchFails, LatchTeardown, journal
    <3>3. latched' = latched \/ (latched' /\ run.op[1] \notin {"request", "publication"})
      BY <2>5 DEF Dispatch, DispatchFails, LatchTeardown, journal
    <3> QED
      BY <2>1, <2>2, <2>3, <2>4, <3>1, <3>2, <3>3 DEF Kind, Commands
  <2>6. CASE DispatchRefused
    <3>1. UNCHANGED world
      BY <2>6 DEF DispatchRefused
    <3> QED
      BY <2>2, <2>3, <2>4, <3>1, <1>k DEF Kind, Turns
  <2> QED
    BY <1>5, <2>5, <2>6
<1>6. CASE Observe
  <2>1. PICK v \in Stages \cup {"unknown"} :
          /\ Observed(run.op, v)
          /\ IF v = "unknown" THEN LatchTeardown ELSE Recorded(run.op, v)
          /\ CASE v = "complete" ->
                    IF comparison' = "changed" THEN Raise ELSE Continue(run.op)
               [] v = "unknown" /\ run.op[1] \notin
                    {"application_apply", "envoy_quiesce", "publication"} ->
                    At("last", run.op)
               [] OTHER -> Raise
    BY <1>6 DEF Observe
  <2>2. UNCHANGED <<world, inflight>> /\ run.at \in Judging
    BY <1>6 DEF Observe, Judging
  <2>3. CASE v = "unknown"
    <3>1. Raise \/ At("last", run.op)
      BY <2>1, <2>3
    <3>2. run'.at \in {"latch", "off", "last"}
      BY <3>1, Goes
    <3>3. UNCHANGED <<stage, comparison, mode>>
      BY <2>1, <2>3 DEF LatchTeardown
    <3> QED
      BY <2>2, <3>2, <3>3, <1>k DEF Kind, Turns, Acting
  <2>4. CASE v # "unknown"
    <3>1. Raise \/ Continue(run.op)
      BY <2>1, <2>4
    <3>2. Onward
      BY <2>2, <3>1, RunsOn DEF Judging
    <3>3. Recorded(run.op, v)
      BY <2>1, <2>4
    <3>4. Decides(run.op)
      BY <2>1, <2>2, <2>4, <3>2, <3>3, Judges
    <3> QED
      BY <2>2, <3>4, <1>r DEF Kind
  <2> QED
    BY <2>3, <2>4
<1>7. CASE ObserveLast
  <2>1. PICK v \in Stages \cup {"unknown"} : Observed(run.op, v) /\ Recorded(run.op, v)
    BY <1>7 DEF ObserveLast
  <2>2. UNCHANGED <<world, inflight>> /\ run.at \in Judging /\ Raise
    BY <1>7 DEF ObserveLast, Judging
  <2>3. Onward
    BY <2>2, RunsOn DEF Judging
  <2>4. \/ Decides(run.op)
        \/ UNCHANGED journal
    BY <2>1, <2>2, <2>3, Judges
  <2> QED
    BY <2>2, <2>3, <2>4, <1>r, <1>f, <1>k DEF Kind, Turns, Acting, journal
<1>8. CASE Prove
  <2>1. PICK v \in Stages \cup {"unknown"} :
          /\ Observed(run.op, v)
          /\ Recorded(run.op, v)
          /\ IF v # "unknown" THEN Settle(run.op, v)
             ELSE IF v = Verdict(run.op) /\ CleanupPermitted(run.op)
               THEN At("cleanup", run.op)
             ELSE IF run.op = Op("profile_delete") THEN At("clear", run.op)
             ELSE Settle(run.op, v)
    BY <1>8 DEF Prove
  <2>2. UNCHANGED <<world, inflight>> /\ run.at \in Judging
    BY <1>8 DEF Prove, Judging
  <2>3. CASE v # "unknown"
    <3>1. Onward
      BY <2>1, <2>2, <2>3, RunsOn DEF Judging
    <3>2. Decides(run.op)
      BY <2>1, <2>2, <2>3, <3>1, Judges
    <3> QED
      BY <2>2, <3>2, <1>r DEF Kind
  <2>4. CASE v = "unknown"
    <3>1. UNCHANGED journal
      BY <2>1, <2>2, <2>4, Judges
    <3>2. \/ At("cleanup", run.op) /\ run.op[1] \in Cleanups
          \/ At("clear", run.op) \/ Settle(run.op, v)
      BY <2>1, <2>4 DEF CleanupPermitted, Cleanups
    <3>3. CASE At("cleanup", run.op) /\ run.op[1] \in Cleanups
      BY <2>2, <3>1, <3>3, <1>r, <1>k DEF Kind, Turns, Acting, journal, At, Runs
    <3>4. CASE At("clear", run.op)
      BY <2>2, <3>1, <3>4, <1>r, <1>k DEF Kind, Turns, Acting, journal, At, Runs
    <3>5. CASE Settle(run.op, v)
      <4>1. Onward
        BY <2>2, <3>5, RunsOn DEF Judging
      <4> QED
        BY <2>2, <3>1, <4>1, <1>f, <1>k DEF Kind, Turns, Acting, journal
    <3> QED
      BY <3>2, <3>3, <3>4, <3>5
  <2> QED
    BY <2>3, <2>4
<1>9. CASE Cleanup
  <2>1. run.at = "cleanup" /\ run.op \in Ops /\ Acting(run.op) /\ run.op[1] \in Cleanups
    BY <1>9, <1>r DEF Cleanup, Acting, Busy, InHand
  <2>2. world' \in Outcome(run.op) /\ UNCHANGED journal /\ inflight' = inflight
    BY <1>9 DEF Cleanup, Outcome
  <2>3. run'.at \notin {"act", "cleanup", "captured"}
    BY <1>9, Goes DEF Cleanup
  <2> QED
    BY <2>1, <2>2, <2>3 DEF Kind, Commands, Acting, journal
<1>10. CASE Clear
  <2>1. UNCHANGED <<stage, comparison, mode, inflight>>
    BY <1>10 DEF Clear, journal
  <2>2. /\ Kept /\ world'.captured = world.captured
        /\ At("reprove", run.op) \/ Raise
    BY <1>10, <1>k, Clears DEF Clear
  <2>3. run'.at \in {"reprove", "latch", "off"}
    BY <2>2, Goes
  <2> QED
    BY <2>1, <2>2, <2>3 DEF Kind, Turns, Acting
<1>11. CASE Reprove
  <2>1. PICK v \in Stages \cup {"unknown"} :
          Observed(run.op, v) /\ Recorded(run.op, v) /\ Settle(run.op, v)
    BY <1>11 DEF Reprove
  <2>2. UNCHANGED <<world, inflight>> /\ run.at \in Judging
    BY <1>11 DEF Reprove, Judging
  <2>3. Onward
    BY <2>1, <2>2, RunsOn DEF Judging
  <2>4. Decides(run.op) \/ UNCHANGED journal
    BY <2>1, <2>2, <2>3, Judges
  <2> QED
    BY <2>2, <2>3, <2>4, <1>r, <1>f, <1>k DEF Kind, Turns, Acting, journal
<1>12. CASE Crash
  <2>1. /\ UNCHANGED <<journal, world>> /\ run' = Off
        /\ \/ inflight' = inflight
           \/ run.at \in {"act", "cleanup"} /\ inflight' = run.op
    BY <1>12 DEF Crash
  <2> QED
    BY <2>1, <1>k DEF Kind, Turns, Acting, journal, Off
<1>13. CASE Land
  <2>1. inflight \in Ops /\ Acting(inflight)
    BY <1>13 DEF Land, LTypeOK, Acting
  <2>2. world' \in Outcome(inflight) /\ UNCHANGED journal /\ run' = run /\ inflight' = NoOp
    BY <1>13 DEF Land, Outcome
  <2>3. \A o \in Ops : Acting(o)' => run.at \in {"act", "cleanup"} /\ run.op = o
    BY <2>2, Names DEF Acting
  <2>4. run.at = "act" => run.op # inflight
    BY DEF OnceClaimed
  <2>5. run.at = "cleanup" => run.op[1] \in Cleanups
    BY DEF InHand
  <2> QED
    BY <2>1, <2>2, <2>3, <2>4, <2>5 DEF Kind, Commands, Acting, journal
<1>14. CASE ForeignDrift \/ PodUpdated
  <2>1. UNCHANGED <<journal, inflight, run>>
    BY <1>14 DEF ForeignDrift, PodUpdated
  <2>2. Kept /\ world'.captured = world.captured
    <3>1. CASE ForeignDrift
      <4>1. world' = [world EXCEPT !.drift = TRUE]
        BY <3>1 DEF ForeignDrift
      <4> QED
        BY <4>1 DEF Kept, LTypeOK, Worlds
    <3>2. CASE PodUpdated
      <4>1. world' = [world EXCEPT !.version = world.version + 1]
        BY <3>2 DEF PodUpdated
      <4>2. world \in Worlds /\ world.version + 1 \in Nat
        BY DEF LTypeOK, Worlds
      <4> QED
        BY <4>1, <4>2 DEF Kept, Worlds
    <3> QED
      BY <1>14, <3>1, <3>2
  <2> QED
    BY <2>1, <2>2 DEF Kind, Turns, Acting, journal
<1> QED
  BY <1>0, <1>1, <1>2, <1>3, <1>4, <1>5, <1>6, <1>7, <1>8, <1>9, <1>10, <1>11,
     <1>12, <1>13, <1>14, <1>c DEF LifecycleNext, Begin, Work

----------------------------------------------------------------------------
(***************************************************************************)
(* The controller writes its journal only as the journal allows.           *)
(***************************************************************************)
\* A recorded observation is a step of the journal.
LEMMA Records ==
  ASSUME run.op \in Ops, NEW v \in Stages \cup {"unknown"},
         Observed(run.op, v), Recorded(run.op, v)
  PROVE  [Next]_vars
<1>1. CASE v = "unknown"
  BY <1>1 DEF Recorded, journal, vars
<1>2. CASE v # "unknown"
  <2>1. v = Verdict(run.op) /\ v \in Settled
    BY <1>2, Verdicts DEF Observed, Settled
  <2>2. AppendObservedTerminal(run.op, v)
    BY <1>2 DEF Recorded
  <2> QED
    BY <2>1, <2>2 DEF Next, Settled
<1> QED
  BY <1>1, <1>2

\* So is every other step of the controller and of the host.
LEMMA JournalSteps ==
  ASSUME LTypeOK, InHand, [LifecycleNext]_lifecycle
  PROVE  [Next]_vars
<1>u. UNCHANGED journal => [Next]_vars
  BY DEF journal, vars
<1>l. LatchTeardown \/ LatchRefusal => [Next]_vars
  BY DEF Next
<1>r. run.at \in {"answer", "observe", "last", "prove", "reprove"} => run.op \in Ops
  BY DEF InHand, Busy
<1>0. CASE UNCHANGED lifecycle
  BY <1>0, <1>u DEF lifecycle
<1>1. ASSUME NEW prog \in Programs \cap Forward, BeginForward(prog) PROVE [Next]_vars
  <2>1. CASE prog = "up"
    BY <1>1, <2>1, <1>u DEF BeginForward
  <2>2. CASE prog # "up"
    <3>1. SelectMode(prog) /\ prog \in Modes
      BY <1>1, <2>2 DEF BeginForward, Forward, Modes
    <3> QED
      BY <3>1 DEF Next
  <2> QED
    BY <2>1, <2>2
<1>2. CASE BeginUnwind \/ BeginDown \/ BeginRecover
  BY <1>2, <1>u DEF BeginUnwind, BeginDown, BeginRecover
<1>3. CASE Configure \/ UnwindLatch \/ Recover \/ Capture \/ ClearFailedStart
           \/ Balk \/ Finish
  BY <1>3, <1>u, <1>l
     DEF Configure, UnwindLatch, Recover, Capture, ClearFailedStart, Balk, Finish
<1>4. CASE Claim
  <2>1. AppendIntent(NextOp) /\ NextOp \in Ops
    BY <1>4, WantsOps DEF Claim, Written
  <2> QED
    BY <2>1 DEF Next
<1>5. CASE Dispatch \/ DispatchFails \/ DispatchRefused
  BY <1>5, <1>u, <1>l DEF Dispatch, DispatchFails, DispatchRefused
<1>6. CASE Answer
  <2>1. AppendRequestResult(run.op[2]) /\ run.op[2] \in Tracks
    BY <1>6, <1>r, OpsOf DEF Answer, InHand, TrackFamilies
  <2> QED
    BY <2>1 DEF Next
<1>7. CASE Observe
  <2>1. PICK v \in Stages \cup {"unknown"} :
          /\ Observed(run.op, v)
          /\ IF v = "unknown" THEN LatchTeardown ELSE Recorded(run.op, v)
    BY <1>7 DEF Observe
  <2> QED
    BY <1>7, <1>r, <1>l, <2>1, Records DEF Observe
<1>8. CASE ObserveLast \/ Prove \/ Reprove
  <2>1. PICK v \in Stages \cup {"unknown"} :
          Observed(run.op, v) /\ Recorded(run.op, v)
    BY <1>8 DEF ObserveLast, Prove, Reprove
  <2> QED
    BY <1>8, <1>r, <2>1, Records DEF ObserveLast, Prove, Reprove
<1>9. CASE Cleanup \/ Clear \/ Crash \/ Land \/ ForeignDrift \/ PodUpdated
  BY <1>9, <1>u DEF Cleanup, Clear, Crash, Land, ForeignDrift, PodUpdated
<1> QED
  BY <1>0, <1>1, <1>2, <1>3, <1>4, <1>5, <1>6, <1>7, <1>8, <1>9
     DEF LifecycleNext, Begin, Work

\* Whatever moves a pair also says so to a reader of V3B2JournalProofs.
LEMMA JournalKept ==
  ASSUME LTypeOK, InHand, IInv, [LifecycleNext]_lifecycle
  PROVE  /\ IInv' /\ TypeOK' /\ committed'
         /\ \A op \in Ops : /\ stage[op] \in Settled => stage'[op] = stage[op]
                            /\ stage[op] # "none" => stage'[op] # "none"
         /\ mode' = mode \/ NoEvents
         /\ latched => latched'
<1>1. [Next]_vars
  BY JournalSteps
<1>2. TypeOK
  BY DEF LTypeOK
<1>3. IInv'
  BY <1>1, IInvStep
<1>4. \A op \in Ops : /\ stage[op] \in Settled => stage'[op] = stage[op]
                      /\ stage[op] # "none" => stage'[op] # "none"
  BY <1>1, <1>2, SettledStays
<1>5. /\ committed' = committed
      /\ mode' = mode \/ (NoEvents /\ stage' = stage)
      /\ latched => latched'
  BY <1>1, <1>2, Frames
<1> QED
  BY <1>3, <1>4, <1>5 DEF IInv, LTypeOK

----------------------------------------------------------------------------
\* The host stays well formed.
LEMMA WorldStep ==
  ASSUME LTypeOK, InHand, Following, OnceClaimed, [LifecycleNext]_lifecycle
  PROVE  world' \in Worlds
<1>t. world \in Worlds
  BY DEF LTypeOK
<1>1. CASE Turns
  BY <1>1 DEF Turns, Kept
<1>2. CASE Claim
  BY <1>t, <1>2 DEF Claim
<1>3. CASE Answer
  BY <1>t, <1>3 DEF Answer
<1>4. CASE Capture
  <2>1. Sources \in Captures
    BY <1>t DEF Sources, Captures, Served, Worlds
  <2>2. world' = [world EXCEPT !.captured = <<Sources>>]
    BY <1>4 DEF Capture
  <2>3. <<Sources>> \in {<<>>} \cup {<<s>> : s \in Captures}
    BY <2>1
  <2> HIDE DEF Sources
  <2> QED
    BY <1>t, <2>2, <2>3 DEF Worlds
<1>5. ASSUME NEW op \in Ops, Decides(op) PROVE world' \in Worlds
  BY <1>t, <1>5 DEF Decides
<1>6. ASSUME NEW op \in Ops, Commands(op) PROVE world' \in Worlds
  <2>1. \A w \in Outcome(op) : Touched(w, op)
    BY Outcomes
  <2> QED
    BY <1>6, <2>1 DEF Commands, Touched, ProfileTouched, ClusterTouched
<1> QED
  BY <1>1, <1>2, <1>3, <1>4, <1>5, <1>6, Kinds DEF Kind

(***************************************************************************)
(* The process keeps its own order, action by action.                      *)
(***************************************************************************)
\* What is known of the process and of the command that outlived one.
Control ==
  /\ run \in Runs /\ inflight \in Ops \cup {NoOp}
  /\ InHand /\ Following /\ OnceClaimed

\* With nothing in hand and a journal that only grew, Onward suffices.
LEMMA Releases ==
  ASSUME LTypeOK, InHand, Following, OnceClaimed, Onward, inflight' = inflight,
         run.at \notin {"configure", "latch", "recover"},
         run'.at = "step" => (run.prog \in {"unwind", "recover"} => latched'),
         run'.prog \in Modes => mode' = mode,
         \A op \in Ops : stage[op] # "none" => stage'[op] # "none"
  PROVE  Control'
<1>1. run' \in Runs /\ run'.at \notin Busy \cup Judging \cup {"answer", "cleanup", "act"}
  BY DEF Onward, Free, Busy, Judging
<1>2. InHand'
  BY <1>1 DEF InHand
<1>3. Following'
  BY <1>1 DEF Following, Onward, Free, Modes
<1>4. OnceClaimed'
  BY <1>1 DEF OnceClaimed, LTypeOK
<1> QED
  BY <1>1, <1>2, <1>3, <1>4 DEF Control, LTypeOK

\* Every step keeps what is known of the process, action by action.
LEMMA ControlStep ==
  ASSUME LTypeOK, IInv, InHand, Following, OnceClaimed, [LifecycleNext]_lifecycle
  PROVE  Control'
<1>t. /\ run \in Runs /\ inflight \in Ops \cup {NoOp} /\ world \in Worlds
      /\ stage \in [Ops -> Stages]
  BY DEF LTypeOK, TypeOK
<1>g. \A op \in Ops : stage[op] # "none" => stage'[op] # "none"
  BY JournalKept
<1>l. latched => latched'
  BY JournalKept
<1>h. /\ run.at \in Busy => run.op \in Ops /\ stage[run.op] = "pending"
      /\ Judging \subseteq Busy
      /\ {"act", "answer"} \subseteq Busy
  BY DEF InHand, Judging, Busy
<1>z. Free \cap (Busy \cup {"captured"}) = {}
  BY DEF Free, Busy
<1>0. CASE UNCHANGED lifecycle
  BY <1>0, <1>t DEF lifecycle, journal, Control, InHand, Following, OnceClaimed
<1>k. ASSUME Onward, inflight' = inflight, mode' = mode,
             run.at \notin {"configure", "latch", "recover"}
      PROVE  Control'
  <2>1. run'.at = "step" => (run.prog \in {"unwind", "recover"} => latched')
    BY <1>k, <1>l DEF Onward, Following
  <2> QED
    BY <1>k, <1>g, <2>1, Releases
<1>1. ASSUME NEW prog \in Programs \cap Forward, BeginForward(prog) PROVE Control'
  <2>1. run' = [Off EXCEPT !.prog = prog, !.at = "configure"] /\ UNCHANGED <<inflight, stage>>
    BY <1>1 DEF BeginForward, SelectMode, journal
  <2>2. prog \in Modes => mode' = prog
    BY <1>1 DEF BeginForward, SelectMode, Modes
  <2>3. run' \in Runs /\ run'.at = "configure" /\ ~run'.top /\ run'.prog = prog
    BY <2>1 DEF Off, Runs, Scripts, Places
  <2>4. InHand'
    BY <2>3 DEF InHand, Busy, Judging
  <2>5. Following'
    BY <2>2, <2>3 DEF Following, Forward, Modes
  <2>6. OnceClaimed'
    BY <2>1, <2>3 DEF OnceClaimed
  <2> QED
    BY <1>t, <2>1, <2>3, <2>4, <2>5, <2>6 DEF Control
<1>2. CASE BeginUnwind \/ BeginDown \/ BeginRecover
  <2>1. \/ run' = [Off EXCEPT !.prog = "unwind", !.at = "latch"]
        \/ run' = [Off EXCEPT !.prog = "unwind", !.at = "configure"]
        \/ run' = [Off EXCEPT !.prog = "down", !.at = "step"]
        \/ run' = [Off EXCEPT !.prog = "recover", !.at = "recover"]
    BY <1>2 DEF BeginUnwind, BeginDown, BeginRecover
  <2>2. UNCHANGED <<inflight, stage, latched>>
    BY <1>2 DEF BeginUnwind, BeginDown, BeginRecover, journal
  <2>3. /\ run' \in Runs /\ ~run'.top
        /\ \/ run'.prog = "unwind" /\ run'.at \in {"configure", "latch"}
           \/ run'.prog = "down" /\ run'.at = "step"
           \/ run'.prog = "recover" /\ run'.at = "recover"
    BY <2>1 DEF Off, Runs, Scripts, Places
  <2>4. InHand'
    BY <2>3 DEF InHand, Busy, Judging
  <2>5. Following'
    BY <2>3 DEF Following, Modes
  <2>6. OnceClaimed'
    BY <2>2, <2>3 DEF OnceClaimed
  <2> QED
    BY <1>t, <2>2, <2>3, <2>4, <2>5, <2>6 DEF Control
\* A process that goes on within its script, with nothing in its hands.
<1>s. ASSUME run' \in Runs, run'.at \in {"recover", "step", "captured", "cleared"}, run'.prog = run.prog,
             run.at # "off", ~run'.top, inflight' = inflight, mode' = mode,
             run'.at = "recover" => run.prog \in {"unwind", "recover"},
             run.prog \in {"unwind", "recover"} /\ run'.at # "recover" => latched'
      PROVE  Control'
  <2>1. InHand'
    BY <1>s DEF InHand, Busy, Judging
  <2>2. Following'
    BY <1>s DEF Following
  <2>3. OnceClaimed'
    BY <1>s, <1>g, <1>t DEF OnceClaimed
  <2> QED
    BY <1>s, <1>t, <2>1, <2>2, <2>3 DEF Control
\* A process that turns to recovery.
<1>v. ASSUME Unwind, inflight' = inflight
      PROVE  Control'
  <2>1. run' \in Runs /\ ~run'.top /\ run'.prog = "unwind" /\ run'.at = "latch"
    BY <1>v, Goes
  <2>2. InHand' /\ Following'
    BY <2>1 DEF InHand, Following, Busy, Judging, Modes
  <2>3. OnceClaimed'
    BY <1>v, <1>g, <1>t, <2>1 DEF OnceClaimed
  <2> QED
    BY <1>v, <1>t, <2>1, <2>2, <2>3 DEF Control
<1>c. CASE Configure
  <2>1. /\ run.at = "configure" /\ inflight' = inflight /\ mode' = mode
        /\ Unwind \/ (run.prog # "unwind" /\ At("step", NoOp))
    BY <1>c DEF Configure, journal
  <2>2. run.prog \in Forward \cup {"unwind"} /\ ~run.top
    BY <2>1 DEF Following
  <2>3. CASE Unwind
    BY <1>v, <2>1, <2>3
  <2>4. CASE run.prog # "unwind" /\ At("step", NoOp)
    <3>1. /\ run' \in Runs /\ run'.at = "step" /\ run'.prog = run.prog
          /\ run'.top = run.top
      BY <2>4, Goes DEF Places
    <3> QED
      BY <1>s, <2>1, <2>2, <2>4, <3>1 DEF Forward
  <2> QED
    BY <2>1, <2>3, <2>4
<1>3. CASE UnwindLatch
  <2>1. /\ run' \in Runs /\ run'.at = "recover" /\ run'.prog = run.prog
        /\ run'.top = run.top /\ run.at = "latch"
    BY <1>3, Goes DEF UnwindLatch, Places
  <2>2. inflight' = inflight /\ mode' = mode
    BY <1>3 DEF UnwindLatch, LatchTeardown
  <2> QED
    BY <1>s, <2>1, <2>2 DEF Following
<1>4. CASE Recover
  <2>1. run.at = "recover" /\ run.prog \in {"unwind", "recover"} /\ ~run.top
    BY <1>4 DEF Recover, Following
  <2>2. inflight' = inflight /\ mode' = mode
    BY <1>4 DEF Recover, LatchTeardown, journal
  <2>3. CASE run' = Off
    <3>1. run' \in Runs /\ run'.at = "off" /\ ~run'.top /\ run'.prog = "none"
      BY <2>3 DEF Off, Runs, Scripts, Places
    <3>2. InHand' /\ Following'
      BY <3>1 DEF InHand, Following, Busy, Judging, Modes
    <3>3. OnceClaimed'
      BY <2>2, <3>1, <1>g, <1>t DEF OnceClaimed
    <3> QED
      BY <2>2, <3>1, <3>2, <3>3, <1>t DEF Control
  <2>4. CASE \E op \in Pending : run' = [run EXCEPT !.at = "prove", !.op = op, !.top = TRUE]
    <3>1. PICK op \in Pending : run' = [run EXCEPT !.at = "prove", !.op = op, !.top = TRUE]
      BY <2>4
    <3>2. op \in Ops /\ stage[op] = "pending" /\ op[1] # "request"
      BY DEF Pending, Active
    <3>3. /\ run' \in Runs /\ run'.at = "prove" /\ run'.op = op /\ run'.top
          /\ run'.prog = run.prog
      BY <3>1, <3>2, <1>t DEF Runs, Places
    <3>4. stage' = stage
      BY <1>4, <3>3, Goes DEF Recover, LatchTeardown, journal, Off
    <3>5. InHand'
      BY <3>2, <3>3, <3>4 DEF InHand, Busy, Judging
    <3>6. Following'
      BY <2>1, <3>3 DEF Following, Modes
    <3>7. OnceClaimed'
      BY <2>2, <3>3, <3>4 DEF OnceClaimed
    <3> QED
      BY <2>2, <3>3, <3>5, <3>6, <3>7, <1>t DEF Control
  <2>5. CASE At("step", NoOp) /\ LatchTeardown
    <3>1. /\ run' \in Runs /\ run'.at = "step" /\ run'.prog = run.prog /\ ~run'.top
          /\ latched'
      BY <2>1, <2>5, Goes DEF Places, LatchTeardown
    <3> QED
      BY <1>s, <2>1, <2>2, <3>1
  <2> QED
    BY <1>4, <2>3, <2>4, <2>5 DEF Recover
<1>5. CASE Capture
  <2>1. run.at = "step" /\ UNCHANGED <<journal, inflight>> /\ At("captured", NoOp)
    BY <1>5 DEF Capture
  <2>2. ~run.top /\ (run.prog \in {"unwind", "recover"} => latched)
    BY <2>1 DEF Following
  <2> QED
    BY <1>s, <1>l, <2>1, <2>2, Goes DEF Places, journal
<1>d. CASE ClearFailedStart
  <2>1. /\ run.at = "step" /\ UNCHANGED <<journal, inflight>>
        /\ At("cleared", NoOp) \/ Raise
    BY <1>d, Clears DEF ClearFailedStart
  <2>2. ~run.top /\ (run.prog \in {"unwind", "recover"} => latched)
    BY <2>1 DEF Following
  <2>3. CASE At("cleared", NoOp)
    BY <1>s, <1>l, <2>1, <2>2, <2>3, Goes DEF Places, journal
  <2>4. CASE Raise
    BY <1>k, <2>1, <2>4, RunsOn DEF journal
  <2> QED
    BY <2>1, <2>3, <2>4
<1>6. CASE Claim
  <2> DEFINE op == NextOp
  <2>1. op \in Ops
    BY <1>6, WantsOps DEF Claim
  <2>2. IntentAdmitted(op) /\ stage[op] = "none" /\ stage' = [stage EXCEPT ![op] = "pending"]
        /\ UNCHANGED <<mode, latched, inflight>>
    BY <1>6 DEF Claim, Written, AppendIntent, IntentAdmitted
  <2>3. /\ run.at \in {"step", "captured", "cleared"}
        /\ \/ op[1] \in Cleanups /\ At("prove", op)
           \/ op[1] \in Noops /\ At("observe", op)
           \/ op[1] \notin Cleanups \cup Noops /\ At("act", op)
    BY <1>6 DEF Claim
  <2>4. /\ ~run.top /\ run.prog # "none"
        /\ run.prog \in {"unwind", "recover"} => latched
    BY <2>3 DEF Following
  <2> HIDE DEF op
  <2>5. /\ run' \in Runs /\ run'.op = op /\ run'.prog = run.prog /\ ~run'.top
        /\ \/ op[1] \in Cleanups /\ run'.at = "prove"
           \/ op[1] \in Noops /\ run'.at = "observe"
           \/ op[1] \notin Cleanups \cup Noops /\ run'.at = "act"
    BY <2>1, <2>3, <2>4, Goes DEF Places
  <2>6. stage'[op] = "pending"
    BY <2>1, <2>2, <1>t
  <2>7. latched => op[1] \in CleanupFamilies \cup {"driver_cancel"}
    BY <2>2 DEF IntentAdmitted, TeardownOnly
  <2>8. InHand'
    BY <2>1, <2>2, <2>5, <2>6, <2>7
       DEF InHand, Busy, Judging, Cleanups, Noops, CleanupFamilies
  <2>9. Following'
    BY <2>2, <2>4, <2>5 DEF Following
  <2>10. OnceClaimed'
    <3>1. inflight # op
      BY <2>1, <2>2, Names DEF OnceClaimed
    <3> QED
      BY <2>2, <2>5, <3>1, <1>g, <1>t DEF OnceClaimed
  <2> QED
    BY <2>2, <2>5, <2>8, <2>9, <2>10, <1>t DEF Control
<1>7. CASE Balk
  <2>1. Onward /\ UNCHANGED <<inflight, mode>>
        /\ run.at \in {"step", "captured", "cleared"}
    BY <1>7, RunsOn DEF Balk, journal
  <2> QED
    BY <2>1, <1>k
<1>8. CASE Finish \/ Crash
  <2>1. /\ run' \in Runs /\ run'.at = "off" /\ ~run'.top /\ run'.prog = "none"
    <3>1. run' = Off
      BY <1>8 DEF Finish, Crash
    <3> QED
      BY <3>1 DEF Off, Runs, Scripts, Places
  <2>2. UNCHANGED stage
    BY <1>8 DEF Finish, Crash, journal
  <2>3. \/ inflight' = inflight
        \/ run.at \in {"act", "cleanup"} /\ Orphans /\ inflight' = run.op
    BY <1>8 DEF Finish, Crash
  <2>4. InHand' /\ Following'
    BY <2>1 DEF InHand, Following, Busy, Judging, Modes
  <2>5. OnceClaimed' /\ inflight' \in Ops \cup {NoOp}
    BY <2>1, <2>2, <2>3, <1>t, <1>h DEF OnceClaimed, Busy
  <2> QED
    BY <2>1, <2>4, <2>5 DEF Control
\* The pending operation stays in hand.
<1>p. ASSUME run.at \in Busy, run' \in Runs, run'.at \in Judging \cup {"answer"},
             run'.op = run.op, run'.prog = run.prog, run'.top = run.top,
             UNCHANGED <<stage, mode, inflight>>,
             run.top => run.at \in Judging /\ run'.at \in {"prove", "cleanup", "clear", "reprove"},
             run'.at = "answer" => run.op[1] = "request" /\ world'.sent[run.op[2]] > 0,
             run'.at \in Judging => run.op[1] # "request",
             run'.at = "cleanup" => run.op[1] \in Cleanups
      PROVE  Control'
  <2>0. /\ run.at \notin {"configure", "latch", "recover", "off"}
        /\ run'.at \notin {"configure", "latch", "recover", "act"}
    BY <1>p DEF Busy, Judging
  <2>1. InHand'
    BY <1>p, <1>h, <2>0 DEF InHand
  <2>2. Following'
    BY <1>p, <2>0, <1>l DEF Following
  <2>3. OnceClaimed'
    BY <1>p, <2>0 DEF OnceClaimed
  <2> QED
    BY <1>p, <1>t, <2>1, <2>2, <2>3 DEF Control
<1>9. CASE Dispatch \/ DispatchFails \/ DispatchRefused
  <2>1. /\ run.at = "act" /\ run.op \in Ops /\ stage[run.op] = "pending" /\ ~run.top
        /\ run.prog \in {"unwind", "recover"} => latched
        /\ run.at \in Busy
    BY <1>9, <1>h DEF Dispatch, DispatchFails, DispatchRefused, Following
  <2>2. UNCHANGED <<mode, stage, inflight>>
    BY <1>9 DEF Dispatch, DispatchFails, DispatchRefused, LatchTeardown, LatchRefusal,
       journal
  <2>3. \/ At("step", NoOp) \/ Raise
        \/ run.op[1] # "request" /\ At("observe", run.op)
        \/ run.op[1] # "request" /\ At("last", run.op)
        \/ /\ Dispatch /\ run.op[1] = "request" /\ world' # world
           /\ At("answer", run.op)
    BY <1>9 DEF Dispatch, DispatchFails, DispatchRefused, Op
  <2>4. CASE At("step", NoOp)
    BY <1>s, <1>l, <2>1, <2>2, <2>4, Goes DEF Places
  <2>5. CASE Raise
    BY <1>k, <2>1, <2>2, <2>5, RunsOn
  <2>6. CASE run.op[1] # "request" /\ (At("observe", run.op) \/ At("last", run.op))
    <3>1. run' \in Runs /\ run'.at \in {"observe", "last"} /\ run'.op = run.op
          /\ run'.prog = run.prog /\ run'.top = run.top
      BY <2>1, <2>6, Goes DEF Places
    <3> QED
      BY <1>p, <2>1, <2>2, <2>6, <3>1 DEF Judging
  <2>7. CASE Dispatch /\ run.op[1] = "request" /\ world' # world /\ At("answer", run.op)
    <3>1. run' \in Runs /\ run'.at = "answer" /\ run'.op = run.op
          /\ run'.prog = run.prog /\ run'.top = run.top
      BY <2>1, <2>7, Goes DEF Places
    <3>2. run.op[2] \in Tracks
      BY <2>1, <2>7, OpsOf DEF TrackFamilies
    <3>3. world' \in {[world EXCEPT !.sent[run.op[2]] = @ + 1, !.driver[run.op[2]] = d] :
                        d \in {"exited", "broken"}}
      BY <2>7 DEF Dispatch, Effect
    <3>4. world'.sent = [world.sent EXCEPT ![run.op[2]] = @ + 1]
      BY <3>3, <1>t DEF Worlds
    <3>5. world'.sent[run.op[2]] > 0
      BY <3>2, <3>4, <1>t DEF Worlds
    <3> QED
      BY <1>p, <2>1, <2>2, <2>7, <3>1, <3>5 DEF Judging
  <2> QED
    BY <2>3, <2>4, <2>5, <2>6, <2>7
<1>10. CASE Answer
  <2>1. /\ run.at = "answer" /\ ~run.top
        /\ run.prog \in {"unwind", "recover"} => latched
    BY <1>10 DEF Answer, Following
  <2>2. UNCHANGED <<mode, inflight>> /\ At("step", NoOp)
    BY <1>10 DEF Answer, AppendRequestResult
  <2> QED
    BY <1>s, <1>l, <2>1, <2>2, Goes DEF Places
<1>m. ASSUME NEW v, Recorded(run.op, v) PROVE mode' = mode
  BY <1>m DEF Recorded, journal, AppendObservedTerminal
<1>11. CASE Observe
  <2>1. PICK v \in Stages \cup {"unknown"} :
          /\ IF v = "unknown" THEN LatchTeardown ELSE Recorded(run.op, v)
          /\ CASE v = "complete" ->
                    IF comparison' = "changed" THEN Raise ELSE Continue(run.op)
               [] v = "unknown" /\ run.op[1] \notin
                    {"application_apply", "envoy_quiesce", "publication"} ->
                    At("last", run.op)
               [] OTHER -> Raise
    BY <1>11 DEF Observe
  <2>2. run.at = "observe" /\ inflight' = inflight /\ run.at \in Judging /\ run.at \in Busy
        /\ ~run.top
    BY <1>11, <1>h DEF Observe, Judging, Following
  <2>3. mode' = mode
    BY <2>1, <1>m DEF LatchTeardown
  <2>4. \/ Raise \/ Continue(run.op)
        \/ At("last", run.op) /\ v = "unknown"
    BY <2>1
  <2>5. CASE Raise \/ Continue(run.op)
    BY <1>k, <2>2, <2>3, <2>5, RunsOn
  <2>6. CASE At("last", run.op) /\ v = "unknown"
    <3>1. run' \in Runs /\ run'.at = "last" /\ run'.op = run.op
          /\ run'.prog = run.prog /\ run'.top = run.top
      BY <2>2, <2>6, <1>h, Goes DEF Places
    <3>2. stage' = stage
      BY <2>1, <2>6 DEF LatchTeardown
    <3>3. run.op[1] # "request"
      BY <2>2 DEF InHand
    <3> QED
      BY <1>p, <2>2, <2>3, <3>1, <3>2, <3>3 DEF Judging
  <2> QED
    BY <2>4, <2>5, <2>6
<1>12. CASE ObserveLast
  <2>1. run.at = "last" /\ inflight' = inflight /\ Raise
    BY <1>12 DEF ObserveLast
  <2>2. PICK v \in Stages \cup {"unknown"} : Recorded(run.op, v)
    BY <1>12 DEF ObserveLast
  <2> QED
    BY <1>k, <1>m, <2>1, <2>2, RunsOn
<1>13. CASE Prove
  <2>1. PICK v \in Stages \cup {"unknown"} :
          /\ Recorded(run.op, v)
          /\ IF v # "unknown" THEN Settle(run.op, v)
             ELSE IF v = Verdict(run.op) /\ CleanupPermitted(run.op)
               THEN At("cleanup", run.op)
             ELSE IF run.op = Op("profile_delete") THEN At("clear", run.op)
             ELSE Settle(run.op, v)
    BY <1>13 DEF Prove
  <2>2. run.at = "prove" /\ inflight' = inflight /\ run.at \in Judging /\ run.at \in Busy
    BY <1>13, <1>h DEF Prove, Judging
  <2>3. mode' = mode
    BY <2>1, <1>m
  <2>4. \/ Settle(run.op, v)
        \/ v = "unknown" /\ run.op[1] \in Cleanups /\ At("cleanup", run.op)
        \/ v = "unknown" /\ At("clear", run.op)
    BY <2>1 DEF CleanupPermitted, Cleanups
  <2>5. CASE Settle(run.op, v)
    BY <1>k, <2>2, <2>3, <2>5, RunsOn
  <2>6. CASE v = "unknown" /\ ((run.op[1] \in Cleanups /\ At("cleanup", run.op))
                               \/ At("clear", run.op))
    <3>1. run' \in Runs /\ run'.at \in {"cleanup", "clear"} /\ run'.op = run.op
          /\ run'.prog = run.prog /\ run'.top = run.top
          /\ (run'.at = "cleanup" => run.op[1] \in Cleanups)
      BY <2>2, <2>6, <1>h, Goes DEF Places
    <3>2. stage' = stage
      BY <2>1, <2>6 DEF Recorded, journal
    <3>3. run.op[1] # "request"
      BY <2>2 DEF InHand
    <3> QED
      BY <1>p, <2>2, <2>3, <3>1, <3>2, <3>3 DEF Judging
  <2> QED
    BY <2>4, <2>5, <2>6
<1>14. CASE Cleanup
  <2>1. /\ run.at = "cleanup" /\ UNCHANGED <<journal, inflight>>
        /\ At("clear", run.op) \/ Raise
        /\ run.at \in Judging /\ run.at \in Busy /\ run.op[1] # "request"
    BY <1>14, <1>h DEF Cleanup, Judging, InHand
  <2>2. CASE Raise
    BY <1>k, <2>1, <2>2, RunsOn DEF journal
  <2>3. CASE At("clear", run.op)
    <3>1. run' \in Runs /\ run'.at = "clear" /\ run'.op = run.op
          /\ run'.prog = run.prog /\ run'.top = run.top
      BY <2>1, <2>3, <1>h, Goes DEF Places
    <3> QED
      BY <1>p, <2>1, <3>1 DEF Judging, journal
  <2> QED
    BY <2>1, <2>2, <2>3
<1>15. CASE Clear
  <2>1. /\ run.at = "clear" /\ UNCHANGED <<journal, inflight>>
        /\ At("reprove", run.op) \/ Raise
    BY <1>15, Clears DEF Clear
  <2>2. run.at \in Judging /\ run.at \in Busy /\ run.op[1] # "request"
    BY <2>1, <1>h DEF Judging, InHand
  <2>3. CASE At("reprove", run.op)
    <3>1. run' \in Runs /\ run'.at = "reprove" /\ run'.op = run.op
          /\ run'.prog = run.prog /\ run'.top = run.top
      BY <2>2, <2>3, <1>h, Goes DEF Places
    <3> QED
      BY <1>p, <2>1, <2>2, <3>1 DEF Judging, journal
  <2>4. CASE Raise
    BY <1>k, <2>1, <2>4, RunsOn DEF journal
  <2> QED
    BY <2>1, <2>3, <2>4
<1>16. CASE Reprove
  <2>1. PICK v \in Stages \cup {"unknown"} : Recorded(run.op, v) /\ Settle(run.op, v)
    BY <1>16 DEF Reprove
  <2>2. run.at = "reprove" /\ inflight' = inflight
    BY <1>16 DEF Reprove
  <2> QED
    BY <1>k, <1>m, <2>1, <2>2, RunsOn
<1>17. CASE Land
  <2>1. inflight' = NoOp /\ UNCHANGED <<journal, run>>
    BY <1>17 DEF Land
  <2>2. run.at = "answer" => world'.sent[run.op[2]] > 0
    <3>1. world' \in Outcome(inflight) /\ inflight \in Ops
      BY <1>17, <1>t DEF Land, Outcome
    <3>2. Touched(world', inflight)
      BY <3>1, Outcomes
    <3>3. run.at = "answer" => run.op[2] \in Tracks
      BY <1>h, OpsOf DEF InHand, TrackFamilies
    <3>4. world.sent \in [Tracks -> Nat]
      BY <1>t DEF Worlds
    <3>5. run.at = "answer" => world.sent[run.op[2]] > 0
      BY DEF InHand
    <3>6. \/ world'.sent = world.sent
          \/ world'.sent = [world.sent EXCEPT ![inflight[2]] = @ + 1]
      BY <3>2 DEF Touched, ProfileTouched, ClusterTouched
    <3> QED
      BY <3>3, <3>4, <3>5, <3>6
  <2>3. InHand' /\ Following'
    BY <2>1, <2>2 DEF InHand, Following, journal
  <2>4. OnceClaimed'
    BY <2>1, <1>h, Names DEF OnceClaimed
  <2> QED
    BY <2>1, <2>3, <2>4, <1>t DEF Control
<1>18. CASE ForeignDrift \/ PodUpdated
  <2>1. UNCHANGED <<journal, inflight, run>>
    BY <1>18 DEF ForeignDrift, PodUpdated
  <2>2. world'.sent = world.sent
    BY <1>18, <1>t DEF ForeignDrift, PodUpdated, Worlds
  <2> QED
    BY <2>1, <2>2, <1>t DEF Control, InHand, Following, OnceClaimed, journal
<1> QED
  BY <1>0, <1>1, <1>2, <1>3, <1>4, <1>5, <1>6, <1>7, <1>8, <1>9, <1>10, <1>11,
     <1>12, <1>13, <1>14, <1>15, <1>16, <1>17, <1>18, <1>c, <1>d
     DEF LifecycleNext, Begin, Work

\* Types and control.
LEMMA ControlKept ==
  ASSUME LTypeOK, IInv, InHand, Following, OnceClaimed, [LifecycleNext]_lifecycle
  PROVE  LTypeOK' /\ InHand' /\ Following' /\ OnceClaimed'
BY ControlStep, WorldStep, JournalKept DEF Control, LTypeOK

----------------------------------------------------------------------------
(***************************************************************************)
(* How one pair moves, and who may still act.                              *)
(***************************************************************************)
\* The part of the invariant every lemma below rests on.
Core == LTypeOK /\ IInv /\ InHand /\ Following /\ OnceClaimed

\* The intent of op is written in this step.
Intends(op) ==
  /\ Claim /\ NextOp = op
  /\ IntentAdmitted(op) /\ Ready(op) /\ Wanted
  /\ run.at \in {"step", "captured", "cleared"}
  /\ stage[op] = "none" /\ stage'[op] = "pending"
  /\ UNCHANGED <<mode, latched, comparison, inflight>>
  /\ run'.op = op
  /\ op[1] \notin Cleanups \cup Noops \/ run'.at # "act"

\* A claim writes the intent the script wants, and that alone.
LEMMA Claims ==
  ASSUME Core, Claim
  PROVE  /\ NextOp \in Ops /\ Intends(NextOp)
         /\ stage' = [stage EXCEPT ![NextOp] = "pending"]
         /\ Kept /\ world'.captured = world.captured
         /\ run'.at \in {"prove", "observe", "act"}
<1>t. world \in Worlds /\ stage \in [Ops -> Stages] /\ LTypeOK
  BY DEF Core, LTypeOK, TypeOK
<1>1. NextOp \in Ops /\ Wanted
  BY <1>t, WantsOps, Wants DEF Claim
<1>2. /\ IntentAdmitted(NextOp) /\ Ready(NextOp)
      /\ run.at \in {"step", "captured", "cleared"}
      /\ stage' = [stage EXCEPT ![NextOp] = "pending"]
      /\ UNCHANGED <<mode, latched, comparison, inflight>>
  BY DEF Claim, Written, AppendIntent
<1>3. stage[NextOp] = "none" /\ stage'[NextOp] = "pending"
  BY <1>1, <1>2, <1>t DEF IntentAdmitted
<1>4. \/ NextOp[1] \in Cleanups /\ At("prove", NextOp)
      \/ NextOp[1] \in Noops /\ At("observe", NextOp)
      \/ NextOp[1] \notin Cleanups \cup Noops /\ At("act", NextOp)
  BY DEF Claim
<1>5. /\ run'.op = NextOp /\ run'.at \in {"prove", "observe", "act"}
      /\ NextOp[1] \notin Cleanups \cup Noops \/ run'.at # "act"
  BY <1>4, <1>t, Goes
<1>7. Kept /\ world'.captured = world.captured
  BY <1>t, KeptAsIs DEF Claim
<1> QED
  BY <1>1, <1>2, <1>3, <1>5, <1>7 DEF Intends

\* The answer of the request in hand is written in this step.
LEMMA Answers ==
  ASSUME Core, Answer
  PROVE  /\ run.op \in Ops /\ run.op[1] = "request" /\ run.op[2] \in Tracks
         /\ run.op = <<"request", run.op[2]>>
         /\ stage[run.op] = "pending"
         /\ stage' = [stage EXCEPT ![run.op] = "complete"]
         /\ ResultAdmitted(run.op[2])
         /\ world.sent[run.op[2]] > 0
         /\ Kept /\ UNCHANGED <<world, inflight, mode, latched, comparison>>
         /\ run'.at = "step"
<1>1. run.at = "answer" /\ run.op \in Ops /\ stage[run.op] = "pending"
      /\ run.op[1] = "request" /\ world.sent[run.op[2]] > 0
  BY DEF Answer, Core, InHand, Busy
<1>2. run.op[2] \in Tracks /\ run.op = <<"request", run.op[2]>>
  BY <1>1, OpsOf DEF TrackFamilies
<1>3. /\ AppendRequestResult(run.op[2]) /\ UNCHANGED <<world, inflight>>
      /\ At("step", NoOp)
  BY DEF Answer
<1>4. Kept /\ run'.at = "step"
  BY <1>3, KeptAsIs, Goes DEF Core
<1> QED
  BY <1>1, <1>2, <1>3, <1>4 DEF AppendRequestResult

\* What Capture leaves.
LEMMA Captured ==
  ASSUME Core, Capture
  PROVE  /\ UNCHANGED <<committed, mode, stage, latched, comparison, inflight>>
         /\ Kept
         /\ world'.captured = <<Sources>> /\ Sources.served = Served
         /\ run'.at = "captured"
<1>t. world \in Worlds /\ LTypeOK
  BY DEF Core, LTypeOK
<1>1. /\ world' = [world EXCEPT !.captured = <<Sources>>]
      /\ UNCHANGED <<journal, inflight>> /\ At("captured", NoOp)
  BY DEF Capture
<1>2. world' \in Worlds
  BY WorldStep DEF Core, LifecycleNext, Work
<1>3. Kept /\ world'.captured = <<Sources>>
  BY <1>1, <1>2, <1>t DEF Kept, Worlds
<1>4. Sources.served = Served
  BY DEF Sources
<1> QED
  BY <1>1, <1>3, <1>4, <1>t, Goes DEF journal

Act == [LifecycleNext]_lifecycle

\* A pair moves by its intent, by its decision or, a request, by its answer.
LEMMA Pairs ==
  ASSUME Core, Act
  PROVE  \A op \in Ops :
           /\ stage[op] = "none" /\ stage'[op] # "none" => Intends(op)
           /\ stage[op] # "none" /\ stage'[op] # stage[op] =>
                \/ Decides(op) /\ stage'[op] = Verdict(op)
                \/ Answer /\ run.op = op /\ op[1] = "request" /\ stage'[op] = "complete"
           /\ stage[op] # "none" => stage'[op] # "none"
           /\ stage[op] \in Settled => stage'[op] = stage[op]
<1>t. stage \in [Ops -> Stages]
  BY DEF Core, LTypeOK, TypeOK
<1>k. Kind
  BY Kinds DEF Core, Act
<1> SUFFICES ASSUME NEW op \in Ops
             PROVE /\ stage[op] = "none" /\ stage'[op] # "none" => Intends(op)
                   /\ stage[op] # "none" /\ stage'[op] # stage[op] =>
                        \/ Decides(op) /\ stage'[op] = Verdict(op)
                        \/ Answer /\ run.op = op /\ op[1] = "request" /\ stage'[op] = "complete"
                   /\ stage[op] # "none" => stage'[op] # "none"
                   /\ stage[op] \in Settled => stage'[op] = stage[op]
  OBVIOUS
<1>j. /\ stage[op] # "none" => stage'[op] # "none"
      /\ stage[op] \in Settled => stage'[op] = stage[op]
  BY JournalKept DEF Core, Act
<1>1. CASE stage' = stage
  BY <1>1
<1>2. CASE Claim
  <2>1. Intends(NextOp) /\ stage' = [stage EXCEPT ![NextOp] = "pending"]
    BY <1>2, Claims
  <2>2. stage[NextOp] = "none"
    BY <2>1 DEF Intends
  <2>3. CASE op = NextOp
    <3>1. Intends(op)
      BY <2>1, <2>3 DEF Intends
    <3> QED
      BY <2>2, <2>3, <3>1, <1>j
  <2>4. CASE op # NextOp
    <3>1. stage'[op] = stage[op]
      BY <2>1, <2>4, <1>t
    <3> QED
      BY <3>1
  <2> QED
    BY <2>3, <2>4
<1>3. CASE Answer
  BY <1>3, <1>t, <1>j, Answers
<1>4. ASSUME NEW o \in Ops, Decides(o)
      PROVE  /\ stage[op] = "none" /\ stage'[op] # "none" => Intends(op)
             /\ stage[op] # "none" /\ stage'[op] # stage[op] =>
                  Decides(op) /\ stage'[op] = Verdict(op)
  <2>1. CASE o = op
    BY <1>4, <1>t, <2>1 DEF Decides
  <2>2. CASE o # op
    BY <1>4, <1>t, <2>2 DEF Decides
  <2> QED
    BY <2>1, <2>2
<1> QED
  BY <1>k, <1>j, <1>1, <1>2, <1>3, <1>4, Captured DEF Kind, Turns, Commands

\* The host stays, or a command of an operation touches it.
LEMMA Hosts ==
  ASSUME Core, Act
  PROVE  \/ Kept
         \/ \E op \in Ops : Commands(op) /\ Touched(world', op) /\ stage' = stage
<1>k. Kind
  BY Kinds DEF Core, Act
<1>1. ASSUME NEW op \in Ops, Decides(op) PROVE Kept
  BY <1>1, KeptAsIs DEF Decides, Core
<1>2. ASSUME NEW op \in Ops, Commands(op)
      PROVE  Commands(op) /\ Touched(world', op) /\ stage' = stage
  <2>1. \A w \in Outcome(op) : Touched(w, op)
    BY Outcomes DEF Core
  <2> QED
    BY <1>2, <2>1 DEF Commands
<1> QED
  BY <1>k, <1>1, <1>2, Claims, Answers, Captured DEF Kind, Turns

\* A command that may act was claimed, and acts anew only with its claim.
LEMMA Actors ==
  ASSUME Core, Act
  PROVE  \A op \in Ops :
           /\ Acting(op) => stage[op] # "none"
           /\ Acting(op) /\ ~Orphans => stage[op] = "pending"
           /\ op[1] \notin Cleanups /\ Acting(op)' => Acting(op) \/ Intends(op)
           /\ Commands(op) /\ op[1] \notin Cleanups => ~Acting(op)'
<1>k. Kind
  BY Kinds DEF Core, Act
<1>r. run \in Runs
  BY DEF Core, LTypeOK
<1> SUFFICES ASSUME NEW op \in Ops
             PROVE
           /\ Acting(op) => stage[op] # "none"
           /\ Acting(op) /\ ~Orphans => stage[op] = "pending"
           /\ op[1] \notin Cleanups /\ Acting(op)' => Acting(op) \/ Intends(op)
           /\ Commands(op) /\ op[1] \notin Cleanups => ~Acting(op)'
  OBVIOUS
<1>1. /\ Acting(op) => stage[op] # "none"
      /\ Acting(op) /\ ~Orphans => stage[op] = "pending"
  BY Names DEF Acting, Core, InHand, OnceClaimed, Busy
<1>2. ASSUME op[1] \notin Cleanups, Acting(op)'
      PROVE  Acting(op) \/ Intends(op)
  <2>1. CASE Claim
    BY <1>2, <2>1, Claims DEF Acting, Intends
  <2>2. CASE Answer
    BY <1>2, <2>2, Answers DEF Acting
  <2>3. CASE Capture
    BY <1>2, <2>3, Captured DEF Acting
  <2>4. ASSUME NEW o \in Ops, Decides(o) PROVE Acting(op)
    BY <1>2, <2>4 DEF Acting, Decides, Onward, Free
  <2> QED
    BY <1>k, <1>2, <2>1, <2>2, <2>3, <2>4 DEF Kind, Turns, Commands
<1> QED
  BY <1>1, <1>2 DEF Commands

Owns == SetupFamilies \cup CleanupFamilies \cup {"publication"}

\* The same of the pairs without a track.
LEMMA Singles ==
  ASSUME Core, Act
  PROVE  \A f \in Owns :
           /\ Op(f) \in Ops /\ Op(f)[1] = f
           /\ Stage(f) \in Stages
           /\ Stage(f) = "none" /\ Stage(f)' # "none" => Intends(Op(f))
           /\ Stage(f) # "none" /\ Stage(f)' # Stage(f) =>
                Decides(Op(f)) /\ Stage(f)' = Verdict(Op(f))
           /\ Stage(f) # "none" => Stage(f)' # "none"
           /\ Stage(f) \in Settled => Stage(f)' = Stage(f)
           /\ Done(f) => Done(f)'
<1> SUFFICES ASSUME NEW f \in Owns
             PROVE  /\ Op(f) \in Ops /\ Op(f)[1] = f
                    /\ Stage(f) \in Stages
                    /\ Stage(f) = "none" /\ Stage(f)' # "none" => Intends(Op(f))
                    /\ Stage(f) # "none" /\ Stage(f)' # Stage(f) =>
                         Decides(Op(f)) /\ Stage(f)' = Verdict(Op(f))
                    /\ Stage(f) # "none" => Stage(f)' # "none"
                    /\ Stage(f) \in Settled => Stage(f)' = Stage(f)
                    /\ Done(f) => Done(f)'
  OBVIOUS
<1>1. Op(f) \in Ops /\ Op(f)[1] = f /\ f # "request"
  BY Names DEF Owns, Op, SetupFamilies, CleanupFamilies
<1>2. stage[Op(f)] \in Stages
  BY <1>1 DEF Core, LTypeOK, TypeOK
<1>3. Stage(f) = stage[Op(f)] /\ Stage(f)' = stage'[Op(f)]
  BY DEF Stage
<1>4. "complete" \in Settled
  BY DEF Settled
<1> QED
  BY <1>1, <1>2, <1>3, <1>4, Pairs DEF Done

\* Where cluster_delete or profile_stop is wanted, teardown wants it, behind
\* the latch or behind the whole setup.
LEMMA Destroys ==
  ASSUME Core, SetupChain, HistoryLinks, NEW op \in Ops, Intends(op),
         op[1] \in {"cluster_delete", "profile_stop"}
  PROVE  /\ op = TeardownOp
         /\ latched \/ (Done("readiness") /\ Done("cluster_create"))
<1>1. \A i \in 1..7 : Op(SetupSequence[i])[1] \notin {"cluster_delete", "profile_stop"}
  BY DEF Op, SetupSequence
<1>2. SetupLeft \subseteq 1..7
  BY DEF SetupLeft
<1>3. /\ op = TeardownOp
      /\ run.prog \in Forward => SetupLeft = {}
      /\ run.prog = "down" => Done("evidence_freeze")
  BY <1>1, <1>2 DEF Intends, Wanted, Op, NoOp
<1>4. Done("readiness") => Done("cluster_create")
  <2>1. /\ Done(SetupSequence[7]) => Done(SetupSequence[6])
        /\ Done(SetupSequence[6]) => Done(SetupSequence[5])
        /\ Done(SetupSequence[5]) => Done(SetupSequence[4])
        /\ Done(SetupSequence[4]) => Done(SetupSequence[3])
        /\ Done(SetupSequence[3]) => Done(SetupSequence[2])
    BY DEF SetupChain, Done
  <2> QED
    BY <2>1 DEF SetupSequence
<1>5. SetupLeft = {} => Done("readiness")
  <2>1. SetupLeft = {} => Done(SetupSequence[7])
    BY DEF SetupLeft
  <2> QED
    BY <2>1 DEF SetupSequence
<1>6. Done("evidence_freeze") => Done("readiness")
  BY DEF HistoryLinks, Done
<1>7. run.prog \in Forward \cup {"down"} \/ latched
  <2>1. run.prog \in {"unwind", "recover"} => latched
    BY DEF Core, Following, Intends
  <2>2. run.prog # "none"
    BY DEF Core, Following, Intends
  <2> QED
    BY <2>1, <2>2 DEF Core, LTypeOK, Runs, Scripts
<1> QED
  BY <1>3, <1>4, <1>5, <1>6, <1>7

----------------------------------------------------------------------------
(***************************************************************************)
(* The journal's links, one lemma each.                                    *)
(***************************************************************************)
\* Every stage of the setup rests on the one before it.
LEMMA SetupChainKept ==
  ASSUME Core, SetupChain, Act
  PROVE  SetupChain'
<1> SUFFICES ASSUME NEW i \in 1..6, Stage(SetupSequence[i + 1])' # "none"
             PROVE  Done(SetupSequence[i])'
  BY DEF SetupChain
<1>1. SetupSequence[i] \in Owns /\ SetupSequence[i + 1] \in Owns
  BY DEF SetupSequence, Owns, SetupFamilies
<1>2. Done(SetupSequence[i])
  <2>1. CASE Stage(SetupSequence[i + 1]) # "none"
    BY <2>1 DEF SetupChain
  <2>2. CASE Stage(SetupSequence[i + 1]) = "none"
    <3>1. SetupOrder(SetupSequence[i + 1])
      BY <1>1, <2>2, Singles DEF Intends, IntentAdmitted
    <3> QED
      BY <3>1 DEF SetupOrder, SetupSequence
  <2> QED
    BY <2>1, <2>2
<1> QED
  BY <1>1, <1>2, Singles

\* Each link of the history is made when the later intent is written.
LEMMA HistoryLinksKept ==
  ASSUME Core, HistoryLinks, DestructionLinks, Act
  PROVE  HistoryLinks'
<1>o. {"evidence_freeze", "readiness", "cluster_delete", "cluster_create",
       "cluster_absence_proof", "profile_stop", "foreign_snapshot_comparison"}
        \subseteq Owns
  BY DEF Owns, SetupFamilies, CleanupFamilies
<1>n. ASSUME NEW f \in Owns, Stage(f) = "none", Stage(f)' # "none"
      PROVE  /\ f = "evidence_freeze" => FreezeOrder
             /\ TeardownOrder(f) /\ Intends(Op(f))
  BY <1>n, Singles DEF Intends, IntentAdmitted
<1>1. Stage("evidence_freeze")' # "none" => Done("readiness")'
  BY <1>o, <1>n, Singles DEF HistoryLinks, FreezeOrder
<1>2. Stage("cluster_delete")' # "none" => ClusterOwned'
  <2>1. Stage("cluster_delete")' # "none" => ClusterOwned
    BY <1>o, <1>n DEF HistoryLinks, TeardownOrder
  <2> QED
    BY <2>1, <1>o, Singles DEF ClusterOwned, Settled
<1>3. Stage("cluster_absence_proof")' # "none" => Done("cluster_delete")'
  BY <1>o, <1>n, Singles DEF HistoryLinks, TeardownOrder
<1>4. Stage("profile_stop")' # "none" /\ ClusterOwned' => Done("cluster_absence_proof")'
  <2> SUFFICES ASSUME Stage("profile_stop")' # "none", ClusterOwned'
               PROVE  Done("cluster_absence_proof")
    BY <1>o, Singles
  <2>1. CASE Stage("profile_stop") # "none"
    <3>1. Stage("cluster_create") # "pending"
      BY <2>1 DEF DestructionLinks
    <3>2. Stage("cluster_create") # "none"
      <4>1. Stage("cluster_create") = "none" => Stage("cluster_create")' \in {"none", "pending"}
        BY <1>o, Singles DEF Intends, Stage
      <4> QED
        BY <4>1 DEF ClusterOwned
    <3>3. Stage("cluster_create") \in Settled
      BY <3>1, <3>2, <1>o, Singles DEF Stages, Settled
    <3>4. ClusterOwned
      BY <3>3, <1>o, Singles DEF ClusterOwned
    <3> QED
      BY <2>1, <3>4 DEF HistoryLinks
  <2>2. CASE Stage("profile_stop") = "none"
    <3>1. Intends(Op("profile_stop")) /\ TeardownOrder("profile_stop")
      BY <2>2, <1>o, <1>n
    <3>2. stage' = [stage EXCEPT ![Op("profile_stop")] = "pending"]
      BY <3>1, Claims DEF Intends
    <3>3. Op("cluster_create") # Op("profile_stop") /\ Op("cluster_create") \in Ops
      BY <1>o, Singles DEF Op
    <3>4. Stage("cluster_create")' = Stage("cluster_create")
      BY <3>2, <3>3 DEF Stage, Core, LTypeOK, TypeOK
    <3> QED
      BY <3>1, <3>4 DEF TeardownOrder, ClusterOwned
  <2> QED
    BY <2>1, <2>2
<1>5. comparison' # "none" => Done("foreign_snapshot_comparison")'
  <2>1. CASE comparison' = comparison
    BY <2>1, <1>o, Singles DEF HistoryLinks
  <2>2. CASE comparison' # comparison
    <3>1. PICK op \in Ops : Decides(op)
      BY <2>2, Kinds, Claims, Answers, Captured
         DEF Core, Act, Kind, Turns, Commands, Intends
    <3>2. op = Op("foreign_snapshot_comparison") /\ Verdict(op) = "complete"
      BY <2>2, <3>1 DEF Decides
    <3> QED
      BY <3>1, <3>2 DEF Decides, Done, Stage, Core, LTypeOK, TypeOK
  <2> QED
    BY <2>1, <2>2
<1> QED
  BY <1>1, <1>2, <1>3, <1>4, <1>5 DEF HistoryLinks

\* No verdict but that of a start is a failure.
LEMMA OnlyStartFailsKept ==
  ASSUME Core, OnlyStartFails, Act
  PROVE  OnlyStartFails'
<1> SUFFICES ASSUME NEW op \in Ops, stage'[op] = "failed"
             PROVE  op = Op("profile_start")
  BY DEF OnlyStartFails, Ops, Op, Tracks
<1>1. CASE stage[op] = "failed"
  BY <1>1 DEF OnlyStartFails
<1>2. CASE stage[op] # "failed"
  <2>1. stage'[op] = Verdict(op)
    BY <1>2, Pairs DEF Intends
  <2> QED
    BY <2>1, Verdicts
<1> QED
  BY <1>1, <1>2

\* Destruction is intended behind the evidence and never overtaken by setup.
LEMMA DestructionLinksKept ==
  ASSUME Core, SetupChain, HistoryLinks, DestructionLinks, Act
  PROVE  DestructionLinks'
<1>o. {"evidence_freeze", "readiness", "cluster_delete", "cluster_create",
       "profile_stop"} \subseteq Owns
  BY DEF Owns, SetupFamilies, CleanupFamilies
<1>l. latched => latched'
  BY JournalKept DEF Core, Act
<1>c. committed
  BY DEF Core, LTypeOK
<1>1. ASSUME Stage("cluster_delete")' # "none"
      PROVE  /\ latched' \/ Done("readiness")'
             /\ Done("readiness")' => Done("evidence_freeze")'
  <2>1. /\ latched \/ Done("readiness")
        /\ Done("readiness") => Done("evidence_freeze")
    <3>1. CASE Stage("cluster_delete") # "none"
      BY <3>1 DEF DestructionLinks
    <3>2. CASE Stage("cluster_delete") = "none"
      <4>1. Intends(Op("cluster_delete")) /\ Op("cluster_delete") \in Ops
            /\ Op("cluster_delete")[1] = "cluster_delete"
        BY <1>1, <3>2, <1>o, Singles
      <4>2. /\ Op("cluster_delete") = TeardownOp
            /\ latched \/ (Done("readiness") /\ Done("cluster_create"))
        BY <4>1, Destroys
      <4>3. ~EvidenceDue
        BY <4>1, <4>2, Teardowns DEF Core, LTypeOK
      <4> QED
        BY <4>2, <4>3 DEF EvidenceDue
    <3> QED
      BY <3>1, <3>2
  <2>2. Done("readiness")' => Done("readiness")
    <3> SUFFICES ASSUME Done("readiness")', ~Done("readiness") PROVE FALSE
      OBVIOUS
    <3>1. latched
      BY <2>1
    <3>2. Stage("readiness") # "none"
      BY <1>o, Singles DEF Intends, Done, Stage
    <3>3. Decides(Op("readiness")) /\ Verdict(Op("readiness")) = "complete"
      BY <3>2, <1>o, Singles DEF Done
    <3> QED
      BY <3>1, <3>3, <1>c DEF Decides, DecisionAdmitted, Op, SetupFamilies
  <2> QED
    BY <2>1, <2>2, <1>l, <1>o, Singles
<1>2. ASSUME Stage("profile_stop")' # "none"
      PROVE  /\ Stage("cluster_create")' # "pending"
             /\ Stage("cluster_create")' = "none" => latched'
  <2>1. /\ Stage("cluster_create") # "pending"
        /\ Stage("cluster_create") = "none" => latched
    <3>1. CASE Stage("profile_stop") # "none"
      BY <3>1 DEF DestructionLinks
    <3>2. CASE Stage("profile_stop") = "none"
      <4>1. Intends(Op("profile_stop")) /\ Op("profile_stop") \in Ops
            /\ Op("profile_stop")[1] = "profile_stop"
        BY <1>2, <3>2, <1>o, Singles
      <4>2. latched \/ (Done("readiness") /\ Done("cluster_create"))
        BY <4>1, Destroys
      <4>3. Idle /\ Op("cluster_create") \in Ops /\ Op("cluster_create")[1] = "cluster_create"
        BY <4>1, <1>o, Singles DEF Intends, IntentAdmitted
      <4>4. Stage("cluster_create") # "pending"
        BY <4>3 DEF Idle, Active, Stage
      <4> QED
        BY <4>2, <4>4 DEF Done
    <3> QED
      BY <3>1, <3>2
  <2>2. Stage("cluster_create")' # "pending"
    <3> SUFFICES ASSUME Stage("cluster_create")' = "pending" PROVE FALSE
      OBVIOUS
    <3>1. Stage("cluster_create") = "none" /\ latched
      BY <2>1, <1>o, Singles DEF Stages, Settled
    <3>2. Intends(Op("cluster_create")) /\ Op("cluster_create")[1] = "cluster_create"
      BY <3>1, <1>o, Singles
    <3> QED
      BY <3>1, <3>2 DEF Intends, IntentAdmitted, TeardownOnly, CleanupFamilies
  <2>3. Stage("cluster_create")' = "none" => Stage("cluster_create") = "none"
    BY <1>o, Singles
  <2> QED
    BY <2>1, <2>2, <2>3, <1>l
<1> QED
  BY <1>1, <1>2 DEF DestructionLinks

----------------------------------------------------------------------------
(***************************************************************************)
(* The host against the journal.                                           *)
(***************************************************************************)
\* A request acts only while it is claimed and unsent, so it goes out once.
LEMMA SentKept ==
  ASSUME Core, Act, NEW t \in Tracks, Sent(t)
  PROVE  Sent(t)'
<1> DEFINE op == <<"request", t>>
<1>1. op \in Ops /\ op[1] = "request" /\ op[1] \notin Cleanups /\ op[2] = t
  BY Names DEF Cleanups
<1>s. /\ Acting(op) => world.sent[t] = 0
      /\ world.sent[t] <= 1
      /\ world.sent[t] > 0 => stage[op] # "none"
      /\ stage[op] = "complete" => world.sent[t] > 0
  BY DEF Sent
<1>n. world.sent \in [Tracks -> Nat]
  BY DEF Core, LTypeOK, Worlds
<1> HIDE DEF op
<1>a. Acting(op)' => Acting(op) \/ Intends(op)
  BY <1>1, Actors
<1>c. stage'[op] = "complete" => stage[op] = "complete" \/ world.sent[t] > 0
  <2>1. stage'[op] = "complete" /\ stage[op] = "none" => FALSE
    BY <1>1, Pairs DEF Intends
  <2>2. ~Decides(op)
    BY <1>1 DEF Decides, TerminalAdmitted
  <2>3. Answer /\ run.op = op => world.sent[t] > 0
    BY <1>1, Answers
  <2> QED
    BY <1>1, <2>1, <2>2, <2>3, Pairs
<1>2. CASE Kept
  <2>1. world'.sent = world.sent
    BY <1>2 DEF Kept
  <2>2. Intends(op) => world.sent[t] = 0
    BY <1>s, <1>n DEF Intends
  <2>3. /\ Acting(op)' => world'.sent[t] = 0
        /\ world'.sent[t] <= 1
        /\ world'.sent[t] > 0 => stage'[op] # "none"
        /\ stage'[op] = "complete" => world'.sent[t] > 0
    BY <1>1, <1>s, <1>a, <1>c, <2>1, <2>2, Pairs
  <2> QED
    BY <2>3 DEF Sent, op
<1>3. ASSUME NEW o \in Ops, Commands(o), Touched(world', o), stage' = stage
      PROVE  Sent(t)'
  <2>1. CASE o = op
    <3>1. ~Acting(op)' /\ Acting(op)
      BY <1>1, <1>3, <2>1, Actors DEF Commands
    <3>2. world.sent[t] = 0 /\ stage[op] # "none"
      BY <1>1, <1>s, <3>1, Actors
    <3>3. world'.sent[t] = 0 \/ world'.sent[t] = 1
      BY <1>1, <1>3, <1>n, <2>1, <3>2 DEF Touched, ProfileTouched, ClusterTouched
    <3>4. stage[op] # "complete"
      BY <1>s, <3>2
    <3>5. /\ Acting(op)' => world'.sent[t] = 0
          /\ world'.sent[t] <= 1
          /\ world'.sent[t] > 0 => stage'[op] # "none"
          /\ stage'[op] = "complete" => world'.sent[t] > 0
      BY <1>3, <3>1, <3>2, <3>3, <3>4
    <3> QED
      BY <3>5 DEF Sent, op
  <2>2. CASE o # op
    <3>1. o[1] = "request" => o[2] # t
      BY <1>1, <2>2, OpsOf DEF op
    <3>2. world'.sent[t] = world.sent[t]
      BY <1>3, <1>n, <3>1 DEF Touched, ProfileTouched, ClusterTouched
    <3>3. Acting(op)' => Acting(op)
      BY <1>1, <1>3 DEF Commands
    <3>4. /\ Acting(op)' => world'.sent[t] = 0
          /\ world'.sent[t] <= 1
          /\ world'.sent[t] > 0 => stage'[op] # "none"
          /\ stage'[op] = "complete" => world'.sent[t] > 0
      BY <1>3, <1>s, <3>2, <3>3
    <3> QED
      BY <3>4 DEF Sent, op
  <2> QED
    BY <2>1, <2>2
<1> QED
  BY <1>2, <1>3, Hosts

\* A start acts on an absent profile, and nothing that was proved absent
\* comes back.
LEMMA ProfileLinksKept ==
  ASSUME Core, Act, ProfileLinks
  PROVE  ProfileLinks'
<1> DEFINE op == Op("profile_start")
<1>o. {"profile_start", "profile_stop", "profile_delete", "profile_absence_proof"}
        \subseteq Owns
  BY DEF Owns, SetupFamilies, CleanupFamilies
<1>1. /\ op \in Ops /\ op[1] = "profile_start" /\ op[1] \notin Cleanups
      /\ Stage("profile_start") = stage[op] /\ Stage("profile_start")' = stage'[op]
  BY <1>o, Singles DEF Cleanups, Stage
<1>d. Done("profile_absence_proof") /\ Stage("profile_start") # "failed" =>
        Stage("profile_start") \in {"complete", "abandoned"}
  BY DEF Core, IInv, TeardownLinks, Done
<1>p. ASSUME NEW o \in Ops, Commands(o), Touched(world', o), o # op,
             world.profile = "absent"
      PROVE  world'.profile = "absent"
  <2>1. o[1] # "profile_start"
    BY <1>1, <1>p, OpsOf DEF SingleFamilies, SetupFamilies
  <2> QED
    BY <1>p, <2>1 DEF Touched, ProfileTouched, ClusterTouched
<1>e. Decides(op) /\ Verdict(op) # "failed" => world.profile = "running"
  <2>1. Decides(op) /\ Verdict(op) # "failed" => Established(op)
    BY <1>1, Verdicts DEF Decides, Settled
  <2> QED
    BY <2>1 DEF Established, Daemon, Op
<1>2. ASSUME Acting(op)'
      PROVE  /\ world'.profile = "absent"
             /\ stage'[op] \notin {"complete", "abandoned"}
             /\ Orphans \/ stage'[op] = "pending"
  <2>1. CASE Intends(op)
    <3>1. world.profile = "absent" /\ stage'[op] = "pending"
      BY <2>1 DEF Intends, Ready
    <3>2. Kept
      BY <2>1, Claims DEF Intends
    <3> QED
      BY <3>1, <3>2 DEF Kept
  <2>2. CASE Acting(op) /\ ~Intends(op)
    <3>1. /\ world.profile = "absent" /\ stage[op] # "none"
          /\ stage[op] \notin {"complete", "abandoned"}
          /\ Orphans \/ stage[op] = "pending"
      BY <1>1, <2>2, Actors DEF ProfileLinks
    <3>2. world'.profile = "absent"
      <4>1. CASE Kept
        BY <3>1, <4>1 DEF Kept
      <4>2. ASSUME NEW o \in Ops, Commands(o), Touched(world', o)
            PROVE  world'.profile = "absent"
        BY <1>1, <1>2, <1>p, <3>1, <4>2, Actors
      <4> QED
        BY <4>1, <4>2, Hosts
    <3>3. stage'[op] # stage[op] => Decides(op) /\ Verdict(op) = "failed"
                                    /\ stage'[op] = "failed"
      BY <1>1, <1>e, <3>1, Pairs
    <3>4. Decides(op) => Orphans
      BY <1>1, <1>2, Names DEF Decides, Onward, Acting, Free, Core, OnceClaimed
    <3> QED
      BY <3>1, <3>2, <3>3, <3>4
  <2> QED
    BY <1>1, <1>2, <2>1, <2>2, Actors
<1>3. ASSUME stage'[op] = "failed"
      PROVE  Orphans \/ world'.profile = "absent"
  <2>1. Orphans \/ world.profile = "absent"
    <3>1. CASE stage[op] = "failed"
      BY <1>1, <3>1 DEF ProfileLinks
    <3>2. CASE stage[op] # "failed"
      BY <1>1, <1>3, <3>2, Pairs, Verdicts DEF Intends
    <3> QED
      BY <3>1, <3>2
  <2>2. CASE Kept
    BY <2>1, <2>2 DEF Kept
  <2>3. ASSUME NEW o \in Ops, Commands(o), Touched(world', o), stage' = stage
        PROVE  Orphans \/ world'.profile = "absent"
    <3>1. o = op => Orphans
      BY <1>1, <1>3, <2>3, Actors DEF Commands
    <3> QED
      BY <1>p, <2>1, <2>3, <3>1
  <2> QED
    BY <2>2, <2>3, Hosts
<1>4. ASSUME Done("profile_absence_proof")', stage'[op] # "failed"
      PROVE  world'.profile = "absent"
  <2>1. CASE Done("profile_absence_proof")
    <3>1. stage[op] # "failed"
      BY <1>1, <1>4, Pairs DEF Settled
    <3>2. world.profile = "absent" /\ stage[op] \in {"complete", "abandoned"}
      BY <1>1, <1>d, <2>1, <3>1 DEF ProfileLinks
    <3>3. ~Acting(op)
      BY <1>1, <3>2 DEF ProfileLinks
    <3>4. ASSUME NEW o \in Ops, Commands(o), Touched(world', o)
          PROVE  world'.profile = "absent"
      BY <1>p, <3>2, <3>3, <3>4 DEF Commands
    <3> QED
      BY <3>2, <3>4, Hosts DEF Kept
  <2>2. CASE ~Done("profile_absence_proof")
    <3>1. /\ Decides(Op("profile_absence_proof"))
          /\ Verdict(Op("profile_absence_proof")) = "complete"
          /\ Op("profile_absence_proof") \in Ops
      BY <1>4, <1>o, <2>2, Singles DEF Done, Intends, Stage
    <3>2. Established(Op("profile_absence_proof"))
      BY <3>1, Verdicts
    <3> QED
      BY <3>1, <3>2 DEF Established, NoProfileLeft, Decides, Op
  <2> QED
    BY <2>1, <2>2
<1>5. ASSUME Done("profile_absence_proof")'
      PROVE  world'.paths \subseteq {"kind_config"}
  <2>1. world'.paths \subseteq world.paths \cup {"kind_config"}
    BY Hosts DEF Kept, Touched, ProfileTouched, ClusterTouched
  <2>2. CASE Done("profile_absence_proof")
    BY <2>1, <2>2 DEF ProfileLinks
  <2>3. CASE ~Done("profile_absence_proof")
    <3>1. /\ Decides(Op("profile_absence_proof"))
          /\ Verdict(Op("profile_absence_proof")) = "complete"
          /\ Op("profile_absence_proof") \in Ops
      BY <1>5, <1>o, <2>3, Singles DEF Done, Intends, Stage
    <3>2. Established(Op("profile_absence_proof"))
      BY <3>1, Verdicts
    <3> QED
      BY <2>1, <3>2 DEF Established, NoProfileLeft, Op
  <2> QED
    BY <2>2, <2>3
<1> QED
  BY <1>1, <1>2, <1>3, <1>4, <1>5 DEF ProfileLinks

\* A cluster is created once, and is gone before its profile stops.
LEMMA ClusterLinksKept ==
  ASSUME Core, Act, SetupChain, HistoryLinks, DestructionLinks, ClusterLinks
  PROVE  ClusterLinks'
<1> DEFINE op == Op("cluster_create")
<1>o. {"cluster_create", "cluster_delete", "cluster_absence_proof", "profile_stop"}
        \subseteq Owns
  BY DEF Owns, SetupFamilies, CleanupFamilies
<1>1. /\ op \in Ops /\ op[1] = "cluster_create" /\ op[1] \notin Cleanups
      /\ Stage("cluster_create") = stage[op] /\ Stage("cluster_create")' = stage'[op]
  BY <1>o, Singles DEF Cleanups, Stage
<1>a. Acting(op) => world.cluster = "absent" /\ stage[op] = "pending"
  BY <1>1 DEF ClusterLinks
<1>p. ASSUME world.cluster = "absent", ~Acting(op) \/ Acting(op)'
      PROVE  world'.cluster = "absent"
  <2>1. ASSUME NEW o \in Ops, Commands(o), Touched(world', o)
        PROVE  world'.cluster = "absent"
    <3>1. o # op
      BY <1>1, <1>p, <2>1, Actors DEF Commands
    <3>2. o[1] # "cluster_create"
      BY <1>1, <3>1, OpsOf DEF SingleFamilies, SetupFamilies
    <3> QED
      BY <1>p, <2>1, <3>2 DEF Touched, ProfileTouched, ClusterTouched
  <2> QED
    BY <1>p, <2>1, Hosts DEF Kept
<1>2. ASSUME Acting(op)'
      PROVE  world'.cluster = "absent" /\ stage'[op] = "pending"
  <2>1. CASE Intends(op)
    <3>1. stage[op] = "none" /\ stage'[op] = "pending" /\ world.cluster = "absent"
      BY <1>1, <2>1 DEF Intends, ClusterLinks
    <3> QED
      BY <1>2, <1>p, <3>1
  <2>2. CASE Acting(op)
    <3>1. world.cluster = "absent" /\ stage[op] = "pending"
      BY <1>a, <2>2
    <3>2. ~Decides(op)
      <4> SUFFICES ASSUME Decides(op) PROVE FALSE
        OBVIOUS
      <4>1. Verdict(op) \in {"complete", "abandoned"}
        BY <1>1, Verdicts DEF Decides, Settled, Op
      <4>2. Established(op)
        BY <1>1, <4>1, Verdicts
      <4> QED
        BY <3>1, <4>2 DEF Established, ClusterSeen, Op
    <3>3. stage'[op] = stage[op]
      BY <1>1, <3>1, <3>2, Pairs
    <3> QED
      BY <1>2, <1>p, <3>1, <3>3
  <2> QED
    BY <1>1, <1>2, <2>1, <2>2, Actors
<1>3. ASSUME stage'[op] = "none"
      PROVE  world'.cluster = "absent"
  <2>1. stage[op] = "none"
    BY <1>1, <1>3, Pairs
  <2> QED
    BY <1>1, <1>p, <2>1, Actors DEF ClusterLinks
<1>4. ASSUME Stage("profile_stop")' # "none"
      PROVE  world'.cluster = "absent"
  <2>1. CASE Stage("profile_stop") # "none"
    <3>1. world.cluster = "absent" /\ stage[op] # "pending"
      BY <1>1, <2>1 DEF ClusterLinks, DestructionLinks
    <3> QED
      BY <1>a, <1>p, <3>1
  <2>2. CASE Stage("profile_stop") = "none"
    <3>1. Intends(Op("profile_stop")) /\ Op("profile_stop") \in Ops
          /\ Op("profile_stop")[1] = "profile_stop"
      BY <1>4, <1>o, <2>2, Singles
    <3>2. Done("cluster_absence_proof") \/ stage[op] = "none"
      BY <1>1, <3>1, Destroys, Teardowns DEF Core, LTypeOK
    <3>3. Done("cluster_absence_proof") => Done("cluster_delete")
      BY DEF HistoryLinks, Done
    <3>4. world.cluster = "absent"
      BY <1>1, <3>2, <3>3 DEF ClusterLinks
    <3>5. Kept
      BY <3>1, Claims DEF Intends
    <3> QED
      BY <3>4, <3>5 DEF Kept
  <2> QED
    BY <2>1, <2>2
<1>5. ASSUME Done("cluster_delete")'
      PROVE  world'.cluster = "absent"
  <2>1. CASE Done("cluster_delete")
    <3>1. world.cluster = "absent" /\ stage[op] # "pending"
      BY <1>1, <2>1 DEF ClusterLinks, HistoryLinks, ClusterOwned, Done
    <3> QED
      BY <1>a, <1>p, <3>1
  <2>2. CASE ~Done("cluster_delete")
    <3>1. /\ Decides(Op("cluster_delete")) /\ Verdict(Op("cluster_delete")) = "complete"
          /\ Op("cluster_delete") \in Ops
      BY <1>5, <1>o, <2>2, Singles DEF Done, Intends, Stage
    <3>2. Established(Op("cluster_delete"))
      BY <3>1, Verdicts
    <3> QED
      BY <3>1, <3>2 DEF Established, NoClusterLeft, Decides, Op
  <2> QED
    BY <2>1, <2>2
<1> QED
  BY <1>1, <1>2, <1>3, <1>4, <1>5 DEF ClusterLinks

\* Sources before their cluster, the cluster before its profile.
LEMMA DestructionKept ==
  ASSUME Core, Act, DestructionLinks, ClusterLinks, DestructionInOrder
  PROVE  DestructionInOrder'
<1>o. {"readiness", "evidence_freeze", "cluster_delete", "profile_stop", "profile_delete"}
        \subseteq Owns
  BY DEF Owns, SetupFamilies, CleanupFamilies
<1>c. ASSUME NEW o \in Ops, Commands(o)
      PROVE  /\ stage[o] # "none"
             /\ o[1] \in {"cluster_delete", "profile_stop", "profile_delete"} =>
                  Stage(o[1]) # "none"
  BY <1>c, Actors, OpsOf
     DEF Commands, Stage, SingleFamilies, CleanupFamilies
<1>s. ASSUME NEW o \in Ops, Commands(o), o[1] \in {"profile_stop", "profile_delete"}
      PROVE  world.cluster = "absent"
  <2>1. Stage("profile_delete") # "none" => Done("profile_stop")
    BY DEF Core, IInv, TeardownLinks
  <2> QED
    BY <1>c, <1>s, <2>1 DEF ClusterLinks, Done
<1>1. ASSUME Done("readiness")', world'.cluster # "present"
      PROVE  Done("evidence_freeze")'
  <2>1. CASE Done("readiness")
    <3>1. CASE world.cluster # "present"
      BY <1>o, <2>1, <3>1, Singles DEF DestructionInOrder, EvidenceBeforeDestruction
    <3>2. CASE world.cluster = "present"
      <4>1. PICK o \in Ops : Commands(o) /\ Touched(world', o)
        BY <1>1, <3>2, Hosts DEF Kept
      <4>2. o[1] = "cluster_delete"
        BY <1>1, <1>s, <3>2, <4>1 DEF Touched, ProfileTouched, ClusterTouched
      <4> QED
        BY <1>c, <1>o, <2>1, <4>1, <4>2, Singles DEF DestructionLinks
    <3> QED
      BY <3>1, <3>2
  <2>2. CASE ~Done("readiness")
    <3>1. /\ Decides(Op("readiness")) /\ Verdict(Op("readiness")) = "complete"
          /\ Op("readiness") \in Ops
      BY <1>1, <1>o, <2>2, Singles DEF Done, Intends, Stage
    <3>2. Established(Op("readiness"))
      BY <3>1, Verdicts
    <3> QED
      BY <1>1, <3>1, <3>2
         DEF Established, RuntimeReady, AppliedSeen, ClusterSeen, Decides, Op
  <2> QED
    BY <2>1, <2>2
<1>2. ASSUME world'.profile # "running"
      PROVE  world'.cluster = "absent"
  <2>1. world.profile # "running" => world.cluster = "absent"
    BY DEF DestructionInOrder, ClusterGoesFirst
  <2>2. CASE Kept
    BY <1>2, <2>1, <2>2 DEF Kept
  <2>3. ASSUME NEW o \in Ops, Commands(o), Touched(world', o)
        PROVE  world'.cluster = "absent"
    BY <1>2, <1>s, <2>1, <2>3 DEF Touched, ProfileTouched, ClusterTouched
  <2> QED
    BY <2>2, <2>3, Hosts
<1> QED
  BY <1>1, <1>2 DEF DestructionInOrder, EvidenceBeforeDestruction, ClusterGoesFirst

\* What is captured was served and holds every answer.
LEMMA EvidenceLinksKept ==
  ASSUME Core, Act, \A t \in Tracks : Sent(t), HistoryLinks, EvidenceLinks
  PROVE  EvidenceLinks'
<1> DEFINE complete == {t \in Tracks : Request(t) = "complete"}
<1>o. "evidence_freeze" \in Owns
  BY DEF Owns, CleanupFamilies
<1>n. world.sent \in [Tracks -> Nat]
  BY DEF Core, LTypeOK, Worlds
<1>k. Kind
  BY Kinds DEF Core, Act
<1>t. \A t \in Tracks : <<"request", t>> \in Ops
  BY Names
<1>s. complete \subseteq Served
  BY DEF Sent, Served, Request
<1>m. Served \subseteq Served'
  <2>1. CASE Kept
    BY <2>1 DEF Kept, Served
  <2>2. ASSUME NEW o \in Ops, Touched(world', o)
        PROVE  Served \subseteq Served'
    <3>1. \/ world'.sent = world.sent
          \/ world'.sent = [world.sent EXCEPT ![o[2]] = @ + 1]
      BY <2>2 DEF Touched, ProfileTouched, ClusterTouched
    <3> QED
      BY <3>1, <1>n DEF Served
  <2> QED
    BY <2>1, <2>2, Hosts
\* The last evidence facts of the state, named.
<1> DEFINE Old == /\ world.captured # <<>>
                  /\ complete \subseteq world.captured[1].served
                  /\ Orphans \/ world.captured[1].served = Served
           New == /\ world'.captured # <<>>
                  /\ complete' \subseteq world'.captured[1].served
                  /\ Orphans \/ world'.captured[1].served = Served'
<1>c. \/ world'.captured = world.captured
      \/ Capture
  <2>1. \A op \in Ops : Commands(op) => world'.captured = world.captured
    BY Outcomes DEF Core, Commands, Touched, ProfileTouched, ClusterTouched
  <2> QED
    BY <1>k, <2>1, Claims, Answers DEF Kind, Turns, Decides
<1>1. world'.captured # <<>> => world'.captured[1].served \subseteq Served'
  <2>1. CASE Capture
    BY <1>m, <2>1, Captured
  <2>2. CASE world'.captured = world.captured
    BY <1>m, <2>2 DEF EvidenceLinks
  <2> QED
    BY <1>c, <2>1, <2>2
<1>2. ASSUME run'.at = "captured" \/ Stage("evidence_freeze")' # "none"
      PROVE  New
  <2>1. CASE Capture
    <3>1. /\ world'.captured = <<Sources>> /\ Sources.served = Served
          /\ stage' = stage /\ Kept
      BY <2>1, Captured
    <3>2. complete' = complete /\ Served' = Served
      BY <3>1 DEF Request, Kept, Served
    <3> HIDE DEF complete
    <3> QED
      BY <1>s, <3>1, <3>2
  <2>2. CASE ~Capture
    <3>1. run.at = "captured" \/ Stage("evidence_freeze") # "none"
      <4>1. CASE Stage("evidence_freeze")' # "none" /\ Stage("evidence_freeze") = "none"
        <5>1. Intends(Op("evidence_freeze"))
          BY <1>o, <4>1, Singles
        <5> QED
          BY <5>1 DEF Intends, Ready, Preparation, Op
      <4>2. CASE run'.at = "captured"
        <5>1. \A op \in Ops : ~Decides(op)
          BY <4>2 DEF Decides, Onward, Free
        <5> QED
          BY <1>k, <2>2, <4>2, <5>1, Claims, Answers DEF Kind, Turns, Commands
      <4> QED
        BY <1>2, <4>1, <4>2
    <3>2. Old
      BY <3>1 DEF EvidenceLinks
    <3>3. complete' = complete
      <4>1. ASSUME NEW q \in Ops, q[1] = "request"
            PROVE  (stage'[q] = "complete") = (stage[q] = "complete")
        <5>1. ~Answer
          <6> SUFFICES ASSUME Answer PROVE FALSE
            OBVIOUS
          <6>1. run.at = "answer" /\ Stage("evidence_freeze") = "none"
            BY Answers DEF Answer, ResultAdmitted
          <6> QED
            BY <3>1, <6>1
        <5>2. ~Decides(q)
          BY <4>1 DEF Decides, TerminalAdmitted
        <5>3. \/ stage'[q] = stage[q]
              \/ stage'[q] = "pending" /\ stage[q] = "none"
          BY <5>1, <5>2, Pairs DEF Intends
        <5> QED
          BY <5>3
      <4>2. \A t \in Tracks : (Request(t)' = "complete") = (Request(t) = "complete")
        BY <1>t, <4>1 DEF Request
      <4> QED
        BY <4>2
    <3>4. Orphans \/ Served' = Served
      <4>1. CASE Kept
        BY <4>1 DEF Kept, Served
      <4>2. ASSUME NEW o \in Ops, Commands(o), Touched(world', o), ~Orphans
            PROVE  Served' = Served
        <5>1. world'.sent = world.sent \/ o[1] = "request"
          BY <4>2 DEF Touched, ProfileTouched, ClusterTouched
        <5>2. o[1] # "request"
          <6> SUFFICES ASSUME o[1] = "request" PROVE FALSE
            OBVIOUS
          <6>1. run.at \in {"act", "cleanup"} /\ run.op = o
            BY <4>2, Names DEF Commands, Acting, Core, OnceClaimed
          <6>2. run.at = "act"
            BY <6>1 DEF Core, InHand, Cleanups
          <6>3. Stage("evidence_freeze") = "none"
            BY <6>1, <6>2 DEF EvidenceLinks
          <6> QED
            BY <3>1, <6>2, <6>3
        <5> QED
          BY <5>1, <5>2 DEF Served
      <4> QED
        BY <4>1, <4>2, Hosts
    <3> QED
      BY <1>c, <2>2, <3>2, <3>3, <3>4
  <2> QED
    BY <2>1, <2>2
<1>3. ASSUME run'.at = "act", run'.op[1] = "request"
      PROVE  Stage("evidence_freeze")' = "none"
  <2>1. CASE Claim
    <3>1. /\ Intends(NextOp) /\ NextOp \in Ops
          /\ stage' = [stage EXCEPT ![NextOp] = "pending"]
      BY <2>1, Claims
    <3>2. NextOp[1] = "request"
      BY <1>3, <3>1 DEF Intends
    <3>3. Idle /\ ~TeardownOnly /\ RequestOrder(NextOp[2])
      BY <3>1, <3>2 DEF Intends, IntentAdmitted, CleanupFamilies
    <3>4. /\ Op("evidence_freeze") \in Ops /\ Op("evidence_freeze")[1] = "evidence_freeze"
          /\ Stage("evidence_freeze") \in Stages
      BY <1>o, Singles
    <3>5. Stage("evidence_freeze") = "none"
      BY <3>3, <3>4 DEF Idle, Active, TeardownOnly, SomeFailed, SomeAbandoned,
         RequestOrder, BeforeFreeze, Done, Stage, Stages
    <3> QED
      BY <3>1, <3>2, <3>4, <3>5 DEF Stage, Core, LTypeOK, TypeOK
  <2>2. CASE ~Claim
    <3>1. \A op \in Ops : ~Decides(op)
      BY <1>3 DEF Decides, Onward, Free
    <3>2. run' = run /\ stage' = stage
      BY <1>3, <1>k, <2>2, <3>1, Answers, Captured DEF Kind, Turns, Commands
    <3> QED
      BY <1>3, <3>2 DEF EvidenceLinks, Stage
  <2> QED
    BY <2>1, <2>2
<1> QED
  BY <1>1, <1>2, <1>3 DEF EvidenceLinks

\* Once its publication was intended a lifecycle wants nothing more.
LEMMA PublicationEnds ==
  ASSUME Core, PublicationLinks, Stage("publication") # "none"
  PROVE  /\ \A op \in Ops : ~Intends(op)
         /\ ~Answer
         /\ \A op \in Ops : Decides(op) =>
              op = Op("publication") /\ Verdict(op) = "complete"
<1>q. /\ \A op \in Ops : op # Op("publication") => stage[op] # "pending"
      /\ SetupLeft = {} /\ Done("evidence_freeze")
      /\ mode = "nominal" => \A t \in Tracks : Request(t) = "complete"
      /\ mode = "request-free" => \A t \in Tracks : Start(t) # "none"
  BY DEF PublicationLinks
<1>1. Done("profile_absence_proof") /\ Done("foreign_snapshot_comparison")
  BY DEF Core, IInv, PublicationFollowsTeardown
<1>2. TeardownOp = NoOp
  BY <1>1, Teardowns DEF Core, LTypeOK
<1>3. ASSUME NEW op \in Ops, Intends(op) PROVE FALSE
  <2>1. NextOp = op /\ Wanted /\ stage[op] = "none" /\ op # NoOp
    BY <1>3, Names DEF Intends
  <2>2. run.prog \in Modes => mode = run.prog
    BY DEF Core, Following
  <2>3. Op("publication") = op => FALSE
    BY <2>1 DEF Stage
  <2>4. CASE \E i \in SetupLeft : run.prog \in Forward /\ NextOp = Op(SetupSequence[i])
    BY <1>q, <2>4
  <2>5. CASE /\ run.prog \in Modes
             /\ \E t \in Tracks : NextOp = <<"driver_start", t>> /\ Start(t) = "none"
             /\ run.prog = "nominal" => \E t \in Tracks : Request(t) # "complete"
    BY <1>q, <2>2, <2>5 DEF Modes
  <2>6. CASE /\ run.prog = "nominal"
             /\ \E t \in Tracks : NextOp = <<"request", t>> /\ Request(t) # "complete"
    BY <1>q, <2>2, <2>6 DEF Modes
  <2> QED
    BY <1>2, <1>q, <2>1, <2>3, <2>4, <2>5, <2>6 DEF Wanted
<1>4. ~Answer
  <2> SUFFICES ASSUME Answer PROVE FALSE
    OBVIOUS
  <2>1. run.op \in Ops /\ run.op[1] = "request" /\ stage[run.op] = "pending"
    BY Answers
  <2> QED
    BY <1>q, <2>1 DEF Op
<1>5. ASSUME NEW op \in Ops, Decides(op)
      PROVE  op = Op("publication") /\ Verdict(op) = "complete"
  <2>1. stage[op] = "pending" /\ TerminalAdmitted(op, Verdict(op)) /\ Verdict(op) \in Settled
    BY <1>5 DEF Decides
  <2>2. op = Op("publication") /\ op[1] = "publication"
    BY <1>q, <2>1 DEF Op
  <2> QED
    BY <2>1, <2>2 DEF TerminalAdmitted, Settled, FailureFamilies
<1> QED
  BY <1>3, <1>4, <1>5

\* What a lifecycle has reached when it intends its publication.
LEMMA Publishes ==
  ASSUME Core, SetupChain, HistoryLinks, DestructionLinks, Intends(Op("publication"))
  PROVE  /\ \A op \in Ops : stage[op] # "pending"
         /\ SetupLeft = {} /\ Done("evidence_freeze")
         /\ ~SomeFailed /\ ~SomeAbandoned
         /\ mode = "nominal" => \A t \in Tracks : Request(t) = "complete"
         /\ mode = "request-free" => \A t \in Tracks : Start(t) # "none"
<1>1. /\ Idle /\ PublicationOrder /\ Ready(Op("publication"))
      /\ NextOp = Op("publication") /\ Wanted
  BY DEF Intends, IntentAdmitted, Op
<1>2. ~RequestPending
  BY <1>1 DEF Ready, Answered
<1>3. \A op \in Ops : stage[op] # "pending"
  <2> SUFFICES ASSUME NEW op \in Ops, stage[op] = "pending" PROVE FALSE
    OBVIOUS
  <2>1. op[1] = "request"
    BY <1>1 DEF Idle, Active
  <2>2. op[2] \in Tracks /\ op = <<"request", op[2]>>
    BY <2>1, OpsOf DEF TrackFamilies
  <2> QED
    BY <1>2, <2>2 DEF RequestPending, Request
<1>4. /\ run.prog \in Modes /\ SetupLeft = {}
      /\ run.prog = "request-free" => \A t \in Tracks : Start(t) # "none"
      /\ run.prog = "nominal" => \A t \in Tracks : Request(t) = "complete"
  <2>1. TeardownOp # Op("publication")
    BY Teardowns DEF Core, LTypeOK, Op, CleanupFamilies
  <2>2. \A i \in SetupLeft : Op(SetupSequence[i]) # Op("publication")
    BY DEF SetupLeft, SetupSequence, Op
  <2> QED
    BY <1>1, <1>2, <2>1, <2>2 DEF Wanted, Op, NoOp
<1>5. mode = run.prog
  BY <1>4 DEF Core, Following
<1>6. ~SomeFailed /\ ~SomeAbandoned /\ Done("foreign_snapshot_comparison")
  BY <1>1 DEF PublicationOrder, TeardownOnly
<1>7. Done("evidence_freeze")
  <2>1. Done("profile_absence_proof")
    BY <1>6 DEF Core, IInv, TeardownLinks, Done
  <2>2. Op("profile_start") \in Ops
    BY Names DEF SetupFamilies
  <2>3. Done("profile_delete")
    BY <1>6, <2>1, <2>2 DEF Core, IInv, TeardownLinks, Done, SomeFailed, Stage
  <2>4. Done("profile_stop")
    BY <2>3 DEF Core, IInv, TeardownLinks, Done
  <2>5. Done("cluster_create") /\ Done("readiness")
    <3>1. Done(SetupSequence[2]) /\ Done(SetupSequence[7])
      BY <1>4 DEF SetupLeft
    <3> QED
      BY <3>1 DEF SetupSequence
  <2>6. Done("cluster_absence_proof")
    BY <2>4, <2>5 DEF HistoryLinks, ClusterOwned, Done
  <2>7. Done("cluster_delete")
    BY <2>6 DEF HistoryLinks, Done
  <2> QED
    BY <2>5, <2>7 DEF DestructionLinks, Done
<1> QED
  BY <1>3, <1>4, <1>5, <1>6, <1>7

\* The publication stays the last word of the journal.
LEMMA PublicationLinksKept ==
  ASSUME Core, Act, SetupChain, HistoryLinks, DestructionLinks, PublicationLinks
  PROVE  PublicationLinks'
<1> DEFINE op == Op("publication")
<1>o. "publication" \in Owns /\ "evidence_freeze" \in Owns
      /\ \A i \in 1..7 : SetupSequence[i] \in Owns
  BY DEF Owns, SetupFamilies, CleanupFamilies, SetupSequence
<1>1. /\ op \in Ops /\ op[1] = "publication" /\ op[1] \notin Cleanups
      /\ Stage("publication") = stage[op] /\ Stage("publication")' = stage'[op]
  BY <1>o, Singles DEF Cleanups, Stage
<1>t. stage \in [Ops -> Stages]
  BY DEF Core, LTypeOK, TypeOK
<1>f. \A f \in TrackFamilies, t \in Tracks : <<f, t>> \in Ops
  BY OpsOf
<1>2. ASSUME world'.published \/ Acting(op)' PROVE stage'[op] # "none"
  <2>1. CASE Acting(op)'
    BY <1>1, <2>1, Actors, Pairs DEF Intends
  <2>2. CASE world'.published
    <3>1. CASE world.published
      BY <1>1, <3>1, Pairs DEF PublicationLinks
    <3>2. CASE ~world.published
      <4>1. PICK o \in Ops : Commands(o) /\ Touched(world', o)
        BY <2>2, <3>2, Hosts DEF Kept
      <4>2. o[1] = "publication"
        BY <2>2, <3>2, <4>1 DEF Touched, ProfileTouched, ClusterTouched
      <4>3. o = op
        BY <4>1, <4>2, OpsOf DEF SingleFamilies
      <4> QED
        BY <1>1, <4>1, <4>3, Actors, Pairs DEF Commands
    <3> QED
      BY <3>1, <3>2
  <2> QED
    BY <1>2, <2>1, <2>2
<1>d. SetupLeft = {} /\ Done("evidence_freeze") =>
        SetupLeft' = {} /\ Done("evidence_freeze")'
  <2>1. \A i \in 1..7 : Done(SetupSequence[i]) => Done(SetupSequence[i])'
    BY <1>o, Singles
  <2> QED
    BY <1>o, <2>1, Singles DEF SetupLeft
<1>q. ASSUME \A o \in Ops : o # op => stage'[o] = stage[o],
             stage'[op] \in {"pending", "complete"},
             mode' = mode,
             /\ \A o \in Ops : o # op => stage[o] # "pending"
             /\ SetupLeft = {} /\ Done("evidence_freeze")
             /\ ~SomeFailed /\ ~SomeAbandoned
             /\ mode = "nominal" => \A t \in Tracks : Request(t) = "complete"
             /\ mode = "request-free" => \A t \in Tracks : Start(t) # "none"
      PROVE  PublicationLinks'
  <2>1. \A o \in Ops : o # op => stage'[o] # "pending"
    BY <1>q
  <2>2. ~SomeFailed' /\ ~SomeAbandoned'
    BY <1>q DEF SomeFailed, SomeAbandoned
  <2>3. \A t \in Tracks : Request(t)' = Request(t) /\ Start(t)' = Start(t)
    <3>1. \A t \in Tracks : /\ <<"request", t>> \in Ops /\ <<"request", t>> # op
                            /\ <<"driver_start", t>> \in Ops /\ <<"driver_start", t>> # op
      BY <1>f DEF TrackFamilies, Op
    <3> QED
      BY <1>q, <3>1 DEF Request, Start
  <2> QED
    BY <1>1, <1>2, <1>d, <1>q, <2>1, <2>2, <2>3 DEF PublicationLinks, Op, Tracks
<1>3. CASE stage[op] # "none"
  <2>1. /\ \A o \in Ops : ~Intends(o)
        /\ ~Answer
        /\ \A o \in Ops : Decides(o) => o = op /\ Verdict(o) = "complete"
    BY <1>1, <1>3, PublicationEnds
  <2>2. \A o \in Ops : o # op => stage'[o] = stage[o]
    BY <2>1, Pairs
  <2>3. stage[op] \in {"pending", "complete"}
    BY <1>1, <1>3, <1>t DEF PublicationLinks, SomeFailed, SomeAbandoned, Stages
  <2>4. stage'[op] \in {"pending", "complete"}
    BY <1>1, <1>3, <2>1, <2>3, Pairs
  <2>5. mode' = mode
    BY <1>1, <1>3, JournalKept DEF Core, Act, NoEvents
  <2> QED
    BY <1>1, <1>3, <1>q, <2>2, <2>4, <2>5 DEF PublicationLinks
<1>4. CASE stage[op] = "none" /\ stage'[op] # "none"
  <2>1. Intends(op)
    BY <1>1, <1>4, Pairs
  <2>2. stage' = [stage EXCEPT ![op] = "pending"] /\ mode' = mode
    BY <2>1, Claims DEF Intends
  <2> QED
    BY <1>1, <1>q, <1>t, <2>1, <2>2, Publishes
<1>5. CASE stage'[op] = "none"
  BY <1>1, <1>2, <1>5 DEF PublicationLinks
<1> QED
  BY <1>3, <1>4, <1>5

----------------------------------------------------------------------------
\* A prepared journal over a host without KIL satisfies the invariant.
LEMMA LInvInit == LifecycleInit => LInv
<1> SUFFICES ASSUME LifecycleInit PROVE LInv
  OBVIOUS
<1>1. Init /\ committed /\ inflight = NoOp /\ run = Off /\ mode = "nominal"
  BY DEF LifecycleInit
<1>2. PICK contract \in BOOLEAN : world = InitialWorld(contract)
  BY ContractsAssumption DEF LifecycleInit
<1>i. IInv
  BY <1>1, IInvInit
<1>n. \A op \in Ops : stage[op] = "none"
  BY <1>1 DEF Init
<1>s. /\ \A f \in Owns : Stage(f) = "none" /\ Op(f) \in Ops
      /\ \A t \in Tracks : Request(t) = "none"
  BY <1>n, Names DEF Owns, Stage, Request
<1>w. /\ world.profile = "absent" /\ world.cluster = "absent" /\ world.captured = <<>>
      /\ \A t \in Tracks : world.sent[t] = 0
      /\ ~world.published
  BY <1>2 DEF InitialWorld
<1>r. /\ run.at = "off" /\ run.prog = "none" /\ ~run.top /\ run \in Runs
  BY <1>1 DEF Off, Runs, Scripts, Places
<1>a. \A op \in Ops : ~Acting(op)
  BY <1>1, <1>r, Names DEF Acting
<1>t. LTypeOK
  <2>1. world \in Worlds
    <3>0. {"docker_config"} \in SUBSET ActivePaths
      BY DEF ActivePaths
    <3>1. InitialWorld(contract) \in Worlds
      BY <3>0 DEF InitialWorld, Worlds, Profiles, Clusters
    <3> QED
      BY <3>1, <1>2
  <2> QED
    BY <2>1, <1>1, <1>i, <1>r DEF LTypeOK, IInv
<1>c. InHand /\ Following /\ OnceClaimed
  BY <1>1, <1>r DEF InHand, Following, OnceClaimed, Busy, Judging, Modes
<1>h. SetupChain
  <2>1. \A i \in 1..6 : SetupSequence[i + 1] \in SetupFamilies
    BY DEF SetupSequence, SetupFamilies
  <2> QED
    BY <2>1, <1>s DEF SetupChain, Owns
<1>l. HistoryLinks /\ DestructionLinks
  BY <1>s, <1>1 DEF HistoryLinks, DestructionLinks, Owns, SetupFamilies, CleanupFamilies, Init
<1>f. OnlyStartFails
  BY <1>n DEF OnlyStartFails
<1>q. \A t \in Tracks : Sent(t)
  <2> SUFFICES ASSUME NEW t \in Tracks PROVE Sent(t)
    OBVIOUS
  <2>1. <<"request", t>> \in Ops
    BY Names
  <2>2. stage[<<"request", t>>] = "none" /\ ~Acting(<<"request", t>>)
    BY <2>1, <1>n, <1>a
  <2> QED
    BY <2>2, <1>w DEF Sent
<1>p. ProfileLinks /\ ClusterLinks
  BY <1>a, <1>w, <1>s DEF ProfileLinks, ClusterLinks, Owns, SetupFamilies, CleanupFamilies, Done
<1>d. DestructionInOrder
  BY <1>w, <1>s DEF DestructionInOrder, EvidenceBeforeDestruction, ClusterGoesFirst, Owns,
     SetupFamilies, Done
<1>e. EvidenceLinks
  BY <1>w, <1>s, <1>r DEF EvidenceLinks, Owns, CleanupFamilies
<1>u. PublicationLinks
  BY <1>a, <1>w, <1>s DEF PublicationLinks, Owns
<1> QED
  BY <1>t, <1>i, <1>c, <1>h, <1>l, <1>f, <1>q, <1>p, <1>d, <1>e, <1>u DEF LInv

\* Every step keeps the invariant.
LEMMA LInvStep == LInv /\ [LifecycleNext]_lifecycle => LInv'
<1> SUFFICES ASSUME LInv, [LifecycleNext]_lifecycle PROVE LInv'
  OBVIOUS
<1>1. Core /\ Act
  BY DEF LInv, Core, Act
<1>2. /\ SetupChain /\ HistoryLinks /\ OnlyStartFails /\ DestructionLinks
      /\ \A t \in Tracks : Sent(t)
      /\ ProfileLinks /\ ClusterLinks /\ DestructionInOrder
      /\ EvidenceLinks /\ PublicationLinks
  BY DEF LInv
<1>3. LTypeOK' /\ InHand' /\ Following' /\ OnceClaimed'
  BY ControlKept DEF LInv
<1>4. IInv'
  BY JournalKept DEF LInv
<1>5. SetupChain' /\ HistoryLinks' /\ OnlyStartFails' /\ DestructionLinks'
  BY <1>1, <1>2, SetupChainKept, HistoryLinksKept, OnlyStartFailsKept, DestructionLinksKept
<1>6. \A t \in Tracks : Sent(t)'
  BY <1>1, <1>2, SentKept
<1>7. ProfileLinks' /\ ClusterLinks' /\ DestructionInOrder'
  BY <1>1, <1>2, ProfileLinksKept, ClusterLinksKept, DestructionKept
<1>8. EvidenceLinks'
  BY <1>1, <1>2, EvidenceLinksKept
<1>9. PublicationLinks'
  BY <1>1, <1>2, PublicationLinksKept
<1> QED
  BY <1>3, <1>4, <1>5, <1>6, <1>7, <1>8, <1>9 DEF LInv, Tracks

\* The inductive invariant holds in every reachable state of the lifecycle.
THEOREM LifecycleInvariance == LifecycleSpec => []LInv
<1> QED
  BY LInvInit, LInvStep, PTL DEF LifecycleSpec

\* A lifecycle is a history of its journal: the controller writes only what
\* V3B2Journal lets it write, so every theorem about the journal is one about
\* the lifecycle (append_event, append_observed_terminal, latch_teardown).
THEOREM LifecyclesAreJournals == LifecycleSpec => Spec
<1>1. LifecycleInit => Init
  BY DEF LifecycleInit
<1>2. LInv /\ [LifecycleNext]_lifecycle => [Next]_vars
  BY JournalSteps DEF LInv
<1> QED
  BY <1>1, <1>2, LifecycleInvariance, PTL DEF LifecycleSpec, Spec

----------------------------------------------------------------------------
\* What was sent was claimed, over a runtime that was ready.
LEMMA SentOnce ==
  ASSUME LInv
  PROVE  ClaimedBeforeSent /\ \A t \in Served : Done("readiness")
<1> SUFFICES ASSUME NEW t \in Tracks, world.sent[t] > 0
             PROVE  /\ world.sent[t] = 1 /\ Request(t) # "none" /\ mode = "nominal"
                    /\ Done("readiness")
  BY DEF ClaimedBeforeSent, Served
<1>1. Sent(t) /\ RequestChain /\ world.sent[t] \in Nat
  BY DEF LInv, LTypeOK, IInv, Worlds
<1>2. world.sent[t] = 1 /\ Request(t) # "none"
  BY <1>1 DEF Sent, Request
<1> QED
  BY <1>1, <1>2 DEF RequestChain, Claimed

\* A request is sent once, behind its claim, in a nominal lifecycle, whatever
\* dies, restarts or outlives its process (_nominal_lifecycle).
THEOREM SentBehindItsClaim == LifecycleSpec => []ClaimedBeforeSent
<1>1. LInv => ClaimedBeforeSent
  BY SentOnce
<1> QED
  BY <1>1, LifecycleInvariance, PTL

\* Sources go before their cluster and the cluster before its profile
\* (_advance_teardown).
THEOREM DestroyedInOrder == LifecycleSpec => []DestructionInOrder
<1>1. LInv => DestructionInOrder
  BY DEF LInv
<1> QED
  BY <1>1, LifecycleInvariance, PTL

\* The host once the absence proof is complete, unless the start of the
\* profile came to nothing.
LEMMA AbsentSince ==
  ASSUME LInv, Done("profile_absence_proof"), Stage("profile_start") # "failed" \/ ~Orphans
  PROVE  /\ world.profile = "absent" /\ world.cluster = "absent"
         /\ world.paths \subseteq {"kind_config"}
<1>1. world.profile = "absent" /\ world.paths \subseteq {"kind_config"}
  BY DEF LInv, ProfileLinks
<1>2. world.cluster = "absent"
  BY <1>1 DEF LInv, DestructionInOrder, ClusterGoesFirst
<1> QED
  BY <1>1, <1>2

\* What a frozen source shows lies between what was answered and what was
\* served.
LEMMA FrozenSources ==
  ASSUME LInv, Stage("evidence_freeze") # "none"
  PROVE  /\ world.captured # <<>>
         /\ {t \in Tracks : Request(t) = "complete"} \subseteq world.captured[1].served
         /\ world.captured[1].served \subseteq Served
         /\ Orphans \/ world.captured[1].served = Served
BY DEF LInv, EvidenceLinks

\* What is public tells of a lifecycle that ended well (_publish).
THEOREM PublicIsSound == LifecycleSpec => []PublishedIsSound
<1>1. LInv => ClaimedBeforeSent
  BY SentOnce
<1>2. LInv => PublishedIsSound
  <2> SUFFICES ASSUME LInv, world.published PROVE PublishedIsSound
    BY DEF PublishedIsSound
  <2>1. Stage("publication") # "none"
    BY DEF LInv, PublicationLinks
  <2>2. /\ Done("evidence_freeze") /\ ~SomeFailed /\ ~SomeAbandoned
        /\ mode = "nominal" => \A t \in Tracks : Request(t) = "complete"
    BY <2>1 DEF LInv, PublicationLinks
  <2>3. comparison = "same" /\ Done("profile_start") /\ Done("profile_absence_proof")
    BY <2>1 DEF LInv, IInv, PublicationFollowsTeardown
  <2>4. world.profile = "absent" /\ world.paths \subseteq {"kind_config"}
    BY <2>3, AbsentSince DEF Done
  <2>5. /\ {t \in Tracks : Request(t) = "complete"} \subseteq world.captured[1].served
        /\ world.captured[1].served \subseteq Served
    BY <2>2, FrozenSources DEF Done
  <2>6. mode = "nominal" => Tracks \subseteq Served /\ world.captured[1].served = Tracks
    BY <2>2, <2>5 DEF Served
  <2>7. mode # "nominal" => world.captured[1].served = {}
    BY <1>1, <2>5 DEF ClaimedBeforeSent
  <2>8. \A t \in Tracks : mode = "nominal" => world.sent[t] = 1 /\ Request(t) = "complete"
    BY <1>1, <2>2, <2>6 DEF ClaimedBeforeSent
  <2> QED
    BY <2>2, <2>3, <2>4, <2>6, <2>7, <2>8 DEF PublishedIsSound
<1> QED
  BY <1>2, LifecycleInvariance, PTL

\* What may act in a latched journal, orphans apart, quiesces or cleans up.
LEMMA LatchedActs ==
  ASSUME LInv, latched, inflight' = inflight, NEW op \in Ops, Commands(op)
  PROVE  op[1] \in Cleanups \cup {"envoy_quiesce"}
<1>1. CASE inflight = op
  BY <1>1 DEF Commands, Acting
<1>2. CASE run.at = "act" /\ run.op = op
  BY <1>2 DEF LInv, InHand
<1>3. CASE run.at = "cleanup" /\ run.op = op
  BY <1>3 DEF LInv, InHand
<1> QED
  BY <1>1, <1>2, <1>3 DEF Commands, Acting

\* In a latched journal no process starts, creates, applies, sends or publishes
\* (recover, cleanup_commands).
THEOREM LatchedOnlyCleansUp == LifecycleSpec => NoForwardAct
<1>1. LInv /\ [LifecycleNext]_lifecycle =>
        [latched /\ inflight' = inflight =>
           /\ world'.sent = world.sent
           /\ world'.applied \subseteq world.applied
           /\ world'.profile = "running" => world.profile = "running"
           /\ world'.cluster = "present" => world.cluster = "present"
           /\ world'.published => world.published]_lifecycle
  <2> SUFFICES ASSUME LInv, [LifecycleNext]_lifecycle, latched, inflight' = inflight
               PROVE  /\ world'.sent = world.sent
                      /\ world'.applied \subseteq world.applied
                      /\ world'.profile = "running" => world.profile = "running"
                      /\ world'.cluster = "present" => world.cluster = "present"
                      /\ world'.published => world.published
    OBVIOUS
  <2>1. Core /\ Act
    BY DEF LInv, Core, Act
  <2>2. CASE Kept
    BY <2>2 DEF Kept
  <2>3. ASSUME NEW op \in Ops, Commands(op), Touched(world', op)
        PROVE  /\ world'.sent = world.sent
               /\ world'.applied \subseteq world.applied
               /\ world'.profile = "running" => world.profile = "running"
               /\ world'.cluster = "present" => world.cluster = "present"
               /\ world'.published => world.published
    <3>1. op[1] \in Cleanups \cup {"envoy_quiesce"}
      BY <2>3, LatchedActs
    <3> QED
      BY <2>3, <3>1 DEF Touched, ProfileTouched, ClusterTouched, Cleanups
  <2> QED
    BY <2>1, <2>2, <2>3, Hosts
<1> QED
  BY <1>1, LifecycleInvariance, PTL DEF LifecycleSpec, NoForwardAct

\* As long as no command outlives its process, what was frozen is what was
\* served, then and ever after (_capture_sources).
THEOREM FrozenForGood == ASSUME ~Orphans PROVE LifecycleSpec => []FreezeIsFinal
<1>1. LInv => FreezeIsFinal
  BY FrozenSources DEF FreezeIsFinal, Done
<1> QED
  BY <1>1, LifecycleInvariance, PTL

\* As long as no command outlives its process, a recorded absence and a failed
\* start are true of the host from then on (_profile).
THEOREM RecordedStaysTrue == ASSUME ~Orphans PROVE LifecycleSpec => []RecordedIsTrue
<1>1. LInv => RecordedIsTrue
  <2> SUFFICES ASSUME LInv PROVE RecordedIsTrue
    OBVIOUS
  <2>1. AbsenceIsFinal
    BY AbsentSince DEF AbsenceIsFinal
  <2>2. FailedMeansNotApplied
    BY DEF LInv, ProfileLinks, FailedMeansNotApplied
  <2> QED
    BY <2>1, <2>2 DEF RecordedIsTrue
<1> QED
  BY <1>1, LifecycleInvariance, PTL

----------------------------------------------------------------------------
(***************************************************************************)
(* The controller implements OwnedLifecycle, as long as no command         *)
(* outlives its process.                                                   *)
(***************************************************************************)
\* The tracks whose answer is on record.
Replied == {t \in Tracks : Request(t) = "complete"}

\* Behind a runtime that was ready, absence is proved only behind the freeze.
LEMMA AbsentBehindFreeze ==
  ASSUME LInv, Done("readiness"), Stage("profile_absence_proof") # "none"
  PROVE  Done("evidence_freeze")
<1>1. Done("cluster_create") /\ Done("profile_start")
  <2>1. /\ Done(SetupSequence[7]) => Done(SetupSequence[6])
        /\ Done(SetupSequence[6]) => Done(SetupSequence[5])
        /\ Done(SetupSequence[5]) => Done(SetupSequence[4])
        /\ Done(SetupSequence[4]) => Done(SetupSequence[3])
        /\ Done(SetupSequence[3]) => Done(SetupSequence[2])
        /\ Done(SetupSequence[2]) => Done(SetupSequence[1])
    BY DEF LInv, SetupChain, Done
  <2> QED
    BY <2>1 DEF SetupSequence
<1>2. Done("profile_stop")
  BY <1>1 DEF LInv, IInv, TeardownLinks, Done
<1>3. Done("cluster_absence_proof")
  BY <1>1, <1>2 DEF LInv, HistoryLinks, ClusterOwned, Done
<1>4. Done("cluster_delete")
  BY <1>3 DEF LInv, HistoryLinks, Done
<1> QED
  BY <1>4 DEF LInv, DestructionLinks, Done

\* While a request is open or its freeze pending, the lifecycle is not absent.
LEMMA NotYetAbsent ==
  ASSUME LInv, ~Done("evidence_freeze"), Stage("evidence_freeze") # "none" \/ Claimed # {}
  PROVE  ~Done("profile_absence_proof")
<1>1. Done("readiness")
  BY DEF LInv, HistoryLinks, IInv, RequestChain
<1> QED
  BY <1>1, AbsentBehindFreeze DEF Done

\* What was answered was sent.
LEMMA RepliesWereSent ==
  ASSUME LInv
  PROVE  Replied \subseteq Served
<1> SUFFICES ASSUME NEW t \in Tracks, Request(t) = "complete" PROVE world.sent[t] > 0
  BY DEF Replied, Served
<1> QED
  BY DEF LInv, Sent, Request

\* A step that shows nothing but perhaps the latch.
LEMMA ShowsNothing ==
  ASSUME LInv, LTypeOK', UNCHANGED <<Served, Replied, Done("evidence_freeze"),
                            Done("profile_absence_proof"), comparison, world.published>>,
         latched => latched'
  PROVE  [Owned!Next]_(Owned!vars)
<1>1. latched \in BOOLEAN /\ latched' \in BOOLEAN
  BY DEF LInv, LTypeOK, TypeOK
<1>2. CASE latched' = latched
  BY <1>2 DEF Owned!vars, Replied
<1>3. CASE latched' # latched
  BY <1>1, <1>3 DEF Owned!Next, Owned!Close, Replied
<1> QED
  BY <1>2, <1>3

\* The stages that are shown are read off the table.
LEMMA ShownStages ==
  ASSUME LInv, Act
  PROVE  /\ stage' = stage => UNCHANGED <<Replied, Done("evidence_freeze"),
                                          Done("profile_absence_proof")>>
         /\ world'.sent = world.sent => Served' = Served
         /\ latched => latched'
         /\ LTypeOK'
         /\ "evidence_freeze" \in Owns /\ "profile_absence_proof" \in Owns
         /\ \A t \in Tracks : <<"request", t>> \in Ops
<1>1. latched => latched'
  BY JournalKept DEF LInv, Act
<1>2. LTypeOK'
  BY ControlKept DEF LInv, Act
<1> QED
  BY <1>1, <1>2, Names DEF Replied, Request, Done, Stage, Served, Owns, CleanupFamilies

\* A claim shows nothing.
LEMMA ClaimShows ==
  ASSUME LInv, Act, Claim
  PROVE  [Owned!Next]_(Owned!vars)
<1>1. Core
  BY DEF LInv, Core
<1>2. /\ NextOp \in Ops /\ Intends(NextOp)
      /\ stage' = [stage EXCEPT ![NextOp] = "pending"] /\ Kept
  BY <1>1, Claims
<1>3. \A op \in Ops : stage'[op] = "complete" <=> stage[op] = "complete"
  BY <1>2 DEF Intends, LInv, LTypeOK, TypeOK
<1>4. Replied' = Replied
  BY <1>3, Names DEF Replied, Request
<1>5. /\ Done("evidence_freeze")' = Done("evidence_freeze")
      /\ Done("profile_absence_proof")' = Done("profile_absence_proof")
  BY <1>3, Names DEF Done, Stage, CleanupFamilies
<1> QED
  BY <1>2, <1>4, <1>5, ShownStages, ShowsNothing DEF Kept, Intends

\* A recorded answer is an answer to what was sent, in a lifecycle that is
\* still open.
LEMMA AnswerShows ==
  ASSUME LInv, Act, Answer
  PROVE  [Owned!Next]_(Owned!vars)
<1>1. Core
  BY DEF LInv, Core
<1>2. PICK t \in Tracks :
        /\ run.op = <<"request", t>> /\ run.op \in Ops
        /\ stage[<<"request", t>>] = "pending"
        /\ stage' = [stage EXCEPT ![<<"request", t>>] = "complete"]
        /\ ResultAdmitted(t) /\ world.sent[t] > 0
        /\ UNCHANGED <<world, latched, comparison>>
  BY <1>1, Answers
<1>3. Replied' = Replied \cup {t}
  BY <1>2 DEF Replied, Request, LInv, LTypeOK, TypeOK
<1>4. t \in Served /\ t \notin Replied
  BY <1>2 DEF Served, Replied, Request
<1>5. /\ Done("evidence_freeze")' = Done("evidence_freeze")
      /\ Done("profile_absence_proof")' = Done("profile_absence_proof")
  BY <1>2, Names DEF Done, Stage, CleanupFamilies, Op, LInv, LTypeOK, TypeOK
<1>6. ~latched /\ ~Done("evidence_freeze")
  BY <1>2 DEF ResultAdmitted, Done
<1>7. ~Done("profile_absence_proof")
  BY <1>2, <1>6, NotYetAbsent DEF Claimed, Request
<1>8. Served' = Served /\ world.published' = world.published
  BY <1>2 DEF Served
<1>9. Owned!Answer(t)
  BY <1>2, <1>3, <1>4, <1>5, <1>6, <1>7, <1>8 DEF Owned!Answer, Owned!Open, Replied
<1> QED
  BY <1>9 DEF Owned!Next

\* A terminal seals, proves absence or compares, or it closes the lifecycle.
LEMMA DecisionShows ==
  ASSUME LInv, Act, NEW op \in Ops, Decides(op)
  PROVE  [Owned!Next]_(Owned!vars)
<1> DEFINE freeze == Op("evidence_freeze")
           absence == Op("profile_absence_proof")
           foreign == Op("foreign_snapshot_comparison")
<1>1. /\ stage[op] = "pending" /\ op[1] # "request"
      /\ stage' = [stage EXCEPT ![op] = Verdict(op)]
      /\ latched' = (latched \/ Verdict(op) # "complete")
      /\ \/ comparison' = comparison
         \/ op = foreign /\ Verdict(op) = "complete" /\ comparison' \in {"same", "changed"}
      /\ UNCHANGED world
  BY DEF Decides, TerminalAdmitted
<1>2. \A o \in Ops : o # op => stage'[o] = stage[o]
  BY <1>1 DEF LInv, LTypeOK, TypeOK
<1>3. stage'[op] = Verdict(op)
  BY <1>1 DEF LInv, LTypeOK, TypeOK
<1>4. Replied' = Replied /\ Served' = Served /\ world.published' = world.published
  <2>1. \A t \in Tracks : stage'[<<"request", t>>] = stage[<<"request", t>>]
    <3> SUFFICES ASSUME NEW t \in Tracks
                 PROVE  stage'[<<"request", t>>] = stage[<<"request", t>>]
      OBVIOUS
    <3>1. <<"request", t>> \in Ops /\ <<"request", t>>[1] = "request"
      BY Names
    <3> QED
      BY <1>1, <1>2, <3>1
  <2> QED
    BY <1>1, <2>1 DEF Replied, Request, Served
<1>l. Verdict(op) = "complete" => latched' = latched
  <2>1. latched \in BOOLEAN
    BY DEF LInv, LTypeOK, TypeOK
  <2> QED
    BY <1>1, <2>1
<1>5. freeze \in Ops /\ absence \in Ops /\ foreign \in Ops
  BY Names DEF CleanupFamilies
<1>6. freeze # absence /\ freeze # foreign /\ absence # foreign
  BY DEF Op
<1>7. /\ op # freeze => Done("evidence_freeze")' = Done("evidence_freeze")
      /\ op # absence => Done("profile_absence_proof")' = Done("profile_absence_proof")
  BY <1>2, <1>5 DEF Done, Stage
<1>8. CASE Verdict(op) # "complete"
  <2>1. /\ Done("evidence_freeze")' = Done("evidence_freeze")
        /\ Done("profile_absence_proof")' = Done("profile_absence_proof")
    BY <1>1, <1>3, <1>7, <1>8 DEF Done, Stage
  <2> QED
    BY <1>1, <1>4, <1>8, <2>1, ShownStages, ShowsNothing
<1>9. CASE Verdict(op) = "complete" /\ op = freeze
  <2>1. ~Done("evidence_freeze") /\ Stage("evidence_freeze") # "none"
    BY <1>1, <1>9 DEF Done, Stage
  <2>2. ~Done("profile_absence_proof")
    BY <2>1, NotYetAbsent
  <2>3. Done("evidence_freeze")'
    BY <1>3, <1>9 DEF Done, Stage
  <2>4. UNCHANGED <<latched, comparison, Done("profile_absence_proof")>>
    BY <1>1, <1>l, <1>6, <1>7, <1>9
  <2>5. Owned!Seal
    BY <1>4, <2>1, <2>2, <2>3, <2>4 DEF Owned!Seal, Replied
  <2> QED
    BY <2>5 DEF Owned!Next
<1>10. CASE Verdict(op) = "complete" /\ op = absence
  <2>1. ~Done("profile_absence_proof") /\ Stage("profile_absence_proof") # "none"
    BY <1>1, <1>10 DEF Done, Stage
  <2>2. Done("evidence_freeze") \/ Served = {}
    BY <2>1, SentOnce, AbsentBehindFreeze
  <2>3. Done("profile_absence_proof")'
    BY <1>3, <1>10 DEF Done, Stage
  <2>4. UNCHANGED <<latched, comparison, Done("evidence_freeze")>>
    BY <1>1, <1>l, <1>6, <1>7, <1>10
  <2>5. Owned!ProveAbsence
    BY <1>4, <2>1, <2>2, <2>3, <2>4 DEF Owned!ProveAbsence, Replied
  <2> QED
    BY <2>5 DEF Owned!Next
<1>11. CASE comparison' # comparison
  <2>1. op = foreign /\ Verdict(op) = "complete" /\ comparison' \in {"same", "changed"}
    BY <1>1, <1>11
  <2>2. Stage("foreign_snapshot_comparison") = "pending"
    BY <1>1, <2>1 DEF Stage
  <2>3. Done("profile_absence_proof") /\ comparison = "none"
    BY <2>2 DEF LInv, IInv, TeardownLinks, HistoryLinks, Done
  <2>4. UNCHANGED <<latched, Done("evidence_freeze"), Done("profile_absence_proof")>>
    BY <1>l, <1>6, <1>7, <2>1
  <2>5. Owned!Compare
    BY <1>4, <2>1, <2>3, <2>4 DEF Owned!Compare, Replied
  <2> QED
    BY <2>5 DEF Owned!Next
<1>12. CASE op # freeze /\ op # absence /\ comparison' = comparison
  BY <1>4, <1>7, <1>12, ShownStages, ShowsNothing
<1> QED
  BY <1>8, <1>9, <1>10, <1>11, <1>12

\* A command that serves a request sends it, one that publishes publishes, and
\* any other shows nothing but the latch.
LEMMA CommandShows ==
  ASSUME ~Orphans, LInv, Act, NEW op \in Ops, Commands(op), Touched(world', op)
  PROVE  [Owned!Next]_(Owned!vars)
<1>1. UNCHANGED <<stage, comparison, mode>>
  BY DEF Commands
<1>2. UNCHANGED <<Replied, Done("evidence_freeze"), Done("profile_absence_proof")>>
  BY <1>1, ShownStages
<1>3. op[1] \in {"request", "publication"} =>
        run.at = "act" /\ run.op = op /\ ~latched /\ latched' = latched
  <2>1. inflight = NoOp /\ Acting(op)
    BY DEF LInv, OnceClaimed, Commands
  <2>2. op[1] \in {"request", "publication"} => run.at = "act" /\ run.op = op
    BY <2>1, Names DEF Acting, LInv, InHand, Cleanups
  <2> QED
    BY <2>2 DEF LInv, InHand, Commands
<1>4. CASE world'.sent # world.sent
  <2>1. op[1] = "request" /\ world'.sent = [world.sent EXCEPT ![op[2]] = @ + 1]
    BY <1>4 DEF Touched, ProfileTouched, ClusterTouched
  <2>2. PICK t \in Tracks : op = <<"request", t>>
    BY <2>1, OpsOf DEF Ops, TrackFamilies, SingleFamilies, SetupFamilies, CleanupFamilies
  <2>3. /\ stage[<<"request", t>>] = "pending"
        /\ Stage("evidence_freeze") = "none"
    BY <1>3, <2>2 DEF LInv, InHand, Busy, EvidenceLinks
  <2>4. ~Done("evidence_freeze") /\ ~Done("profile_absence_proof")
    BY <2>2, <2>3, NotYetAbsent DEF Claimed, Request, Done
  <2>5. t \notin Served
    BY <2>2, <1>3 DEF LInv, Sent, Acting, Served
  <2>6. Served = Replied
    <3> SUFFICES ASSUME NEW u \in Served PROVE u \in Replied
      BY RepliesWereSent
    <3>1. u \in Tracks /\ u # t /\ u \in Claimed /\ t \in Claimed
      BY <2>3, <2>5, SentOnce DEF ClaimedBeforeSent, Served, Claimed, Request
    <3>2. CASE u < t
      BY <3>1, <3>2, NumTracksAssumption DEF LInv, IInv, RequestChain, Before, Tracks, Replied
    <3>3. CASE t < u
      <4>1. Request(t) = "complete"
        BY <3>1, <3>3, NumTracksAssumption DEF LInv, IInv, RequestChain, Before, Tracks
      <4> QED
        BY <4>1, <2>3 DEF Request
    <3> QED
      BY <3>1, <3>2, <3>3, NumTracksAssumption DEF Tracks
  <2>7. Served' = Served \cup {t}
    BY <2>1, <2>2, <2>5 DEF Served, LInv, LTypeOK, Worlds
  <2>8. world'.published = world.published
    BY <2>1 DEF Touched, ProfileTouched, ClusterTouched
  <2>9. Owned!Send(t)
    BY <1>1, <1>2, <1>3, <2>2, <2>4, <2>5, <2>6, <2>7, <2>8
       DEF Owned!Send, Owned!Open, Replied
  <2> QED
    BY <2>9 DEF Owned!Next
<1>5. CASE world'.sent = world.sent /\ world'.published # world.published
  <2>1. op[1] = "publication" /\ world'.published /\ ~world.published
    BY <1>5 DEF Touched, ProfileTouched, ClusterTouched, LInv, LTypeOK, Worlds
  <2>2. op = Op("publication")
    BY <2>1 DEF Ops, Op, TrackFamilies
  <2>3. Stage("publication") # "none"
    <3>1. Acting(Op("publication"))
      BY <1>3, <2>1, <2>2 DEF Acting
    <3> QED
      BY <3>1 DEF LInv, PublicationLinks
  <2>4. /\ Done("evidence_freeze") /\ comparison = "same"
        /\ mode = "nominal" => Replied = Tracks
    BY <2>3 DEF LInv, PublicationLinks, IInv, PublicationFollowsTeardown, Replied
  <2>5. Served = Replied
    <3>1. CASE mode = "nominal"
      BY <3>1, <2>4, RepliesWereSent DEF Served
    <3>2. CASE mode # "nominal"
      BY <3>2, RepliesWereSent, SentOnce DEF ClaimedBeforeSent
    <3> QED
      BY <3>1, <3>2
  <2>6. Served' = Served
    BY <1>5 DEF Served
  <2>7. Owned!Publish
    BY <1>1, <1>2, <1>3, <2>1, <2>4, <2>5, <2>6 DEF Owned!Publish, Replied
  <2> QED
    BY <2>7 DEF Owned!Next
<1>6. CASE world'.sent = world.sent /\ world'.published = world.published
  BY <1>1, <1>2, <1>6, ShownStages, ShowsNothing
<1> QED
  BY <1>4, <1>5, <1>6

\* As long as no command outlives its process, every lifecycle of the controller
\* is one that OwnedLifecycle allows: what its bundle promises holds of the
\* journal and the host (design sections 10 and 11).
THEOREM KeepsPromises == ASSUME ~Orphans PROVE LifecycleSpec => KeepsItsPromises
<1>1. LifecycleInit => Owned!Init
  <2> SUFFICES ASSUME LifecycleInit PROVE Owned!Init
    OBVIOUS
  <2>1. PICK contract \in BOOLEAN : world = InitialWorld(contract)
    BY ContractsAssumption DEF LifecycleInit
  <2>2. stage = [op \in Ops |-> "none"] /\ latched = FALSE /\ comparison = "none"
    BY DEF LifecycleInit, Init
  <2>3. Served = {} /\ world.published = FALSE
    BY <2>1 DEF InitialWorld, Served
  <2>4. Replied = {}
    BY <2>2, Names DEF Replied, Request
  <2>5. Done("evidence_freeze") = FALSE /\ Done("profile_absence_proof") = FALSE
    BY <2>2, Names DEF Done, Stage, CleanupFamilies
  <2> QED
    BY <2>2, <2>3, <2>4, <2>5 DEF Owned!Init, Replied
<1>2. LInv /\ [LifecycleNext]_lifecycle => [Owned!Next]_(Owned!vars)
  <2> SUFFICES ASSUME LInv, Act PROVE [Owned!Next]_(Owned!vars)
    BY DEF Act
  <2>1. Core
    BY DEF LInv, Core
  <2>2. Turns \/ Claim \/ Answer \/ Capture \/ \E op \in Ops : Decides(op) \/ Commands(op)
    BY <2>1, Kinds DEF Core, Act, Kind
  <2>3. ASSUME UNCHANGED <<stage, comparison>>, Kept
        PROVE  [Owned!Next]_(Owned!vars)
    BY <2>3, ShownStages, ShowsNothing DEF Kept
  <2>4. CASE Turns
    BY <2>4, <2>3 DEF Turns
  <2>5. CASE Capture
    BY <2>1, <2>5, <2>3, Captured
  <2>6. ASSUME NEW op \in Ops, Commands(op) PROVE [Owned!Next]_(Owned!vars)
    BY <2>1, <2>6, Outcomes, CommandShows DEF Core, Commands
  <2> QED
    BY <2>2, <2>4, <2>5, <2>6, ClaimShows, AnswerShows, DecisionShows
<1> QED
  BY <1>1, <1>2, LifecycleInvariance, PTL DEF LifecycleSpec, KeepsItsPromises, Owned!Spec

----------------------------------------------------------------------------
(***************************************************************************)
(* What OwnedLifecycle promises a reader, carried over to the controller.  *)
(* Its inductive invariant needs one thing that its Publish does not ask   *)
(* for: a comparison was made behind the absence proof.                    *)
(***************************************************************************)
OwnedInv ==
  /\ Owned!TypeOK
  /\ Owned!PublicIsComplete
  /\ comparison # "none" => Done("profile_absence_proof")

\* A lifecycle starts with nothing sent, proved or public.
LEMMA OwnedInit == Owned!Init => OwnedInv
BY DEF Owned!Init, OwnedInv, Owned!TypeOK, Owned!PublicIsComplete

\* Every step OwnedLifecycle allows keeps its promises.
LEMMA OwnedStep ==
  OwnedInv /\ [Owned!Next]_(Owned!vars) =>
    /\ OwnedInv'
    /\ world.published =>
         /\ Served' = Served /\ Replied' = Replied
         /\ Done("evidence_freeze")' = Done("evidence_freeze")
         /\ Done("profile_absence_proof")' = Done("profile_absence_proof")
         /\ comparison' = comparison /\ world'.published = world.published
<1> SUFFICES ASSUME OwnedInv, [Owned!Next]_(Owned!vars)
             PROVE  /\ OwnedInv'
                    /\ world.published =>
                         /\ Served' = Served /\ Replied' = Replied
                         /\ Done("evidence_freeze")' = Done("evidence_freeze")
                         /\ Done("profile_absence_proof")' = Done("profile_absence_proof")
                         /\ comparison' = comparison /\ world'.published = world.published
  OBVIOUS
<1> USE DEF OwnedInv, Owned!TypeOK, Owned!PublicIsComplete, Replied
<1>1. ASSUME NEW t \in Tracks, Owned!Send(t) PROVE OwnedInv' /\ ~world.published
  BY <1>1 DEF Owned!Send, Owned!Open
<1>2. ASSUME NEW t \in Tracks, Owned!Answer(t) PROVE OwnedInv' /\ ~world.published
  BY <1>2 DEF Owned!Answer, Owned!Open
<1>3. CASE Owned!Seal
  BY <1>3 DEF Owned!Seal
<1>4. CASE Owned!Close
  BY <1>4 DEF Owned!Close
<1>5. CASE Owned!ProveAbsence
  BY <1>5 DEF Owned!ProveAbsence
<1>6. CASE Owned!Compare
  BY <1>6 DEF Owned!Compare
<1>7. CASE Owned!Publish
  BY <1>7 DEF Owned!Publish
<1>8. CASE UNCHANGED Owned!vars
  BY <1>8 DEF Owned!vars
<1> QED
  BY <1>1, <1>2, <1>3, <1>4, <1>5, <1>6, <1>7, <1>8 DEF Owned!Next

\* What is public is complete: every request that was sent is answered, the
\* evidence is frozen, nothing owned is left and nothing foreign changed, as
\* long as no command outlives its process (_publish).
THEOREM PublicIsWhole == ASSUME ~Orphans PROVE LifecycleSpec => []Owned!PublicIsComplete
<1>1. OwnedInv => Owned!PublicIsComplete
  BY DEF OwnedInv
<1> QED
  BY <1>1, OwnedInit, OwnedStep, KeepsPromises, PTL DEF KeepsItsPromises, Owned!Spec

\* What was published stays true: no later step of the controller adds a
\* request or an answer, or takes back anything the bundle says.
THEOREM PublicIsForGood == ASSUME ~Orphans PROVE LifecycleSpec => Owned!PublicIsFinal
<1>1. OwnedInv /\ [Owned!Next]_(Owned!vars) =>
        [world.published => UNCHANGED <<Served, Replied, Done("evidence_freeze"),
                                        Done("profile_absence_proof"), comparison,
                                        world.published>>]_(Owned!vars)
  BY OwnedStep
<1> QED
  BY <1>1, OwnedInit, OwnedStep, KeepsPromises, PTL
     DEF KeepsItsPromises, Owned!Spec, Owned!PublicIsFinal, Replied
=============================================================================
