------------------------------- MODULE Replay -------------------------------
(***************************************************************************)
(* The historical replay: load_scenario (src/kil/scenario.py) reads events *)
(* one after the other, then replay (src/kil/replay.py) decides each on    *)
(* its own and follows, for each of the three tracks, which events could   *)
(* still have been reached.                                                *)
(*                                                                         *)
(* Abstracted: summaries, rationales and evidence labels.                  *)
(***************************************************************************)
EXTENDS Kernel, Sequences

CONSTANTS
  Ids,       \* event IDs, which are the request IDs
  Bodies     \* what an event may say besides: request, state, evidence, control

ASSUME IdsAssumption == Ids \subseteq Names
ASSUME BodiesAssumption ==
  Bodies \subseteq [time : Times, state : States, evidence : Evidence,
                    credential : BOOLEAN, policy : BOOLEAN]

VARIABLES
  stage,     \* of the command: loading, replaying, replayed, rejected
  events,    \* the scenario's events so far
  success,   \* baseline_success, signed_success, local_success
  report     \* the paired decisions

replay == <<stage, events, success, report>>

Event == [id : Ids, deps : SUBSET Ids, body : Bodies]
Seen(n) == {events[i].id : i \in 1..n}

\* The loader makes the request of the event's own identity and class.
RequestOf(e) == [id |-> e.id, identity |-> e.body.state.identity,
                 class |-> e.body.state.class, time |-> e.body.time]

Permitted(track, e) ==
  IF track = "baseline"
  THEN e.body.credential /\ e.body.policy
  ELSE Permits(RequestOf(e), e.body.state, track, e.body.evidence)
----------------------------------------------------------------------------
Load(e) ==
  /\ stage = "loading"
  /\ IF e.id \notin Seen(Len(events)) /\ e.deps \subseteq Seen(Len(events))
        /\ ValidState(e.body.state)
     THEN events' = Append(events, e) /\ stage' = stage
     ELSE events' = events /\ stage' = "rejected"
  /\ UNCHANGED <<success, report>>

\* A scenario has at least one event.
Loaded ==
  /\ stage = "loading"
  /\ stage' = IF events = <<>> THEN "rejected" ELSE "replaying"
  /\ UNCHANGED <<events, success, report>>

Current == events[Len(report) + 1]
Reachable(track) == Current.deps \subseteq success[track]

Paired ==
  [id |-> Current.id,
   permit |-> [t \in Tracks |-> Permitted(t, Current)],
   reachable |-> [t \in Tracks |-> Reachable(t)]]

\* Mutant: a permitted event succeeds although it was cut off.
Step_Disconnected ==
  /\ stage = "replaying"
  /\ Len(report) < Len(events)
  /\ report' = Append(report, Paired)
  /\ success' = [t \in Tracks |->
       success[t] \cup {id \in {Current.id} : Permitted(t, Current)}]
  /\ UNCHANGED <<stage, events>>

Step ==
  /\ stage = "replaying"
  /\ Len(report) < Len(events)
  /\ report' = Append(report, Paired)
  /\ success' = [t \in Tracks |->
       success[t] \cup {id \in {Current.id} : Reachable(t) /\ Permitted(t, Current)}]
  /\ UNCHANGED <<stage, events>>

Replayed ==
  /\ stage = "replaying"
  /\ Len(report) = Len(events)
  /\ stage' = "replayed"
  /\ UNCHANGED <<events, success, report>>

ReplayInit ==
  /\ stage = "loading"
  /\ events = <<>>
  /\ success = [t \in Tracks |-> {}]
  /\ report = <<>>

ReplayNext == (\E e \in Event : Load(e)) \/ Loaded \/ Step \/ Replayed

ReplaySpec == ReplayInit /\ [][ReplayNext]_replay
----------------------------------------------------------------------------
\* The scenario, the sets of successes and the report stay in their ranges, and
\* the report follows the scenario event by event (what _validate_alignment of
\* run_bundle.py insists on before anything is written).
ReplayTypeOK ==
  /\ stage \in {"loading", "replaying", "replayed", "rejected"}
  /\ events \in Seq(Event)
  /\ success \in [Tracks -> SUBSET Ids]
  /\ report \in Seq([id : Ids, permit : [Tracks -> BOOLEAN], reachable : [Tracks -> BOOLEAN]])
  /\ Len(report) <= Len(events)
  /\ \A i \in 1..Len(report) : report[i].id = events[i].id
  /\ stage = "replayed" => Len(report) = Len(events)

\* An event succeeds on a track only if it is permitted and every event it
\* depends on has succeeded, directly and so through all its ancestors: a
\* denial cuts off whatever hangs below it (the reachable flags of replay).
SuccessIsConnected ==
  \A t \in Tracks : \A i \in 1..Len(report) :
    events[i].id \in success[t] <=>
      Permitted(t, events[i]) /\ events[i].deps \subseteq success[t]

\* Local evidence never opens a path: whatever the reducing track reaches, the
\* signed track reaches too, over all dependencies (the claim of the overlay
\* that local evidence only reduces, lifted from one decision to a scenario).
LocalWithinSigned == success["local"] \subseteq success["signed"]
=============================================================================
