------------------------ MODULE V3B1LifecycleProofs ------------------------
(***************************************************************************)
(* A V3B-1 lifecycle, proved: for any number of tracks and of failures,    *)
(* through every step of `up`, of the sessions, of `down` and of the world *)
(* around them.                                                            *)
(*                                                                         *)
(* The invariant has two halves.  Sound is about the sessions: what the    *)
(* journal says of a driver is true of its container (Truth), and what the *)
(* process goes by where it is (Course); whatever changes a journal or a   *)
(* container is one of a few moves (Moves), each of which keeps the truth. *)
(* Fits and Rests are about what surrounds them: what is so at each place  *)
(* of `up` and of `down`, and what is so once something was copied,        *)
(* attested, compared or made public.                                      *)
(*                                                                         *)
(* The last part proves that the lifecycle keeps what LocalLifecycle       *)
(* promises.  It needs what a second `down` can rely on, having nothing    *)
(* but the journal to go by: Entries is what the journal's entries imply   *)
(* of one another, and Posts what a process goes by where it is.           *)
(***************************************************************************)
EXTENDS V3B1Lifecycle, TLAPS, WellFoundedInduction

Cmds == {"none", "readiness", "run", "up", "down", "redown", "collect"}

\* The places of a process by what it may do there to the driver it has reached:
\* start it, have it send, or nothing that could start it or make it send.
Opening == {"start_intent", "spawn", "start_complete", "read_ready", "set_complete"}
Asking == {"claim", "instruct", "deliver", "read_result", "save_result",
           "result", "save_record", "record", "complete"}
Holding == {"save_result", "result", "save_record", "record", "complete"}
Tending == {"cancel", "cancel_exit", "fail_cancel", "fail_exit", "fail_stop", "fail_stopped",
            "fail_cleanup", "fail_cleaned", "run_cancel", "run_exit", "run_recover",
            "run_again", "run_cleaned", "run_fallback"}
Venturing == Opening \cup Asking \cup {"run_close"}
Elsewhere == {"off", "diagnostic", "fail_record", "collect"}
AtSession == Venturing \cup Tending \cup Elsewhere

\* The places of `up` and of `down`: before any driver is looked at, while the
\* drivers are quiesced, while objects remain, when none does, and when the
\* profile is gone.
Creating == {"up_create", "up_created", "up_state", "up_complete"}
Building == {"up_before", "up_intent", "up_start", "up_owned", "up_bind"} \cup Creating
Closing == {"strand", "quiesce", "quiesced"}
Freezes == {"freeze", "leg", "leg_end", "freeze_end"}
Objected == {"partial", "stop_service", "stopped_service", "prepare", "attest", "reject",
             "remove", "removed"}
Emptied == {"topology", "stop", "delete"}
Finals == {"after", "judge", "fail_intent", "fail_prepare", "intend", "finalize", "publish",
           "quarantine", "recheck", "archive"}
Winding == Freezes \cup Objected \cup Emptied \cup Finals
Places == AtSession \cup Building \cup {"load"} \cup Closing \cup Winding

Logs ==
  [session : Sessions, driver : [Tracks -> DriverStates],
   stops : [Tracks -> Stops], cancelled : SUBSET Tracks,
   request : [Tracks -> RequestStages], failure : [Tracks -> Provenances]]
Hosts ==
  [driver : [Tracks -> Containers], sent : [Tracks -> {0, 1}],
   result : [Tracks -> {"none", "driver", "control", "stale"}],
   records : SUBSET Tracks]
Processes ==
  [cmd : Cmds, at : Places, t : Int, held : SUBSET Tracks, closed : SUBSET Nat,
   asked : SUBSET Nat, tried : SUBSET Nat, bad : BOOLEAN, told : BOOLEAN]

STypeOK ==
  /\ log \in Logs /\ host \in Hosts /\ proc \in Processes
  /\ proc.at \in Venturing \cup Tending \cup Closing => proc.t \in Tracks

Reached(t) == host.driver[t] \in {"told", "answered", "broken"} \/ host.sent[t] > 0

\* What the journal says of a driver, against the driver.
Truth(t) ==
  /\ host.sent[t] = 1 => host.driver[t] \in {"answered", "broken", "dead"}
  /\ Reached(t) => log.request[t] \notin {"not_attempted", "request_intent"}
                   /\ log.failure[t] # "unsent"
  /\ log.failure[t] # "none" => log.request[t] = "failed"
  /\ log.driver[t] = "unstarted" => host.driver[t] = "created"
  /\ log.driver[t] \in {"unstarted", "start_intent"} => log.stops[t] = "unstarted"
  /\ log.request[t] = "completed" => host.driver[t] \in {"answered", "broken"}
  /\ log.failure[t] = "transport" => host.driver[t] = "broken"
  /\ t \in log.cancelled => host.driver[t] = "cancelled"
  /\ log.stops[t] = "complete" => host.driver[t] \notin Running

\* What the process relies on.
Course ==
  /\ proc.at \in Opening => ~proc.told /\ \A t \in Tracks : log.request[t] = "not_attempted"
  /\ proc.at \in (Opening \ {"read_ready"}) \cup Asking => ~proc.bad
  /\ proc.at = "spawn" => log.driver[proc.t] = "start_intent" /\ host.driver[proc.t] = "created"
  /\ proc.at \in Asking =>
       /\ proc.told <=> proc.at \notin {"claim", "instruct"}
       /\ \A u \in Tracks : u < proc.t => log.request[u] = "completed"
       /\ \A u \in Tracks : u > proc.t => log.request[u] = "not_attempted"
  /\ proc.at = "claim" => log.request[proc.t] = "not_attempted"
  /\ proc.at = "instruct" => log.request[proc.t] = "request_intent"
  /\ proc.at = "deliver" => log.request[proc.t] = "instruction_intent"
  /\ proc.at \in Holding => host.driver[proc.t] \in {"answered", "broken"}
  /\ proc.at = "run_close" =>
       /\ proc.bad => host.driver[proc.t] = "broken"
       /\ ~proc.told /\ log.request[proc.t] \in Pending => ~Reached(proc.t)


Truths == \A t \in Tracks : Truth(t)
Sound == STypeOK /\ Truths /\ Course

----------------------------------------------------------------------------
Steps == {"unstarted", "pending", "complete"}
Lives ==
  [stage : Progress, created : [Objects -> Steps], removed : [Objects -> Steps],
   stops : [Services -> Steps], freeze : {"none", "started", "complete"},
   leg : [Services -> {"none", "bytes", "copied", "uncopied"}],
   evidence : {"none", "collected", "complete", "incomplete"},
   attested : {"none", "full", "empty"}, failure : {"none", "intent", "prepared"},
   topology : BOOLEAN, deletion : {"none", "intent", "complete"},
   after : {"none", "same", "drift"}, intent : Classes, published : BOOLEAN]
Sites ==
  [profile : {"absent", "running", "stopped"}, objects : SUBSET Objects,
   running : SUBSET Objects, state : BOOLEAN, kept : [Services -> SUBSET Tracks],
   provisional : Classes \cup {"broken"}, public : Classes, archived : BOOLEAN,
   drift : BOOLEAN]

Quiet == \A t \in Tracks : host.driver[t] \notin Running
Whole == AllCompleted /\ Copied /\ \A s \in Services : site.kept[s] = Tracks

\* How far `up` has come.
StageAt ==
  [up_before |-> "journal", up_intent |-> "before", up_start |-> "start_intent",
   up_owned |-> "start_intent", up_bind |-> "owned", up_create |-> "bound",
   up_created |-> "bound", up_state |-> "bound", up_complete |-> "bound"]

\* What is so where the process is: what it may be about, how far the lifecycle
\* is, what is still there, and which drivers no longer run.
Fits ==
  /\ proc.at \in {"up_create", "up_created", "remove", "removed"} => proc.t \in Objects
  /\ proc.at \in {"stop_service", "stopped_service", "leg", "leg_end"} => proc.t \in Services
  /\ proc.at \in Building => life.stage = StageAt[proc.at]
  /\ proc.at \in {"up_owned", "up_bind"} \cup Creating => site.profile = "running"
  /\ proc.at \in Freezes \cup {"prepare", "attest"} => Up
  /\ proc.at \in AtSession \ {"off", "collect"} =>
       Gateways \in site.running /\ site.objects = Objects
  /\ proc.at \in Freezes => Gateways \notin site.running
  /\ proc.at \in Emptied \cup Finals => site.objects = {}
  /\ proc.at \in Finals => site.profile = "absent"
  /\ proc.at \in Winding => Quiet
  /\ proc.at \in {"quiesce", "quiesced"} =>
       \A t \in Tracks : t < proc.t => host.driver[t] \notin Running
  /\ proc.at = "leg_end" => life.leg[proc.t] = "bytes"
  /\ proc.at = "attest" /\ proc.told => Whole

\* What is so wherever it is, and when there is none.
Rests ==
  /\ ~Bound \/ site.profile = "absent" => site.objects = {}
  /\ \A t \in Tracks : host.driver[t] \in Running => t \in site.objects
  /\ \A s \in Services : life.leg[s] # "none" => Up /\ Quiet /\ Gateways \notin site.running
  /\ \A s \in Services : life.leg[s] \in {"bytes", "copied"} => site.kept[s] = Sent
  /\ life.attested = "full" => Whole
  /\ life.after = "same" => ~site.drift
  /\ site.public = "complete" =>
       life.attested = "full" /\ life.after = "same" /\ site.profile = "absent"

\* `down` works in a profile that is there, until it has deleted it.
Underway == {"load"} \cup Closing \cup Freezes \cup Objected \cup Emptied
Standing == proc.at \in Underway => site.profile # "absent"

LInv == Sound /\ life \in Lives /\ site \in Sites /\ Fits /\ Rests

----------------------------------------------------------------------------
LEMMA Indices ==
  /\ NumTracks \in Nat /\ Tracks \subseteq Nat /\ 1 \in Tracks
  /\ Services \subseteq Nat /\ Objects \subseteq Nat /\ Gateways \in Nat
  /\ Ledgers \in Nat /\ Networks \in Nat /\ Tracks \cap Services = {}
  /\ Tracks \subseteq Objects /\ Services \subseteq Objects
BY NumTracksAssumption
   DEF Tracks, Services, Objects, Gateways, Ledgers, Networks

\* Any non-empty set of naturals has the least element that Loop looks for.
LEMMA LeastIsLeast ==
  ASSUME NEW S \in SUBSET Nat, S # {}
  PROVE  Least(S) \in S /\ \A u \in S : Least(S) <= u
<1> DEFINE Lower == {p \in Nat \X Nat : p[1] < p[2]}
<1>1. IsWellFoundedOn(Lower, Nat)
  BY NatLessThanWellFounded DEF OpToRel
<1>2. PICK least \in S : \A u \in S : <<u, least>> \notin Lower
  <2> HIDE DEF Lower
  <2> QED BY <1>1, WFMin
<1>3. \A u \in S : least <= u
  <2> SUFFICES ASSUME NEW u \in S PROVE least <= u
    OBVIOUS
  <2>1. u \in Nat /\ least \in Nat /\ <<u, least>> \notin Lower
    BY <1>2
  <2> QED BY <2>1
<1> QED BY <1>3 DEF Least

\* The process gone to a place and a track.
Gone(p, place, u) == [p EXCEPT !.at = place, !.t = u]

\* A loop goes to the first that is left, or on to what follows it.
LEMMA Looping ==
  ASSUME NEW p, NEW S \in SUBSET Nat, NEW from \in Int, NEW place, NEW after
  PROVE  \/ /\ Loop(p, S, from, place, after) = after
            /\ \A v \in S : v < from
         \/ \E u \in S : /\ Loop(p, S, from, place, after) = Gone(p, place, u)
                         /\ from <= u
                         /\ \A v \in S : from <= v => u <= v
<1> DEFINE left == {u \in S : u >= from}
<1>1. CASE left = {}
  <2>1. \A v \in S : v < from
    <3> TAKE v \in S
    <3>1. v \notin left /\ v \in Nat
      BY <1>1
    <3> QED BY <3>1
  <2> QED BY <1>1, <2>1 DEF Loop
<1>2. CASE left # {}
  <2>0. left \in SUBSET Nat
    OBVIOUS
  <2>2. Loop(p, S, from, place, after) = Gone(p, place, Least(left))
    BY <1>2 DEF Loop, Gone
  <2>1. Least(left) \in left /\ \A v \in left : Least(left) <= v
    <3> HIDE DEF left
    <3> QED BY <1>2, <2>0, LeastIsLeast
  <2>3. Least(left) \in S /\ from <= Least(left) /\ \A v \in S : from <= v => Least(left) <= v
    BY <2>1
  <2> HIDE DEF left
  <2> QED BY <2>2, <2>3
<1> QED BY <1>1, <1>2

\* A process that starts no driver and has none send.
Calm(p) ==
  /\ p \in Processes
  /\ p.at \in Tending \cup Elsewhere
  /\ p.at \in Tending => p.t \in Tracks

LEMMA Moved ==
  ASSUME NEW p \in Processes, NEW place \in Places, NEW u \in Int
  PROVE  /\ Gone(p, place, u) \in Processes
         /\ Gone(p, place, u).at = place
         /\ Gone(p, place, u).t = u
         /\ Gone(p, place, u).bad = p.bad
         /\ Gone(p, place, u).told = p.told
         /\ Gone(p, place, u).held = p.held
         /\ Gone(p, place, u).cmd = p.cmd
BY DEF Processes, Gone

LEMMA Placed ==
  ASSUME NEW p \in Processes, NEW place \in Places
  PROVE  /\ To(p, place) \in Processes
         /\ To(p, place).at = place /\ To(p, place).t = p.t
         /\ To(p, place).bad = p.bad /\ To(p, place).told = p.told
         /\ To(p, place).held = p.held /\ To(p, place).cmd = p.cmd
BY DEF Processes, To

\* Which places are which.
LEMMA CalmPlaces ==
  /\ Elsewhere \cap Tending = {} /\ Elsewhere \cap Venturing = {}
  /\ Tending \cap Venturing = {} /\ Closing \cap AtSession = {}
BY DEF Tending, Venturing, Opening, Asking, Elsewhere, Closing, AtSession

LEMMA OffIsCalm == Calm(Off) /\ Off \in Processes /\ Off.at = "off"
<1>1. {} \in SUBSET Nat /\ {} \in SUBSET Tracks /\ 1 \in Int /\ FALSE \in BOOLEAN
  OBVIOUS
<1>2. "none" \in Cmds
  BY DEF Cmds
<1>3. "off" \in Elsewhere /\ "off" \in Places
  BY DEF Elsewhere, Places, AtSession
<1>4. Off \in Processes
  BY <1>1, <1>2, <1>3, Zenon DEF Off, Processes
<1>5. Off.at = "off"
  BY DEF Off
<1> QED BY <1>3, <1>4, <1>5, CalmPlaces DEF Calm

\* A loop over calm places that ends calmly is calm.
LEMMA LoopIsCalm ==
  ASSUME NEW p \in Processes, NEW S, S \subseteq Tracks, NEW from \in Int,
         NEW place \in Tending \cup Elsewhere, NEW after, Calm(after)
  PROVE  Calm(Loop(p, S, from, place, after))
<1> DEFINE r == Loop(p, S, from, place, after)
<1>0. S \in SUBSET Nat
  BY Indices
<1>01. \/ /\ Loop(p, S, from, place, after) = after
           /\ \A v \in S : v < from
        \/ \E u \in S : /\ Loop(p, S, from, place, after) = Gone(p, place, u)
                        /\ from <= u
                        /\ \A v \in S : from <= v => u <= v
  BY <1>0, Looping
<1>1. r = after \/ \E u \in S : r = Gone(p, place, u)
  BY <1>01
<1> HIDE DEF r
<1>2. ASSUME NEW u \in S, r = Gone(p, place, u) PROVE Calm(r)
  <2>1. u \in Int /\ u \in Tracks /\ place \in Places
    BY Indices DEF Places, AtSession
  <2>2. r \in Processes /\ r.at = place /\ r.t = u
    BY <1>2, <2>1, Moved
  <2> QED BY <2>1, <2>2 DEF Calm
<1>3. Calm(r)
  BY <1>1, <1>2
<1> QED BY <1>3 DEF r

LEMMA PlacedIsCalm ==
  ASSUME NEW p \in Processes, NEW place \in Tending \cup Elsewhere,
         place \in Tending => p.t \in Tracks
  PROVE  Calm(To(p, place))
<1>1. To(p, place) \in Processes /\ To(p, place).at = place /\ To(p, place).t = p.t
  BY Placed DEF Places, AtSession
<1> QED BY <1>1 DEF Calm

\* The failure path of readiness is calm from its first place on.
LEMMA ReadinessFailsCalmly ==
  ASSUME NEW p \in Processes
  PROVE  Calm(ReadinessFails(p))
<1>1. p.held \subseteq Tracks
  BY DEF Processes
<1>2. Calm(To(p, "fail_record"))
  <2>1. "fail_record" \in Elsewhere
    BY DEF Elsewhere
  <2> QED BY <2>1, PlacedIsCalm, CalmPlaces
<1>3. /\ "fail_stop" \in Tending /\ "fail_exit" \in Tending
      /\ "fail_cancel" \in Tending
  BY DEF Tending
<1>4. Calm(Loop(p, p.held, 1, "fail_stop", To(p, "fail_record")))
  BY <1>1, <1>2, <1>3, LoopIsCalm
<1>5. Calm(Loop(p, p.held \ p.tried, 1, "fail_exit",
             Loop(p, p.held, 1, "fail_stop", To(p, "fail_record"))))
  <2>1. p.held \ p.tried \subseteq Tracks
    BY <1>1
  <2> QED BY <2>1, <1>3, <1>4, LoopIsCalm
<1>6. p.held \ p.asked \subseteq Tracks
  BY <1>1
<1>7. Calm(Loop(p, p.held \ p.asked, 1, "fail_cancel",
             Loop(p, p.held \ p.tried, 1, "fail_exit",
               Loop(p, p.held, 1, "fail_stop", To(p, "fail_record")))))
  BY <1>3, <1>5, <1>6, LoopIsCalm
<1> QED BY <1>7 DEF ReadinessFails
----------------------------------------------------------------------------
(***************************************************************************)
(* What a step does to the journal and to the containers, whoever takes    *)
(* it: each of these keeps the one true to the other.                      *)
(***************************************************************************)
Untouched == host' \in Hosts /\ host'.driver = host.driver /\ host'.sent = host.sent
Events == DOMAIN DriverRules

SaysOfSession == \E s \in Sessions : log' = [log EXCEPT !.session = s]
SaysOfDriver(u) ==
  \E e \in Events :
    /\ log' = DriverEvent(u, e)
    /\ e = "start_intent" => log.driver[u] = "unstarted"
    /\ e = "cancel_complete" => host.driver[u] = "cancelled"
    /\ e = "stop_complete" => host.driver[u] \notin Running
SaysOfRequest(u) ==
  \E stage \in RequestStages \ {"not_attempted", "failed"} :
    /\ log' = RequestEvent(u, stage) /\ RequestMay(u, stage)
    /\ stage = "completed" => host.driver[u] \in {"answered", "broken"}
SaysItFailed(u) ==
  \E why \in Provenances \ {"none"} :
    /\ log' = FailedEvent(u, why) /\ log.request[u] \in Pending
    /\ why = "unsent" => ~Reached(u)
    /\ why = "transport" => host.driver[u] = "broken"

Halted(u) ==
  /\ host.driver[u] \in Running /\ host' = SetDriver(u, "dead")
  /\ log' \in {log, DriverEvent(u, "stop_complete"), DriverEvent(u, "stop_failed")}
Spawned(u) ==
  /\ host.driver[u] = "created" /\ log.driver[u] = "start_intent"
  /\ host' = SetDriver(u, "waiting") /\ log' = log
Told(u) ==
  /\ host.driver[u] = "waiting" /\ log.request[u] = "instruction_intent"
  /\ \A v \in Tracks : v < u => log.request[v] = "completed"
  /\ host' = SetDriver(u, "told") /\ log' = log
Sends(u) ==
  /\ host.driver[u] = "told" /\ log' = log
  /\ \E d \in {"answered", "broken", "dead"}, n \in {0, 1} :
       host' = [host EXCEPT !.driver[u] = d, !.sent[u] = @ + n]
Ends(u) ==
  /\ host.driver[u] = "waiting" /\ log' = log
  /\ \E d \in {"cancelled", "dead"} : host' = SetDriver(u, d)
Rebooted ==
  /\ log' = log
  /\ host' = [host EXCEPT !.driver = [t \in Tracks |->
                IF host.driver[t] \in Running THEN "dead" ELSE host.driver[t]]]

Writes(u) ==
  Untouched /\ (log' = log \/ SaysOfSession \/ SaysOfDriver(u)
                \/ SaysOfRequest(u) \/ SaysItFailed(u))
Moves(u) == Writes(u) \/ Halted(u) \/ Spawned(u) \/ Told(u) \/ Sends(u) \/ Ends(u)

\* What an event of a driver makes of it.
LEMMA Rules ==
  ASSUME NEW e \in Events
  PROVE  /\ DriverRules[e].to \in DriverStates \ {"unstarted"}
         /\ DriverRules[e].to = "start_intent" <=> e = "start_intent"
<1>1. Events = {"start_intent", "start_complete", "readiness_complete", "cancel_intent",
                "cancel_complete", "stop_intent", "stop_complete", "stop_failed",
                "cleanup_intent", "cleaned", "cleanup_failed"}
  BY DEF Events, DriverRules
<1>2. /\ DriverRules["start_intent"].to = "start_intent"
      /\ DriverRules["start_complete"].to = "started"
      /\ DriverRules["readiness_complete"].to = "ready"
      /\ DriverRules["cancel_intent"].to = "cancel_intent"
      /\ DriverRules["cancel_complete"].to = "cancelled"
      /\ DriverRules["stop_intent"].to = "stop_intent"
      /\ DriverRules["stop_complete"].to = "stop_complete"
      /\ DriverRules["stop_failed"].to = "stop_failed"
      /\ DriverRules["cleanup_intent"].to = "cleanup_intent"
      /\ DriverRules["cleaned"].to = "cleaned"
      /\ DriverRules["cleanup_failed"].to = "cleanup_failed"
  BY DEF DriverRules
<1> QED BY <1>1, <1>2 DEF DriverStates

LEMMA StartRule ==
  /\ DriverRules["start_intent"].from = {"unstarted"}
  /\ \A t \in Tracks : DriverMay(t, "start_intent") => log.driver[t] = "unstarted"
<1>1. DriverRules["start_intent"].from = {"unstarted"}
  BY DEF DriverRules
<1> QED BY <1>1 DEF DriverMay

\* An event of a driver, field by field.
LEMMA EventFields ==
  ASSUME log \in Logs, NEW u \in Tracks, NEW e \in Events
  PROVE  /\ DriverEvent(u, e) \in Logs
         /\ DriverEvent(u, e).session = log.session
         /\ DriverEvent(u, e).request = log.request
         /\ DriverEvent(u, e).failure = log.failure
         /\ \A t \in Tracks : t # u => /\ DriverEvent(u, e).driver[t] = log.driver[t]
                                       /\ DriverEvent(u, e).stops[t] = log.stops[t]
         /\ DriverEvent(u, e).driver[u] = DriverRules[e].to
         /\ DriverEvent(u, e).stops[u] = StopAfter(e, log.stops[u])
         /\ DriverEvent(u, e).cancelled =
              IF e = "cancel_complete" THEN log.cancelled \cup {u} ELSE log.cancelled
<1>1. DriverRules[e].to \in DriverStates
  BY Rules
<1>2. \A old \in Stops : StopAfter(e, old) \in Stops
  BY DEF StopAfter, Stops
<1> HIDE DEF Events
<1> DEFINE to == DriverRules[e].to
<1>3. DriverEvent(u, e) = [log EXCEPT !.driver[u] = to,
              !.stops[u] = StopAfter(e, log.stops[u]),
              !.cancelled = IF e = "cancel_complete" THEN log.cancelled \cup {u} ELSE log.cancelled]
  BY DEF DriverEvent
<1>4. to \in DriverStates /\ StopAfter(e, log.stops[u]) \in Stops
  BY <1>1, <1>2 DEF Logs
<1> HIDE DEF to
<1>5. DriverEvent(u, e) \in Logs
  <2>1. /\ [log.driver EXCEPT ![u] = to] \in [Tracks -> DriverStates]
        /\ [log.stops EXCEPT ![u] = StopAfter(e, log.stops[u])] \in [Tracks -> Stops]
        /\ (IF e = "cancel_complete" THEN log.cancelled \cup {u} ELSE log.cancelled)
             \in SUBSET Tracks
    BY <1>4 DEF Logs
  <2>2. DriverEvent(u, e) =
          [log EXCEPT !.driver = [log.driver EXCEPT ![u] = to],
                      !.stops = [log.stops EXCEPT ![u] = StopAfter(e, log.stops[u])],
                      !.cancelled = IF e = "cancel_complete" THEN log.cancelled \cup {u}
                                                            ELSE log.cancelled]
    BY <1>3 DEF Logs
  <2> QED BY <2>1, <2>2 DEF Logs
<1> QED BY <1>3, <1>4, <1>5 DEF Logs, to
----------------------------------------------------------------------------
\* What is true of a driver that nothing is said or done about stays true.
LEMMA SameTruth ==
  ASSUME NEW t \in Tracks, Truth(t),
         host'.driver[t] = host.driver[t], host'.sent[t] = host.sent[t],
         log'.driver[t] = log.driver[t], log'.stops[t] = log.stops[t],
         log'.request[t] = log.request[t], log'.failure[t] = log.failure[t],
         t \in log'.cancelled <=> t \in log.cancelled
  PROVE  Truth(t)'
BY DEF Truth, Reached, Pending, Running

LEMMA WritesKeep ==
  ASSUME log \in Logs, host \in Hosts, Truths, NEW u \in Tracks, Writes(u)
  PROVE  (log \in Logs /\ host \in Hosts /\ Truths)'
<1>1. host' \in Hosts /\ host'.driver = host.driver /\ host'.sent = host.sent
  BY DEF Writes, Untouched
<1> SUFFICES log' \in Logs /\ \A t \in Tracks : Truth(t)'
  BY <1>1 DEF Truths
<1>2. \A t \in Tracks : Truth(t)
  BY DEF Truths
<1>3. CASE log' = log
  BY <1>1, <1>2, <1>3, SameTruth
<1>4. CASE SaysOfSession
  <2>1. PICK s \in Sessions : log' = [log EXCEPT !.session = s]
    BY <1>4 DEF SaysOfSession
  <2>2. /\ log' \in Logs /\ log'.driver = log.driver /\ log'.stops = log.stops
        /\ log'.request = log.request /\ log'.failure = log.failure
        /\ log'.cancelled = log.cancelled
    BY <2>1 DEF Logs
  <2> QED BY <1>1, <1>2, <2>2, SameTruth
<1>5. CASE SaysOfDriver(u)
  <2>1. PICK e \in Events : /\ log' = DriverEvent(u, e)
                            /\ e = "start_intent" => log.driver[u] = "unstarted"
                            /\ e = "cancel_complete" => host.driver[u] = "cancelled"
                            /\ e = "stop_complete" => host.driver[u] \notin Running
    BY <1>5 DEF SaysOfDriver
  <2>2. /\ log' \in Logs /\ log'.request = log.request /\ log'.failure = log.failure
        /\ \A t \in Tracks : t # u => /\ log'.driver[t] = log.driver[t]
                                      /\ log'.stops[t] = log.stops[t]
        /\ log'.driver[u] = DriverRules[e].to
        /\ log'.stops[u] = StopAfter(e, log.stops[u])
        /\ log'.cancelled = IF e = "cancel_complete" THEN log.cancelled \cup {u}
                                                     ELSE log.cancelled
    BY <2>1, EventFields
  <2>3. DriverRules[e].to # "unstarted" /\ (DriverRules[e].to = "start_intent" => e = "start_intent")
    BY Rules
  <2>4. /\ e = "start_intent" => StopAfter(e, log.stops[u]) = log.stops[u]
        /\ StopAfter(e, log.stops[u]) = "complete" =>
             e = "stop_complete" \/ log.stops[u] = "complete"
    BY DEF StopAfter
  <2>5. Truth(u)'
    <3>1. Truth(u)
      BY <1>2
    <3>2. u \in log'.cancelled => u \in log.cancelled \/ e = "cancel_complete"
      BY <2>2
    <3> HIDE DEF Events
    <3> QED BY <1>1, <2>1, <2>2, <2>3, <2>4, <3>1, <3>2 DEF Truth, Reached
  <2>6. ASSUME NEW t \in Tracks, t # u PROVE Truth(t)'
    <3>1. t \in log'.cancelled <=> t \in log.cancelled
      BY <2>2, <2>6
    <3> QED BY <1>1, <1>2, <2>2, <2>6, <3>1, SameTruth
  <2> QED BY <2>2, <2>5, <2>6
<1>6. CASE SaysOfRequest(u)
  <2>1. PICK stage \in RequestStages \ {"not_attempted", "failed"} :
            /\ log' = RequestEvent(u, stage) /\ RequestMay(u, stage)
            /\ stage = "completed" => host.driver[u] \in {"answered", "broken"}
    BY <1>6 DEF SaysOfRequest
  <2>2. /\ log' \in Logs /\ log'.failure = log.failure
        /\ log'.driver = log.driver /\ log'.stops = log.stops
        /\ log'.cancelled = log.cancelled
        /\ log'.request[u] = stage
        /\ \A t \in Tracks : t # u => log'.request[t] = log.request[t]
    BY <2>1 DEF RequestEvent, Logs
  <2>3. /\ log.request[u] # "failed"
        /\ stage = "request_intent" => log.request[u] = "not_attempted"
    BY <2>1 DEF RequestMay, RequestStages
  <2>4. Truth(u)'
    <3>1. Truth(u)
      BY <1>2
    <3> QED BY <1>1, <2>1, <2>2, <2>3, <3>1 DEF Truth, Reached
  <2>5. ASSUME NEW t \in Tracks, t # u PROVE Truth(t)'
    BY <1>1, <1>2, <2>2, <2>5, SameTruth
  <2> QED BY <2>2, <2>4, <2>5
<1>7. CASE SaysItFailed(u)
  <2>1. PICK why \in Provenances \ {"none"} :
            /\ log' = FailedEvent(u, why) /\ log.request[u] \in Pending
            /\ why = "unsent" => ~Reached(u)
            /\ why = "transport" => host.driver[u] = "broken"
    BY <1>7 DEF SaysItFailed
  <2>2. /\ log' \in Logs
        /\ log'.driver = log.driver /\ log'.stops = log.stops
        /\ log'.cancelled = log.cancelled
        /\ log'.request[u] = "failed" /\ log'.failure[u] = why
        /\ \A t \in Tracks : t # u => /\ log'.request[t] = log.request[t]
                                      /\ log'.failure[t] = log.failure[t]
    BY <2>1 DEF FailedEvent, Logs, RequestStages
  <2>4. Truth(u)'
    <3>1. Truth(u)
      BY <1>2
    <3> QED BY <1>1, <2>1, <2>2, <3>1 DEF Truth, Reached
  <2>5. ASSUME NEW t \in Tracks, t # u PROVE Truth(t)'
    BY <1>1, <1>2, <2>2, <2>5, SameTruth
  <2> QED BY <2>2, <2>4, <2>5
<1> QED BY <1>3, <1>4, <1>5, <1>6, <1>7 DEF Writes
----------------------------------------------------------------------------
LEMMA SetFields ==
  ASSUME host \in Hosts, NEW u \in Tracks, NEW d \in Containers
  PROVE  /\ SetDriver(u, d) \in Hosts
         /\ SetDriver(u, d).sent = host.sent /\ SetDriver(u, d).driver[u] = d
         /\ \A t \in Tracks : t # u => SetDriver(u, d).driver[t] = host.driver[t]
         /\ SetDriver(u, d).result = host.result /\ SetDriver(u, d).records = host.records
BY DEF SetDriver, Hosts

LEMMA HaltedKeeps ==
  ASSUME log \in Logs, host \in Hosts, Truths, NEW u \in Tracks, Halted(u)
  PROVE  (log \in Logs /\ host \in Hosts /\ Truths)'
<1>1. /\ host.driver[u] \in Running /\ host' = SetDriver(u, "dead")
      /\ log' \in {log, DriverEvent(u, "stop_complete"), DriverEvent(u, "stop_failed")}
  BY DEF Halted
<1>2. /\ host' \in Hosts /\ host'.sent = host.sent /\ host'.driver[u] = "dead"
      /\ \A t \in Tracks : t # u => host'.driver[t] = host.driver[t]
  BY <1>1, SetFields DEF Containers
<1>3. \A t \in Tracks : Truth(t)
  BY DEF Truths
<1>4. "stop_complete" \in Events /\ "stop_failed" \in Events
  BY DEF Events, DriverRules
<1>5. PICK e \in Events :
       \/ log' = log
       \/ log' = DriverEvent(u, e) /\ e \in {"stop_complete", "stop_failed"}
  BY <1>1, <1>4
<1>6. DriverRules[e].to # "unstarted" /\ (DriverRules[e].to = "start_intent" => e = "start_intent")
  BY Rules
<1>7. /\ log' \in Logs /\ log'.request = log.request /\ log'.failure = log.failure
      /\ log'.cancelled = log.cancelled
      /\ \A t \in Tracks : t # u => /\ log'.driver[t] = log.driver[t]
                                    /\ log'.stops[t] = log.stops[t]
      /\ \/ log'.driver[u] = log.driver[u] /\ log'.stops[u] = log.stops[u]
         \/ log'.driver[u] \notin {"unstarted", "start_intent"}
  <2>1. CASE log' = log
    BY <2>1
  <2>2. CASE log' = DriverEvent(u, e) /\ e \in {"stop_complete", "stop_failed"}
    <3> HIDE DEF Events
    <3> QED BY <2>2, <1>6, EventFields
  <2> QED BY <1>5, <2>1, <2>2
<1>8. Truth(u)'
  <2>1. Truth(u)
    BY <1>3
  <2> QED BY <1>1, <1>2, <1>7, <2>1 DEF Truth, Reached, Running
<1>9. ASSUME NEW t \in Tracks, t # u PROVE Truth(t)'
  BY <1>2, <1>3, <1>7, <1>9, SameTruth
<1> QED BY <1>2, <1>7, <1>8, <1>9 DEF Truths

\* The moves of one container that the journal keeps silent about.
LEMMA SilentKeeps ==
  ASSUME log \in Logs, host \in Hosts, Truths, NEW u \in Tracks,
         Spawned(u) \/ Told(u) \/ Sends(u) \/ Ends(u)
  PROVE  (log \in Logs /\ host \in Hosts /\ Truths)'
<1>1. \A t \in Tracks : Truth(t)
  BY DEF Truths
<1>2. log' = log
  BY DEF Spawned, Told, Sends, Ends
<1> SUFFICES /\ host' \in Hosts
             /\ \A t \in Tracks : t # u => /\ host'.driver[t] = host.driver[t]
                                           /\ host'.sent[t] = host.sent[t]
             /\ Truth(u)'
  BY <1>1, <1>2, SameTruth DEF Truths
<1>3. Truth(u)
  BY <1>1
<1>4. CASE Spawned(u)
  <2>1. /\ host' \in Hosts /\ host'.sent = host.sent /\ host'.driver[u] = "waiting"
        /\ \A t \in Tracks : t # u => host'.driver[t] = host.driver[t]
    BY <1>4, SetFields DEF Spawned, Containers
  <2>2. Truth(u)'
    BY <1>2, <1>3, <1>4, <2>1 DEF Truth, Reached, Spawned, Running
  <2> QED BY <2>1, <2>2
<1>5. CASE Told(u)
  <2>1. /\ host' \in Hosts /\ host'.sent = host.sent /\ host'.driver[u] = "told"
        /\ \A t \in Tracks : t # u => host'.driver[t] = host.driver[t]
    BY <1>5, SetFields DEF Told, Containers
  <2>2. Truth(u)'
    BY <1>2, <1>3, <1>5, <2>1 DEF Truth, Reached, Told, Running
  <2> QED BY <2>1, <2>2
<1>6. CASE Sends(u)
  <2>1. PICK d \in {"answered", "broken", "dead"}, n \in {0, 1} :
               host' = [host EXCEPT !.driver[u] = d, !.sent[u] = @ + n]
    BY <1>6 DEF Sends
  <2>2. host.driver[u] = "told" /\ host.sent[u] = 0
    BY <1>3, <1>6 DEF Truth, Sends, Hosts
  <2>3. host.sent[u] + n = n
    BY <2>2
  <2>4. host' = [host EXCEPT !.driver = [host.driver EXCEPT ![u] = d],
                             !.sent = [host.sent EXCEPT ![u] = n]]
    BY <2>1, <2>3 DEF Hosts
  <2>5. /\ [host.driver EXCEPT ![u] = d] \in [Tracks -> Containers]
        /\ [host.sent EXCEPT ![u] = n] \in [Tracks -> {0, 1}]
    BY DEF Hosts, Containers
  <2>6. /\ host' \in Hosts /\ host'.driver[u] = d /\ host'.sent[u] = n
        /\ \A t \in Tracks : t # u => /\ host'.driver[t] = host.driver[t]
                                      /\ host'.sent[t] = host.sent[t]
    BY <2>4, <2>5 DEF Hosts
  <2>7. Truth(u)'
    BY <1>2, <1>3, <2>2, <2>6 DEF Truth, Reached, Running
  <2> QED BY <2>6, <2>7
<1>7. CASE Ends(u)
  <2>1. PICK d \in {"cancelled", "dead"} : host' = SetDriver(u, d)
    BY <1>7 DEF Ends
  <2>2. /\ host' \in Hosts /\ host'.sent = host.sent /\ host'.driver[u] = d
        /\ \A t \in Tracks : t # u => host'.driver[t] = host.driver[t]
    BY <2>1, SetFields DEF Containers
  <2>3. Truth(u)'
    BY <1>2, <1>3, <1>7, <2>2 DEF Truth, Reached, Ends, Running
  <2> QED BY <2>2, <2>3
<1> QED BY <1>4, <1>5, <1>6, <1>7

LEMMA RebootedKeeps ==
  ASSUME log \in Logs, host \in Hosts, Truths, Rebooted
  PROVE  (log \in Logs /\ host \in Hosts /\ Truths)'
<1>1. log' = log
  BY DEF Rebooted
<1>2. /\ host' \in Hosts /\ host'.sent = host.sent
      /\ \A t \in Tracks : host'.driver[t] =
           (IF host.driver[t] \in Running THEN "dead" ELSE host.driver[t])
  BY DEF Rebooted, Hosts, Containers
<1>3. ASSUME NEW t \in Tracks PROVE Truth(t)'
  <2>1. Truth(t)
    BY DEF Truths
  <2> QED BY <1>1, <1>2, <2>1 DEF Truth, Reached, Running
<1> QED BY <1>1, <1>2, <1>3 DEF Truths

LEMMA MovesKeep ==
  ASSUME log \in Logs, host \in Hosts, Truths,
         (\E u \in Tracks : Moves(u)) \/ Rebooted
  PROVE  (log \in Logs /\ host \in Hosts /\ Truths)'
BY WritesKeep, HaltedKeeps, SilentKeeps, RebootedKeeps DEF Moves
----------------------------------------------------------------------------
(***************************************************************************)
(* The steps that start no driver and have none send.                      *)
(***************************************************************************)
Tended == (\E u \in Tracks : Moves(u)) /\ Calm(proc')

LEMMA Marks ==
  ASSUME NEW p \in Processes, proc.t \in Tracks
  PROVE  /\ Asked(p) \in Processes /\ Asked(p).at = p.at /\ Asked(p).t = p.t
         /\ Asked(p).held = p.held
         /\ Closed(p) \in Processes /\ Closed(p).at = p.at /\ Closed(p).t = p.t
         /\ Closed(p).held = p.held /\ Closed(p).told = p.told /\ Closed(p).bad = p.bad
         /\ Tried(p) \in Processes /\ Tried(p).at = p.at /\ Tried(p).t = p.t
         /\ Tried(p).held = p.held
         /\ Bad(p) \in Processes /\ Bad(p).at = p.at /\ Bad(p).t = p.t
         /\ Bad(p).held = p.held /\ Bad(p).told = p.told /\ Bad(p).bad = TRUE
<1>1. proc.t \in Nat
  BY Indices
<1>2. /\ p.asked \cup {proc.t} \in SUBSET Nat /\ p.closed \cup {proc.t} \in SUBSET Nat
      /\ p.tried \cup {proc.t} \in SUBSET Nat
  BY <1>1 DEF Processes
<1>3. /\ Asked(p) = [p EXCEPT !.asked = p.asked \cup {proc.t}]
      /\ Closed(p) = [p EXCEPT !.closed = p.closed \cup {proc.t}]
      /\ Tried(p) = [p EXCEPT !.tried = p.tried \cup {proc.t}]
      /\ Bad(p) = [p EXCEPT !.bad = TRUE]
  BY DEF Asked, Closed, Tried, Bad, Processes, Here
<1>4. /\ Asked(p) \in Processes /\ Asked(p).at = p.at /\ Asked(p).t = p.t
      /\ Asked(p).held = p.held
  BY <1>2, <1>3 DEF Processes
<1>5. /\ Closed(p) \in Processes /\ Closed(p).at = p.at /\ Closed(p).t = p.t
      /\ Closed(p).held = p.held /\ Closed(p).told = p.told /\ Closed(p).bad = p.bad
  BY <1>2, <1>3 DEF Processes
<1>6. /\ Tried(p) \in Processes /\ Tried(p).at = p.at /\ Tried(p).t = p.t
      /\ Tried(p).held = p.held
  BY <1>2, <1>3 DEF Processes
<1>7. /\ Bad(p) \in Processes /\ Bad(p).at = p.at /\ Bad(p).t = p.t
      /\ Bad(p).held = p.held /\ Bad(p).told = p.told /\ Bad(p).bad = TRUE
  BY <1>2, <1>3 DEF Processes
<1> QED BY <1>4, <1>5, <1>6, <1>7

LEMMA MarksAreCalm ==
  ASSUME NEW p, Calm(p), proc.t \in Tracks
  PROVE  Calm(Asked(p)) /\ Calm(Closed(p)) /\ Calm(Tried(p)) /\ Calm(Bad(p))
<1>1. p \in Processes
  BY DEF Calm
<1> QED BY <1>1, Marks DEF Calm

LEMMA OnwardIsCalm ==
  ASSUME NEW p \in Processes, NEW S, S \subseteq Tracks, proc.t \in Int,
         NEW place \in Tending \cup Elsewhere, NEW after, Calm(after)
  PROVE  Calm(Onward(p, S, place, after))
<1>1. proc.t + 1 \in Int
  OBVIOUS
<1> QED BY <1>1, LoopIsCalm DEF Onward, Here

\* Nothing is said and nothing done.
LEMMA Nothing ==
  ASSUME host \in Hosts, UNCHANGED <<log, host>>
  PROVE  \E u \in Tracks : Moves(u)
BY Indices DEF Moves, Writes, Untouched

LEMMA DriverAppends ==
  ASSUME host \in Hosts, host' = host, proc.t \in Tracks, NEW e \in Events,
         NEW next, NEW raised, AppendDriver(e, next, raised),
         e = "cancel_complete" => host.driver[proc.t] = "cancelled",
         e = "stop_complete" => host.driver[proc.t] \notin Running
  PROVE  (\E u \in Tracks : Moves(u)) /\ proc' \in {next, raised, Off}
<1>1. proc' \in {next, raised, Off}
  BY DEF AppendDriver, Append
<1>2. log' = log \/ (log' = DriverEvent(proc.t, e) /\ DriverMay(proc.t, e))
  BY DEF AppendDriver, Append, Here
<1>3. e = "start_intent" /\ DriverMay(proc.t, e) => log.driver[proc.t] = "unstarted"
  BY StartRule
<1>4. Moves(proc.t)
  <2> HIDE DEF Events
  <2> QED BY <1>2, <1>3 DEF Moves, Writes, Untouched, SaysOfDriver
<1> QED BY <1>1, <1>4

LEMMA DriverSays ==
  ASSUME host \in Hosts, host' = host, proc.t \in Tracks, NEW e \in Events,
         e \notin {"start_intent", "stop_complete"}, log' = DriverEvent(proc.t, e),
         e = "cancel_complete" => host.driver[proc.t] = "cancelled"
  PROVE  \E u \in Tracks : Moves(u)
<1> HIDE DEF Events
<1>1. Moves(proc.t)
  BY DEF Moves, Writes, Untouched, SaysOfDriver
<1> QED BY <1>1

LEMMA SessionAppends ==
  ASSUME host \in Hosts, host' = host, NEW s \in Sessions, NEW may, NEW next, NEW raised,
         Append([log EXCEPT !.session = s], may, next, raised)
  PROVE  (\E u \in Tracks : Moves(u)) /\ proc' \in {next, raised, Off}
<1>1. proc' \in {next, raised, Off}
  BY DEF Append
<1>2. log' = log \/ log' = [log EXCEPT !.session = s]
  BY DEF Append
<1>3. 1 \in Tracks /\ Moves(1)
  BY <1>2, Indices DEF Moves, Writes, Untouched, SaysOfSession
<1> QED BY <1>1, <1>3

LEMMA EventNames ==
  /\ "start_intent" \in Events /\ "start_complete" \in Events
  /\ "readiness_complete" \in Events /\ "cancel_intent" \in Events
  /\ "cancel_complete" \in Events /\ "stop_intent" \in Events
  /\ "stop_complete" \in Events /\ "stop_failed" \in Events
  /\ "cleanup_intent" \in Events /\ "cleaned" \in Events /\ "cleanup_failed" \in Events
BY DEF Events, DriverRules

\* Where a process tends to a driver, it is one of the tracks.
LEMMA AtDriver ==
  ASSUME Sound, proc.at \in Tending
  PROVE  Calm(proc) /\ proc.t \in Tracks /\ proc.t \in Int
<1>1. proc.t \in Tracks /\ proc \in Processes
  BY DEF Sound, STypeOK
<1>2. proc.t \in Int
  BY <1>1 DEF Processes
<1>3. Calm(proc)
  BY <1>1 DEF Calm
<1> QED BY <1>1, <1>2, <1>3

LEMMA CancelTends ==
  ASSUME Sound, Cancel
  PROVE  Tended
<1>1. /\ At("cancel") /\ host' = host /\ host \in Hosts /\ proc \in Processes
      /\ proc.at = "cancel"
  BY DEF Cancel, Sound, STypeOK, At
<1>2. "cancel" \in Tending /\ "cancel_exit" \in Tending
  BY DEF Tending
<1>3. proc.t \in Tracks /\ proc.t \in Int /\ Calm(proc)
  BY <1>1, <1>2, AtDriver
<1> DEFINE next(p) == Onward(p, Tracks, "cancel", Loop(p, Tracks, 1, "cancel_exit", p))
<1>5. ASSUME NEW p, Calm(p) PROVE Calm(next(p))
  <2>1. p \in Processes
    BY <1>5 DEF Calm
  <2>2. Calm(Loop(p, Tracks, 1, "cancel_exit", p))
    BY <1>2, <1>5, <2>1, LoopIsCalm
  <2> QED BY <1>2, <1>3, <2>1, <2>2, OnwardIsCalm
<1> HIDE DEF next
<1>6. /\ Calm(next(Closed(Asked(proc)))) /\ Calm(next(Bad(Asked(proc))))
      /\ Calm(ReadinessFails(proc))
  BY <1>1, <1>3, <1>5, MarksAreCalm, ReadinessFailsCalmly
<1>7. CASE AppendDriver("cancel_intent", next(Closed(Asked(proc))), ReadinessFails(proc))
  <2>1. /\ \E u \in Tracks : Moves(u)
        /\ proc' \in {next(Closed(Asked(proc))), ReadinessFails(proc), Off}
    BY <1>1, <1>3, <1>7, EventNames, DriverAppends
  <2> QED BY <1>6, <2>1, OffIsCalm DEF Tended
<1>8. CASE /\ log' = DriverEvent(Here, "cancel_intent")
           /\ proc' = next(Bad(Asked(proc)))
  <2>1. \E u \in Tracks : Moves(u)
    BY <1>1, <1>3, <1>8, EventNames, DriverSays DEF Here
  <2> QED BY <1>6, <1>8, <2>1 DEF Tended
<1> QED BY <1>7, <1>8 DEF Cancel, next
LEMMA CancelExitTends ==
  ASSUME Sound, CancelExit
  PROVE  Tended
<1>1. host' = host /\ host \in Hosts /\ proc \in Processes /\ proc.at = "cancel_exit"
  BY DEF CancelExit, Sound, STypeOK, At
<1>2. "cancel_exit" \in Tending /\ "diagnostic" \in Elsewhere
  BY DEF Tending, Elsewhere
<1>3. proc.t \in Tracks /\ proc.t \in Int /\ Calm(proc)
  BY <1>1, <1>2, AtDriver
<1> DEFINE next(p) == Onward(p, Tracks, "cancel_exit",
                        IF p.bad THEN ReadinessFails(p) ELSE To(p, "diagnostic"))
<1>4. ASSUME NEW p, Calm(p) PROVE Calm(next(p))
  <2>1. p \in Processes
    BY <1>4 DEF Calm
  <2>2. Calm(ReadinessFails(p))
    BY <2>1, ReadinessFailsCalmly
  <2>3. Calm(To(p, "diagnostic"))
    BY <1>2, <2>1, CalmPlaces, PlacedIsCalm
  <2> DEFINE after == IF p.bad THEN ReadinessFails(p) ELSE To(p, "diagnostic")
  <2>4. Calm(after)
    BY <2>2, <2>3
  <2> HIDE DEF after
  <2>5. Calm(Onward(p, Tracks, "cancel_exit", after))
    BY <1>2, <1>3, <2>1, <2>4, OnwardIsCalm
  <2> QED BY <2>5 DEF after
<1> HIDE DEF next
<1>5. /\ Calm(next(Tried(proc))) /\ Calm(next(Bad(Tried(proc))))
      /\ Calm(ReadinessFails(Tried(proc)))
  <2>1. Calm(Tried(proc)) /\ Calm(Bad(Tried(proc))) /\ Tried(proc) \in Processes
    BY <1>1, <1>3, Marks, MarksAreCalm
  <2> QED BY <1>4, <2>1, ReadinessFailsCalmly
<1>6. CASE /\ CancelAttested
           /\ AppendDriver("cancel_complete", next(Tried(proc)), ReadinessFails(Tried(proc)))
  <2>1. host.driver[proc.t] = "cancelled"
    BY <1>6 DEF CancelAttested, Here
  <2>2. /\ \E u \in Tracks : Moves(u)
        /\ proc' \in {next(Tried(proc)), ReadinessFails(Tried(proc)), Off}
    BY <1>1, <1>3, <1>6, <2>1, EventNames, DriverAppends
  <2> QED BY <1>5, <2>2, OffIsCalm DEF Tended
<1>7. CASE proc' = next(Bad(Tried(proc))) /\ UNCHANGED log
  BY <1>1, <1>5, <1>7, Nothing DEF Tended
<1> QED BY <1>6, <1>7 DEF CancelExit, next

LEMMA SessionEnds ==
  ASSUME Sound, DiagnosticComplete \/ FailRecord
  PROVE  Tended
<1>1. host' = host /\ host \in Hosts /\ proc \in Processes
  BY DEF DiagnosticComplete, FailRecord, Sound, STypeOK
<1>2. "diagnostic" \in Sessions /\ "poisoned" \in Sessions
  BY DEF Sessions
<1>3. CASE DiagnosticComplete
  <2>1. Append([log EXCEPT !.session = "diagnostic"],
            log.session = "ready" /\ AllDrivers("cancelled"), Off, ReadinessFails(proc))
    BY <1>3 DEF DiagnosticComplete
  <2>2. (\E u \in Tracks : Moves(u)) /\ proc' \in {Off, ReadinessFails(proc), Off}
    BY <1>1, <1>2, <2>1, SessionAppends
  <2> QED BY <1>1, <2>2, OffIsCalm, ReadinessFailsCalmly DEF Tended
<1>4. CASE FailRecord
  <2>1. Append([log EXCEPT !.session = "poisoned"], log.session # "none", Off, Off)
    BY <1>4 DEF FailRecord
  <2>2. (\E u \in Tracks : Moves(u)) /\ proc' \in {Off, Off, Off}
    BY <1>1, <1>2, <2>1, SessionAppends
  <2> QED BY <2>2, OffIsCalm DEF Tended
<1> QED BY <1>3, <1>4

\* The loops of the failure path, from a process that is anywhere in it.
LEMMA FailPath ==
  ASSUME proc.t \in Tracks, proc.t \in Int
  PROVE  /\ \A p : Calm(p) => Calm(Loop(p, p.held, 1, "fail_stop", To(p, "fail_record")))
         /\ \A p : Calm(p) => Calm(FailNext(p))
<1>1. "fail_record" \in Elsewhere /\ "fail_stop" \in Tending
  BY DEF Elsewhere, Tending
<1> SUFFICES ASSUME NEW p, Calm(p)
             PROVE  /\ Calm(Loop(p, p.held, 1, "fail_stop", To(p, "fail_record")))
                    /\ Calm(FailNext(p))
  OBVIOUS
<1>2. p \in Processes /\ p.held \subseteq Tracks
  BY DEF Calm, Processes
<1>3. Calm(To(p, "fail_record"))
  BY <1>1, <1>2, CalmPlaces, PlacedIsCalm
<1>4. Calm(Loop(p, p.held, 1, "fail_stop", To(p, "fail_record")))
  BY <1>1, <1>2, <1>3, LoopIsCalm
<1>5. Calm(Onward(p, p.held, "fail_stop", To(p, "fail_record")))
  BY <1>1, <1>2, <1>3, OnwardIsCalm
<1> QED BY <1>4, <1>5 DEF FailNext

LEMMA FailCancelTends ==
  ASSUME Sound, FailCancel
  PROVE  Tended
<1>1. host' = host /\ host \in Hosts /\ proc \in Processes /\ proc.at = "fail_cancel"
  BY DEF FailCancel, Sound, STypeOK, At
<1>2. "fail_cancel" \in Tending /\ "fail_exit" \in Tending
  BY DEF Tending
<1>3. proc.t \in Tracks /\ proc.t \in Int /\ Calm(proc)
  BY <1>1, <1>2, AtDriver
<1> DEFINE rest(p) == Loop(p, p.held, 1, "fail_stop", To(p, "fail_record"))
<1> DEFINE exits(p) == Loop(p, p.held \ p.tried, 1, "fail_exit", rest(p))
<1> DEFINE next(p) == Onward(p, p.held \ p.asked, "fail_cancel", exits(p))
<1>4. ASSUME NEW p, Calm(p) PROVE Calm(next(p))
  <2>1. p \in Processes /\ p.held \ p.tried \subseteq Tracks /\ p.held \ p.asked \subseteq Tracks
    BY <1>4 DEF Calm, Processes
  <2>2. Calm(rest(p))
    BY <1>3, <1>4, FailPath
  <2> HIDE DEF rest
  <2>3. Calm(exits(p))
    BY <1>2, <2>1, <2>2, LoopIsCalm
  <2> HIDE DEF exits
  <2> QED BY <1>2, <1>3, <2>1, <2>3, OnwardIsCalm
<1> HIDE DEF next
<1>5. Calm(next(Closed(Asked(proc)))) /\ Calm(next(Closed(proc))) /\ Calm(next(Asked(proc)))
  BY <1>3, <1>4, MarksAreCalm
<1>6. CASE AppendDriver("cancel_intent", next(Closed(Asked(proc))), next(Closed(proc)))
  <2>1. /\ \E u \in Tracks : Moves(u)
        /\ proc' \in {next(Closed(Asked(proc))), next(Closed(proc)), Off}
    BY <1>1, <1>3, <1>6, EventNames, DriverAppends
  <2> QED BY <1>5, <2>1, OffIsCalm DEF Tended
<1>7. CASE log' = DriverEvent(Here, "cancel_intent") /\ proc' = next(Asked(proc))
  <2>1. \E u \in Tracks : Moves(u)
    BY <1>1, <1>3, <1>7, EventNames, DriverSays DEF Here
  <2> QED BY <1>5, <1>7, <2>1 DEF Tended
<1> QED BY <1>6, <1>7 DEF FailCancel, next

LEMMA FailExitTends ==
  ASSUME Sound, FailExit
  PROVE  Tended
<1>1. host' = host /\ host \in Hosts /\ proc \in Processes /\ proc.at = "fail_exit"
  BY DEF FailExit, Sound, STypeOK, At
<1>2. "fail_exit" \in Tending /\ "fail_stop" \in Tending /\ "fail_record" \in Elsewhere
  BY DEF Tending, Elsewhere
<1>3. proc.t \in Tracks /\ proc.t \in Int /\ Calm(proc)
  BY <1>1, <1>2, AtDriver
<1> DEFINE rest == Loop(Tried(proc), proc.held, 1, "fail_stop", To(proc, "fail_record"))
<1> DEFINE next == Onward(Tried(proc), proc.held \ proc.tried, "fail_exit", rest)
<1>4. Calm(next)
  <2>1. /\ Tried(proc) \in Processes
        /\ proc.held \subseteq Tracks /\ proc.held \ proc.tried \subseteq Tracks
    BY <1>1, <1>3, Marks DEF Processes
  <2>2. Calm(To(proc, "fail_record"))
    BY <1>1, <1>2, CalmPlaces, PlacedIsCalm
  <2>3. Calm(rest)
    BY <1>2, <2>1, <2>2, LoopIsCalm
  <2> HIDE DEF rest
  <2> QED BY <1>2, <1>3, <2>1, <2>3, OnwardIsCalm
<1> HIDE DEF next
<1>6. CASE CancelAttested /\ AppendDriver("cancel_complete", next, next)
  <2>1. host.driver[proc.t] = "cancelled"
    BY <1>6 DEF CancelAttested, Here
  <2>2. (\E u \in Tracks : Moves(u)) /\ proc' \in {next, next, Off}
    BY <1>1, <1>3, <1>6, <2>1, EventNames, DriverAppends
  <2> QED BY <1>4, <2>2, OffIsCalm DEF Tended
<1>7. CASE proc' = next /\ UNCHANGED log
  BY <1>1, <1>4, <1>7, Nothing DEF Tended
<1> QED BY <1>6, <1>7 DEF FailExit, next
\* A container that runs is stopped, and what is said of it.
LEMMA StopAppends ==
  ASSUME host \in Hosts, proc.t \in Tracks, NEW next, NEW raised,
         host' = (IF host.driver[proc.t] \in Running THEN SetDriver(proc.t, "dead") ELSE host),
         AppendDriver("stop_complete", next, raised)
  PROVE  (\E u \in Tracks : Moves(u)) /\ proc' \in {next, raised, Off}
<1>1. proc' \in {next, raised, Off}
  BY DEF AppendDriver, Append
<1>2. log' = log \/ log' = DriverEvent(proc.t, "stop_complete")
  BY DEF AppendDriver, Append, Here
<1>3. CASE host.driver[proc.t] \in Running
  <2>1. Halted(proc.t)
    BY <1>2, <1>3 DEF Halted
  <2> QED BY <1>1, <2>1 DEF Moves
<1>4. CASE host.driver[proc.t] \notin Running
  <2>1. "stop_complete" \in Events
    BY EventNames
  <2>2. host' = host
    BY <1>4
  <2> HIDE DEF Events
  <2>3. Moves(proc.t)
    BY <1>2, <1>4, <2>1, <2>2 DEF Moves, Writes, Untouched, SaysOfDriver
  <2> QED BY <1>1, <2>3
<1> QED BY <1>3, <1>4

LEMMA StopFails ==
  ASSUME host \in Hosts, proc.t \in Tracks,
         host' \in {host, IF host.driver[proc.t] \in Running THEN SetDriver(proc.t, "dead")
                                                            ELSE host},
         log' \in {log, DriverEvent(proc.t, "stop_failed")}
  PROVE  \E u \in Tracks : Moves(u)
<1>1. CASE host' = host
  <2>1. "stop_failed" \in Events
    BY EventNames
  <2> HIDE DEF Events
  <2>2. Moves(proc.t)
    BY <1>1, <2>1 DEF Moves, Writes, Untouched, SaysOfDriver
  <2> QED BY <2>2
<1>2. CASE host' # host
  <2>1. Halted(proc.t)
    BY <1>2 DEF Halted
  <2> QED BY <2>1 DEF Moves
<1> QED BY <1>1, <1>2

LEMMA SetPlace ==
  ASSUME NEW p \in Processes, NEW place \in Tending, NEW bad \in BOOLEAN, p.t \in Tracks
  PROVE  Calm([p EXCEPT !.at = place, !.bad = bad])
<1>1. place \in Places
  BY DEF Places, AtSession
<1> DEFINE q == [p EXCEPT !.at = place, !.bad = bad]
<1>2. q \in Processes /\ q.at = place /\ q.t = p.t
  BY <1>1 DEF Processes
<1> HIDE DEF q
<1>3. Calm(q)
  BY <1>2 DEF Calm
<1> QED BY <1>3 DEF q

LEMMA FailStopTends ==
  ASSUME Sound, FailStop \/ FailStopped
  PROVE  Tended
<1>1. host \in Hosts /\ proc \in Processes /\ proc.at \in {"fail_stop", "fail_stopped"}
  BY DEF FailStop, FailStopped, Sound, STypeOK, At
<1>2. /\ "fail_stop" \in Tending /\ "fail_stopped" \in Tending /\ "fail_cleanup" \in Tending
  BY DEF Tending
<1>3. proc.t \in Tracks /\ proc.t \in Int /\ Calm(proc)
  BY <1>1, <1>2, AtDriver
<1> DEFINE cleanup(bad) == [proc EXCEPT !.at = "fail_cleanup", !.bad = bad]
<1>4. Calm(cleanup(TRUE)) /\ Calm(cleanup(FALSE))
  BY <1>1, <1>2, <1>3, SetPlace
<1>5. Calm(To(proc, "fail_stopped"))
  BY <1>1, <1>2, <1>3, PlacedIsCalm
<1> HIDE DEF cleanup
<1>6. CASE FailStop
  <2>1. host' = host
    BY <1>6 DEF FailStop
  <2>2. CASE AppendDriver("stop_intent", To(proc, "fail_stopped"), cleanup(TRUE))
    <3>1. /\ \E u \in Tracks : Moves(u)
          /\ proc' \in {To(proc, "fail_stopped"), cleanup(TRUE), Off}
      BY <1>1, <1>3, <2>1, <2>2, EventNames, DriverAppends
    <3> QED BY <1>4, <1>5, <3>1, OffIsCalm DEF Tended
  <2>3. CASE proc' \in {cleanup(TRUE), cleanup(FALSE)} /\ UNCHANGED log
    BY <1>1, <1>4, <2>1, <2>3, Nothing DEF Tended
  <2> QED BY <1>6, <2>2, <2>3 DEF FailStop, cleanup
<1>7. CASE FailStopped
  <2> DEFINE stopped == IF host.driver[proc.t] \in Running THEN SetDriver(proc.t, "dead") ELSE host
  <2>1. CASE host' = stopped /\ AppendDriver("stop_complete", cleanup(FALSE), cleanup(TRUE))
    <3>1. (\E u \in Tracks : Moves(u)) /\ proc' \in {cleanup(FALSE), cleanup(TRUE), Off}
      BY <1>1, <1>3, <2>1, StopAppends
    <3> QED BY <1>4, <3>1, OffIsCalm DEF Tended
  <2>2. CASE /\ host' \in {host, stopped} /\ log' = DriverEvent(proc.t, "stop_failed")
             /\ proc' = cleanup(TRUE)
    <3>1. \E u \in Tracks : Moves(u)
      BY <1>1, <1>3, <2>2, StopFails
    <3> QED BY <1>4, <2>2, <3>1 DEF Tended
  <2> QED BY <1>7, <2>1, <2>2 DEF FailStopped, cleanup, Here
<1> QED BY <1>6, <1>7

LEMMA FailCleanTends ==
  ASSUME Sound, FailCleanup \/ FailCleaned
  PROVE  Tended
<1>1. /\ host' = host /\ host \in Hosts /\ proc \in Processes
      /\ proc.at \in {"fail_cleanup", "fail_cleaned"}
  BY DEF FailCleanup, FailCleaned, Sound, STypeOK, At
<1>2. "fail_cleanup" \in Tending /\ "fail_cleaned" \in Tending
  BY DEF Tending
<1>3. proc.t \in Tracks /\ proc.t \in Int /\ Calm(proc)
  BY <1>1, <1>2, AtDriver
<1>4. /\ Calm(To(Closed(proc), "fail_cleaned")) /\ Calm(FailNext(Closed(proc)))
      /\ Calm(FailNext(proc))
  <2>1. Closed(proc) \in Processes /\ Closed(proc).t \in Tracks /\ Calm(Closed(proc))
    BY <1>1, <1>3, Marks, MarksAreCalm
  <2>2. Calm(To(Closed(proc), "fail_cleaned"))
    BY <1>2, <2>1, PlacedIsCalm
  <2> QED BY <1>3, <2>1, <2>2, FailPath
<1>5. CASE FailCleanup
  <2>1. AppendDriver("cleanup_intent", To(Closed(proc), "fail_cleaned"), FailNext(Closed(proc)))
    BY <1>5 DEF FailCleanup
  <2>2. /\ \E u \in Tracks : Moves(u)
        /\ proc' \in {To(Closed(proc), "fail_cleaned"), FailNext(Closed(proc)), Off}
    BY <1>1, <1>3, <2>1, EventNames, DriverAppends
  <2> QED BY <1>4, <2>2, OffIsCalm DEF Tended
<1>6. CASE FailCleaned
  <2> DEFINE e == IF proc.bad THEN "cleanup_failed" ELSE "cleaned"
  <2>1. e \in Events /\ e \notin {"cancel_complete", "stop_complete"}
    BY EventNames
  <2> HIDE DEF e
  <2>2. CASE AppendDriver(e, FailNext(proc), FailNext(proc))
    <3>1. (\E u \in Tracks : Moves(u)) /\ proc' \in {FailNext(proc), FailNext(proc), Off}
      BY <1>1, <1>3, <2>1, <2>2, DriverAppends
    <3> QED BY <1>4, <3>1, OffIsCalm DEF Tended
  <2>3. CASE log' = DriverEvent(Here, "cleanup_failed") /\ proc' = FailNext(proc)
    <3>1. \E u \in Tracks : Moves(u)
      BY <1>1, <1>3, <2>3, EventNames, DriverSays DEF Here
    <3> QED BY <1>4, <2>3, <3>1 DEF Tended
  <2> QED BY <1>6, <2>2, <2>3 DEF FailCleaned, e
<1> QED BY <1>5, <1>6

LEMMA RunCancelTends ==
  ASSUME Sound, RunCancel
  PROVE  Tended
<1>1. host' = host /\ host \in Hosts /\ proc \in Processes /\ proc.at = "run_cancel"
  BY DEF RunCancel, Sound, STypeOK, At
<1>2. "run_cancel" \in Tending /\ "run_exit" \in Tending
  BY DEF Tending
<1>3. proc.t \in Tracks /\ proc.t \in Int /\ Calm(proc)
  BY <1>1, <1>2, AtDriver
<1> DEFINE next(p) == Onward(p, p.held, "run_cancel", Loop(p, p.held, 1, "run_exit", Off))
<1>4. ASSUME NEW p, Calm(p) PROVE Calm(next(p))
  <2>1. p \in Processes /\ p.held \subseteq Tracks
    BY <1>4 DEF Calm, Processes
  <2>2. Calm(Loop(p, p.held, 1, "run_exit", Off))
    BY <1>2, <2>1, OffIsCalm, LoopIsCalm
  <2> QED BY <1>2, <1>3, <2>1, <2>2, OnwardIsCalm
<1> HIDE DEF next
<1>5. Calm(next(Closed(Asked(proc)))) /\ Calm(next(Closed(proc))) /\ Calm(next(proc))
  BY <1>3, <1>4, MarksAreCalm
<1>6. CASE AppendDriver("cancel_intent", next(Closed(Asked(proc))), next(Closed(proc)))
  <2>1. /\ \E u \in Tracks : Moves(u)
        /\ proc' \in {next(Closed(Asked(proc))), next(Closed(proc)), Off}
    BY <1>1, <1>3, <1>6, EventNames, DriverAppends
  <2> QED BY <1>5, <2>1, OffIsCalm DEF Tended
<1>7. CASE log' = DriverEvent(Here, "cancel_intent") /\ proc' = next(proc)
  <2>1. \E u \in Tracks : Moves(u)
    BY <1>1, <1>3, <1>7, EventNames, DriverSays DEF Here
  <2> QED BY <1>5, <1>7, <2>1 DEF Tended
<1> QED BY <1>6, <1>7 DEF RunCancel, next

LEMMA RunPath ==
  ASSUME NEW p \in Processes, proc.t \in Int
  PROVE  Calm(RunNext(p))
<1> DEFINE q == [p EXCEPT !.bad = FALSE]
<1>1. q \in Processes /\ p.held \subseteq Tracks /\ "run_exit" \in Tending
  BY DEF Processes, Tending
<1> HIDE DEF q
<1>2. Calm(Onward(q, p.held, "run_exit", Off))
  BY <1>1, OffIsCalm, OnwardIsCalm
<1> QED BY <1>2 DEF RunNext, q

LEMMA RunExitTends ==
  ASSUME Sound, RunExit
  PROVE  Tended
<1>1. host' = host /\ host \in Hosts /\ proc \in Processes /\ proc.at = "run_exit"
  BY DEF RunExit, Sound, STypeOK, At
<1>2. "run_exit" \in Tending /\ "run_recover" \in Tending
  BY DEF Tending
<1>3. proc.t \in Tracks /\ proc.t \in Int /\ Calm(proc)
  BY <1>1, <1>2, AtDriver
<1>4. Calm(RunNext(proc)) /\ Calm(Recover(TRUE)) /\ Calm(Recover(FALSE))
  BY <1>1, <1>2, <1>3, RunPath, SetPlace DEF Recover
<1>5. CASE proc' = Recover(FALSE) /\ UNCHANGED log
  BY <1>1, <1>4, <1>5, Nothing DEF Tended
<1>6. CASE CancelAttested /\ AppendDriver("cancel_complete", RunNext(proc), Recover(FALSE))
  <2>1. host.driver[proc.t] = "cancelled"
    BY <1>6 DEF CancelAttested, Here
  <2>2. (\E u \in Tracks : Moves(u)) /\ proc' \in {RunNext(proc), Recover(FALSE), Off}
    BY <1>1, <1>3, <1>6, <2>1, EventNames, DriverAppends
  <2> QED BY <1>4, <2>2, OffIsCalm DEF Tended
<1>7. CASE /\ CancelAttested /\ log' = DriverEvent(Here, "cancel_complete")
           /\ proc' = Recover(TRUE)
  <2>1. host.driver[proc.t] = "cancelled"
    BY <1>7 DEF CancelAttested, Here
  <2>2. \E u \in Tracks : Moves(u)
    BY <1>1, <1>3, <1>7, <2>1, EventNames, DriverSays DEF Here
  <2> QED BY <1>4, <1>7, <2>2 DEF Tended
<1> QED BY <1>5, <1>6, <1>7 DEF RunExit

LEMMA RunCleanTends ==
  ASSUME Sound, RunRecover \/ RunAgain \/ RunCleaned \/ RunFallback
  PROVE  Tended
<1>1. /\ host' = host /\ host \in Hosts /\ proc \in Processes
      /\ proc.at \in {"run_recover", "run_again", "run_cleaned", "run_fallback"}
  BY DEF RunRecover, RunAgain, RunCleaned, RunFallback, Sound, STypeOK, At
<1>2. /\ "run_recover" \in Tending /\ "run_again" \in Tending
      /\ "run_cleaned" \in Tending /\ "run_fallback" \in Tending
  BY DEF Tending
<1>3. proc.t \in Tracks /\ proc.t \in Int /\ Calm(proc)
  BY <1>1, <1>2, AtDriver
<1>4. /\ Calm(To(Closed(proc), "run_cleaned")) /\ Calm(To(Closed(proc), "run_again"))
      /\ Calm(To(proc, "run_cleaned")) /\ Calm(To(proc, "run_fallback"))
      /\ Calm(RunNext(proc))
  <2>1. Closed(proc) \in Processes /\ Closed(proc).t \in Tracks
    BY <1>1, <1>3, Marks
  <2>2. proc.t \in Tracks
    BY <1>3
  <2> QED BY <1>1, <1>2, <1>3, <2>1, PlacedIsCalm, RunPath
<1>5. CASE RunRecover
  <2>1. AppendDriver("cleanup_intent", To(Closed(proc), "run_cleaned"),
                  To(Closed(proc), "run_again"))
    BY <1>5 DEF RunRecover
  <2>2. /\ \E u \in Tracks : Moves(u)
        /\ proc' \in {To(Closed(proc), "run_cleaned"), To(Closed(proc), "run_again"), Off}
    BY <1>1, <1>3, <2>1, EventNames, DriverAppends
  <2> QED BY <1>4, <2>2, OffIsCalm DEF Tended
<1>6. CASE RunAgain
  <2>1. AppendDriver("cleanup_intent", To(proc, "run_cleaned"), RunNext(proc))
    BY <1>6 DEF RunAgain
  <2>2. (\E u \in Tracks : Moves(u)) /\ proc' \in {To(proc, "run_cleaned"), RunNext(proc), Off}
    BY <1>1, <1>3, <2>1, EventNames, DriverAppends
  <2> QED BY <1>4, <2>2, OffIsCalm DEF Tended
<1>7. CASE RunCleaned
  <2> DEFINE e == IF proc.bad THEN "cleanup_failed" ELSE "cleaned"
  <2>1. e \in Events /\ e \notin {"cancel_complete", "stop_complete"}
    BY EventNames
  <2> HIDE DEF e
  <2>2. CASE AppendDriver(e, RunNext(proc), To(proc, "run_fallback"))
    <3>1. /\ \E u \in Tracks : Moves(u)
          /\ proc' \in {RunNext(proc), To(proc, "run_fallback"), Off}
      BY <1>1, <1>3, <2>1, <2>2, DriverAppends
    <3> QED BY <1>4, <3>1, OffIsCalm DEF Tended
  <2>3. CASE log' = DriverEvent(Here, "cleanup_failed") /\ proc' = RunNext(proc)
    <3>1. \E u \in Tracks : Moves(u)
      BY <1>1, <1>3, <2>3, EventNames, DriverSays DEF Here
    <3> QED BY <1>4, <2>3, <3>1 DEF Tended
  <2> QED BY <1>7, <2>2, <2>3 DEF RunCleaned, e
<1>8. CASE RunFallback
  <2>1. AppendDriver("cleanup_failed", RunNext(proc), RunNext(proc))
    BY <1>8 DEF RunFallback
  <2>2. (\E u \in Tracks : Moves(u)) /\ proc' \in {RunNext(proc), RunNext(proc), Off}
    BY <1>1, <1>3, <2>1, EventNames, DriverAppends
  <2> QED BY <1>4, <2>2, OffIsCalm DEF Tended
<1> QED BY <1>5, <1>6, <1>7, <1>8
----------------------------------------------------------------------------
(***************************************************************************)
(* The steps that start drivers and have them send, and what they rely on. *)
(***************************************************************************)
OnCourse ==
  /\ proc \in Processes /\ Course
  /\ proc.at \in Venturing \cup Tending \cup Closing => proc.t \in Tracks

Landed == OnCourse' /\ proc'.at \in AtSession

LEMMA SoundParts == Sound <=> log \in Logs /\ host \in Hosts /\ Truths /\ OnCourse
BY DEF Sound, STypeOK, OnCourse

LEMMA CalmIsOnCourse ==
  ASSUME Calm(proc')
  PROVE  Landed
<1>1. /\ proc' \in Processes /\ proc'.at \in Tending \cup Elsewhere
      /\ proc'.at \in Tending => proc'.t \in Tracks
  BY DEF Calm
<1>2. proc'.at \notin Venturing /\ proc'.at \notin Closing /\ proc'.at \in AtSession
  BY <1>1, CalmPlaces DEF AtSession
<1>3. proc'.at \notin Opening /\ proc'.at \notin Asking /\ proc'.at # "run_close"
  BY <1>2 DEF Venturing
<1>4. Holding \subseteq Asking /\ "spawn" \in Opening /\ "claim" \in Asking
      /\ "instruct" \in Asking /\ "deliver" \in Asking
  BY DEF Holding, Opening, Asking
<1>5. proc'.at \in Venturing \cup Tending \cup Closing => proc'.t \in Tracks
  BY <1>1, <1>2
<1> QED BY <1>1, <1>2, <1>3, <1>4, <1>5 DEF Landed, OnCourse, Course

\* What has to be so where the process arrives.
LEMMA OpeningIsOnCourse ==
  ASSUME proc' \in Processes, proc'.at \in Opening, proc'.t \in Tracks, ~proc'.told,
         proc'.at # "read_ready" => ~proc'.bad,
         \A t \in Tracks : log'.request[t] = "not_attempted",
         proc'.at = "spawn" => /\ log'.driver[proc'.t] = "start_intent"
                               /\ host'.driver[proc'.t] = "created"
  PROVE  Landed
<1>1. Holding \subseteq Asking /\ Opening \cap Asking = {}
      /\ "claim" \in Asking /\ "instruct" \in Asking /\ "deliver" \in Asking
      /\ "run_close" \notin Opening /\ Opening \subseteq AtSession
  BY DEF Holding, Opening, Asking, AtSession, Venturing
<1> QED BY <1>1 DEF Landed, OnCourse, Course

LEMMA AskingIsOnCourse ==
  ASSUME proc' \in Processes, proc'.at \in Asking, proc'.t \in Tracks, ~proc'.bad,
         proc'.told <=> proc'.at \notin {"claim", "instruct"},
         \A u \in Tracks : u < proc'.t => log'.request[u] = "completed",
         \A u \in Tracks : u > proc'.t => log'.request[u] = "not_attempted",
         proc'.at = "claim" => log'.request[proc'.t] = "not_attempted",
         proc'.at = "instruct" => log'.request[proc'.t] = "request_intent",
         proc'.at = "deliver" => log'.request[proc'.t] = "instruction_intent",
         proc'.at \in Holding => host'.driver[proc'.t] \in {"answered", "broken"}
  PROVE  Landed
<1>1. /\ Opening \cap Asking = {} /\ "spawn" \in Opening /\ "run_close" \notin Asking
      /\ Asking \subseteq AtSession
  BY DEF Opening, Asking, AtSession, Venturing
<1> QED BY <1>1 DEF Landed, OnCourse, Course

LEMMA ClosingIsOnCourse ==
  ASSUME proc' \in Processes, proc'.at = "run_close", proc'.t \in Tracks,
         proc'.bad => host'.driver[proc'.t] = "broken",
         ~proc'.told /\ log'.request[proc'.t] \in Pending => ~Reached(proc.t)'
  PROVE  Landed
<1>1. /\ "run_close" \notin Opening /\ "run_close" \notin Asking /\ "run_close" \notin Holding
      /\ "run_close" \in AtSession
  BY DEF Opening, Asking, Holding, AtSession, Venturing
<1> QED BY <1>1 DEF Landed, OnCourse, Course

----------------------------------------------------------------------------
LEMMA FailureAppends ==
  ASSUME log \in Logs, host \in Hosts, NEW t \in Tracks, NEW told \in BOOLEAN,
         NEW next, NEW raised, ControlFailure(t, told, next, raised),
         ~told /\ log.request[t] \in Pending => ~Reached(t)
  PROVE  (\E u \in Tracks : Moves(u)) /\ proc' \in {next, raised, Off}
<1> DEFINE why == IF told THEN "maybe_sent" ELSE "unsent"
<1>1. why \in Provenances \ {"none"} /\ why # "transport" /\ (why = "unsent" => ~told)
  BY DEF Provenances
<1>2. proc' \in {next, raised, Off}
  BY DEF ControlFailure, Append
<1>3. /\ log' = log \/ (log' = FailedEvent(t, why) /\ log.request[t] \in Pending)
      /\ \E r \in {"control", "none", "stale"} : host' = [host EXCEPT !.result[t] = r]
  <2> HIDE DEF FailedEvent
  <2> QED BY DEF ControlFailure, Append, RequestMay
<1> HIDE DEF why
<1>4. Untouched
  <2>1. PICK r \in {"control", "none", "stale"} : host' = [host EXCEPT !.result[t] = r]
    BY <1>3
  <2> QED BY <2>1 DEF Untouched, Hosts
<1>5. Moves(t)
  <2>1. CASE log' = log
    BY <1>4, <2>1 DEF Moves, Writes
  <2>2. CASE log' = FailedEvent(t, why) /\ log.request[t] \in Pending
    <3>1. SaysItFailed(t)
      BY <1>1, <2>2 DEF SaysItFailed
    <3> QED BY <1>4, <3>1 DEF Moves, Writes
  <2> QED BY <1>3, <2>1, <2>2
<1> QED BY <1>2, <1>5

LEMMA RestIsCalm ==
  ASSUME proc \in Processes, proc.t \in Tracks
  PROVE  Calm(CancelRest)
<1> DEFINE first == IF proc.told THEN proc.t + 1 ELSE proc.t
<1> DEFINE rest == [proc EXCEPT !.held = {u \in proc.held : u >= first}, !.told = FALSE]
<1>1. rest \in Processes /\ rest.held \subseteq Tracks
  <2>1. {u \in proc.held : u >= first} \in SUBSET Tracks
    BY DEF Processes
  <2> HIDE DEF first
  <2>2. rest.held = {u \in proc.held : u >= first}
    BY DEF Processes
  <2>3. rest \in Processes
    BY <2>1 DEF Processes
  <2> QED BY <2>1, <2>2, <2>3
<1>2. CancelRest = Loop(rest, rest.held, 1, "run_cancel", Off)
  BY DEF CancelRest, Here, Processes
<1>3. "run_cancel" \in Tending
  BY DEF Tending
<1> HIDE DEF rest
<1> QED BY <1>1, <1>2, <1>3, OffIsCalm, LoopIsCalm

LEMMA RunCloseTends ==
  ASSUME Sound, RunClose
  PROVE  Tended
<1>1. /\ log \in Logs /\ host \in Hosts /\ proc \in Processes /\ proc.at = "run_close"
      /\ proc.told \in BOOLEAN
  BY DEF RunClose, Sound, STypeOK, At, Processes
<1>2. proc.t \in Tracks
  BY <1>1 DEF Sound, STypeOK, Venturing
<1>3. /\ proc.bad => host.driver[proc.t] = "broken"
      /\ ~proc.told /\ log.request[proc.t] \in Pending => ~Reached(proc.t)
  BY <1>1 DEF Sound, Course
<1>4. Calm(CancelRest)
  BY <1>1, <1>2, RestIsCalm
<1>5. CASE proc' = CancelRest /\ UNCHANGED <<log, host>>
  BY <1>1, <1>4, <1>5, Nothing DEF Tended
<1>6. CASE /\ log.request[Here] \in Pending /\ proc.bad /\ UNCHANGED host
           /\ Append(FailedEvent(Here, "transport"), TRUE, CancelRest, CancelRest)
  <2>1. /\ proc' \in {CancelRest, Off}
        /\ log' = log \/ log' = FailedEvent(proc.t, "transport")
    BY <1>6 DEF Append, Here
  <2>2. Untouched
    BY <1>1, <1>6 DEF Untouched
  <2>3. log' = log \/ SaysItFailed(proc.t)
    BY <1>3, <1>6, <2>1 DEF SaysItFailed, Provenances, Here
  <2>4. Moves(proc.t)
    BY <2>2, <2>3 DEF Moves, Writes
  <2> QED BY <1>2, <1>4, <2>1, <2>4, OffIsCalm DEF Tended
<1>7. CASE /\ log.request[Here] \in Pending
           /\ ControlFailure(Here, proc.told, CancelRest, CancelRest)
  <2>1. ControlFailure(proc.t, proc.told, CancelRest, CancelRest)
    BY <1>7 DEF Here
  <2>2. (\E u \in Tracks : Moves(u)) /\ proc' \in {CancelRest, CancelRest, Off}
    BY <1>1, <1>2, <1>3, <2>1, FailureAppends
  <2> QED BY <1>4, <2>2, OffIsCalm DEF Tended
<1> QED BY <1>5, <1>6, <1>7 DEF RunClose
----------------------------------------------------------------------------
Advanced == (\E u \in Tracks : Moves(u)) /\ Landed

LEMMA TendedAdvances == Tended => Advanced
BY CalmIsOnCourse DEF Tended, Advanced

LEMMA BeginAdvances ==
  ASSUME Sound, NEW cmd \in {"readiness", "run"}, Begin(cmd)
  PROVE  Advanced
<1> DEFINE begun == [Off EXCEPT !.cmd = cmd, !.at = "start_intent"]
<1>1. /\ proc = Off /\ NeverStarted /\ host' = host /\ host \in Hosts /\ log \in Logs
      /\ Append([log EXCEPT !.session = "open"], SessionMayStart, begun, Off)
  BY DEF Begin, Sound, STypeOK
<1>2. /\ begun \in Processes /\ begun.at = "start_intent" /\ begun.t = 1
      /\ ~begun.told /\ ~begun.bad
  <2>1. cmd \in Cmds /\ "start_intent" \in Places
    BY DEF Cmds, Places, AtSession, Venturing, Opening
  <2>2. Off.t = 1 /\ ~Off.told /\ ~Off.bad
    BY DEF Off
  <2> QED BY <2>1, <2>2, OffIsCalm DEF Processes
<1> HIDE DEF begun
<1>3. "open" \in Sessions
  BY DEF Sessions
<1>4. (\E u \in Tracks : Moves(u)) /\ proc' \in {begun, Off, Off}
  BY <1>1, <1>3, SessionAppends
<1>5. CASE proc' = begun
  <2>1. log'.request = log.request
    BY <1>1 DEF Append, Logs
  <2>2. \A t \in Tracks : log'.request[t] = "not_attempted"
    BY <1>1, <2>1 DEF NeverStarted
  <2>3. "start_intent" \in Opening /\ 1 \in Tracks
    BY Indices DEF Opening
  <2>4. Landed
    BY <1>2, <1>5, <2>2, <2>3, OpeningIsOnCourse
  <2> QED BY <1>4, <2>4 DEF Advanced
<1> QED BY <1>4, <1>5, OffIsCalm, CalmIsOnCourse DEF Advanced

LEMMA AtOpening ==
  ASSUME Sound, proc.at \in Opening
  PROVE  /\ proc \in Processes /\ proc.t \in Tracks /\ proc.t \in Int /\ ~proc.told
         /\ \A t \in Tracks : log.request[t] = "not_attempted"
         /\ proc.at # "read_ready" => ~proc.bad
         /\ log \in Logs /\ host \in Hosts
BY DEF Sound, STypeOK, Course, Processes, Venturing

LEMMA StartIntentAdvances ==
  ASSUME Sound, StartIntent
  PROVE  Advanced
<1>1. /\ proc.at = "start_intent" /\ host' = host
      /\ AppendDriver("start_intent", To(proc, "spawn"), ReadinessFails(proc))
  BY DEF StartIntent, At
<1>2. "start_intent" \in Opening /\ "spawn" \in Opening /\ "spawn" \in Places
  BY DEF Opening, Places, AtSession, Venturing
<1>3. /\ proc \in Processes /\ proc.t \in Tracks /\ ~proc.told /\ ~proc.bad
      /\ \A t \in Tracks : log.request[t] = "not_attempted"
      /\ log \in Logs /\ host \in Hosts
  BY <1>1, <1>2, AtOpening
<1>4. (\E u \in Tracks : Moves(u)) /\ proc' \in {To(proc, "spawn"), ReadinessFails(proc), Off}
  BY <1>1, <1>3, EventNames, DriverAppends
<1>5. CASE proc' # To(proc, "spawn")
  BY <1>3, <1>4, <1>5, OffIsCalm, ReadinessFailsCalmly, CalmIsOnCourse DEF Advanced
<1>6. CASE proc' = To(proc, "spawn")
  <2>1. /\ proc' \in Processes /\ proc'.at = "spawn" /\ proc'.t = proc.t
        /\ ~proc'.told /\ ~proc'.bad
    BY <1>2, <1>3, <1>6, Placed
  <2>2. Calm(Off) /\ Calm(ReadinessFails(proc)) /\ ~Calm(proc')
    BY <1>2, <1>3, <2>1, CalmPlaces, OffIsCalm, ReadinessFailsCalmly DEF Calm, Venturing
  <2>3. log' = DriverEvent(proc.t, "start_intent") /\ DriverMay(proc.t, "start_intent")
    BY <1>1, <1>6, <2>2 DEF AppendDriver, Append, Here
  <2>4. log.driver[proc.t] = "unstarted"
    BY <1>3, <2>3, StartRule
  <2>5. host'.driver[proc.t] = "created"
    BY <1>1, <1>3, <2>4 DEF Sound, Truths, Truth
  <2>6. log'.driver[proc.t] = "start_intent" /\ log'.request = log.request
    <3>1. /\ DriverEvent(proc.t, "start_intent").driver[proc.t] = DriverRules["start_intent"].to
          /\ DriverEvent(proc.t, "start_intent").request = log.request
      BY <1>3, EventNames, EventFields
    <3>2. DriverRules["start_intent"].to = "start_intent"
      BY DEF DriverRules
    <3> QED BY <2>3, <3>1, <3>2
  <2>7. Landed
    BY <1>2, <1>3, <2>1, <2>5, <2>6, OpeningIsOnCourse
  <2> QED BY <1>4, <2>7 DEF Advanced
<1> QED BY <1>5, <1>6

LEMMA SpawnAdvances ==
  ASSUME Sound, Spawn
  PROVE  Advanced
<1> DEFINE started == IF host.driver[proc.t] \in Running THEN host ELSE SetDriver(proc.t, "waiting")
<1> DEFINE next == [proc EXCEPT !.at = "start_complete", !.held = @ \cup {proc.t}]
<1>1. /\ proc.at = "spawn" /\ log' = log
      /\ \/ host' = started /\ proc' = next
         \/ host' \in {host, started} /\ proc' = ReadinessFails(proc)
  BY DEF Spawn, At, Here
<1>2. "spawn" \in Opening /\ "start_complete" \in Opening /\ "start_complete" \in Places
  BY DEF Opening, Places, AtSession, Venturing
<1>3. /\ proc \in Processes /\ proc.t \in Tracks /\ ~proc.told /\ ~proc.bad
      /\ \A t \in Tracks : log.request[t] = "not_attempted"
      /\ log \in Logs /\ host \in Hosts
  BY <1>1, <1>2, AtOpening
<1>4. log.driver[proc.t] = "start_intent" /\ host.driver[proc.t] = "created"
  BY <1>1 DEF Sound, Course
<1>5. host' = host \/ host' = SetDriver(proc.t, "waiting")
  BY <1>1
<1>6. \E u \in Tracks : Moves(u)
  <2>1. CASE host' = host
    BY <1>1, <1>3, <2>1, Nothing
  <2>2. CASE host' = SetDriver(proc.t, "waiting")
    <3>1. Spawned(proc.t)
      BY <1>1, <1>4, <2>2 DEF Spawned
    <3> QED BY <1>3, <3>1 DEF Moves
  <2> QED BY <1>5, <2>1, <2>2
<1>7. CASE proc' = ReadinessFails(proc)
  BY <1>3, <1>6, <1>7, ReadinessFailsCalmly, CalmIsOnCourse DEF Advanced
<1>8. CASE proc' = next
  <2>1. proc.held \cup {proc.t} \in SUBSET Tracks
    BY <1>3 DEF Processes
  <2>2. /\ proc' \in Processes /\ proc'.at = "start_complete" /\ proc'.t = proc.t
        /\ ~proc'.told /\ ~proc'.bad
    BY <1>2, <1>3, <1>8, <2>1 DEF Processes
  <2>3. Landed
    BY <1>1, <1>2, <1>3, <2>2, OpeningIsOnCourse
  <2> QED BY <1>6, <2>3 DEF Advanced
<1> QED BY <1>1, <1>7, <1>8

\* A loop over the places of Opening, which have nothing to rely on but that no
\* request was made.
LEMMA OpeningLoop ==
  ASSUME NEW p \in Processes, NEW from \in Int, NEW place \in {"start_intent", "read_ready"},
         NEW after, ~p.told, p.bad => place = "read_ready",
         \A t \in Tracks : log'.request[t] = "not_attempted",
         proc' = Loop(p, Tracks, from, place, after)
  PROVE  Landed \/ proc' = after
<1>1. Tracks \in SUBSET Nat /\ place \in Opening /\ place \in Places /\ place # "spawn"
  BY Indices DEF Opening, Places, AtSession, Venturing
<1>2. \/ proc' = after
      \/ \E u \in Tracks : proc' = Gone(p, place, u)
  BY <1>1, Looping
<1>3. ASSUME NEW u \in Tracks, proc' = Gone(p, place, u) PROVE Landed
  <2>1. u \in Int
    BY <1>1
  <2>2. /\ proc' \in Processes /\ proc'.at = place /\ proc'.t = u
        /\ proc'.told = p.told /\ proc'.bad = p.bad
    BY <1>1, <1>3, <2>1, Moved
  <2> QED BY <1>1, <2>2, OpeningIsOnCourse
<1> QED BY <1>2, <1>3
LEMMA StartCompleteAdvances ==
  ASSUME Sound, StartComplete
  PROVE  Advanced
<1> DEFINE reads == Loop(proc, Tracks, 1, "read_ready", proc)
<1> DEFINE next == Onward(proc, Tracks, "start_intent", reads)
<1>1. /\ proc.at = "start_complete" /\ host' = host
      /\ AppendDriver("start_complete", next, ReadinessFails(proc))
  BY DEF StartComplete, At
<1>2. "start_complete" \in Opening
  BY DEF Opening
<1>3. /\ proc \in Processes /\ proc.t \in Tracks /\ proc.t + 1 \in Int
      /\ ~proc.told /\ ~proc.bad
      /\ \A t \in Tracks : log.request[t] = "not_attempted"
      /\ log \in Logs /\ host \in Hosts
  BY <1>1, <1>2, AtOpening
<1> HIDE DEF next
<1>4. (\E u \in Tracks : Moves(u)) /\ proc' \in {next, ReadinessFails(proc), Off}
  BY <1>1, <1>3, EventNames, DriverAppends
<1>5. log'.request = log.request
  <2>1. log' = log \/ log' = DriverEvent(proc.t, "start_complete")
    BY <1>1 DEF AppendDriver, Append, Here
  <2>2. DriverEvent(proc.t, "start_complete").request = log.request
    BY <1>3, EventNames, EventFields
  <2> QED BY <2>1, <2>2
<1>6. CASE proc' = next
  <2>1. proc' = Loop(proc, Tracks, proc.t + 1, "start_intent", reads)
    BY <1>6 DEF next, Onward, Here
  <2> HIDE DEF reads
  <2>2. Landed \/ proc' = reads
    BY <1>3, <1>5, <2>1, OpeningLoop
  <2>3. ASSUME proc' = reads PROVE Landed
    <3>1. proc' = Loop(proc, Tracks, 1, "read_ready", proc)
      BY <2>3 DEF reads
    <3>2. Landed \/ proc' = proc
      BY <1>3, <1>5, <3>1, OpeningLoop
    <3>3. ASSUME proc' = proc PROVE Landed
      <4>1. /\ proc' \in Processes /\ proc'.at = "start_complete" /\ proc'.t \in Tracks
            /\ ~proc'.told /\ ~proc'.bad
        BY <1>1, <1>3, <3>3
      <4>2. \A t \in Tracks : log'.request[t] = "not_attempted"
        BY <1>3, <1>5
      <4> QED BY <1>2, <4>1, <4>2, OpeningIsOnCourse
    <3> QED BY <3>2, <3>3
  <2> QED BY <1>4, <2>2, <2>3 DEF Advanced
<1>7. CASE proc' # next
  BY <1>3, <1>4, <1>7, OffIsCalm, ReadinessFailsCalmly, CalmIsOnCourse DEF Advanced
<1> QED BY <1>6, <1>7

LEMMA ReadReadyAdvances ==
  ASSUME Sound, ReadReady
  PROVE  Advanced
<1> DEFINE after(p) == IF p.bad THEN ReadinessFails(p) ELSE To(p, "set_complete")
<1> DEFINE next(p) == Onward(p, Tracks, "read_ready", after(p))
<1>1. /\ proc.at = "read_ready" /\ host' = host
      /\ \/ AppendDriver("readiness_complete", next(proc), ReadinessFails(proc))
         \/ proc' = next([proc EXCEPT !.bad = TRUE]) /\ log' = log
  BY DEF ReadReady, At
<1>2. /\ "read_ready" \in Opening /\ "set_complete" \in Opening /\ "set_complete" \in Places
  BY DEF Opening, Places, AtSession, Venturing
<1>3. /\ proc \in Processes /\ proc.t \in Tracks /\ proc.t + 1 \in Int /\ ~proc.told
      /\ \A t \in Tracks : log.request[t] = "not_attempted"
      /\ log \in Logs /\ host \in Hosts
  BY <1>1, <1>2, AtOpening
<1>4. ASSUME NEW p \in Processes, ~p.told, p.t \in Tracks, log'.request = log.request,
             proc' = next(p)
      PROVE  Landed
  <2>1. proc' = Loop(p, Tracks, proc.t + 1, "read_ready", after(p))
    BY <1>4 DEF Onward, Here
  <2> HIDE DEF after
  <2>2. Landed \/ proc' = after(p)
    BY <1>3, <1>4, <2>1, OpeningLoop
  <2>3. CASE proc' = after(p) /\ p.bad
    <3>1. Calm(proc')
      BY <2>3, ReadinessFailsCalmly DEF after
    <3> QED BY <3>1, CalmIsOnCourse
  <2>4. CASE proc' = after(p) /\ ~p.bad
    <3>1. proc' = To(p, "set_complete")
      BY <2>4 DEF after
    <3>2. /\ proc' \in Processes /\ proc'.at = "set_complete" /\ proc'.t = p.t
          /\ ~proc'.told /\ ~proc'.bad
      BY <1>2, <1>4, <2>4, <3>1, Placed
    <3> QED BY <1>2, <1>3, <1>4, <3>2, OpeningIsOnCourse
  <2> QED BY <2>2, <2>3, <2>4
<1> HIDE DEF next
<1>5. CASE AppendDriver("readiness_complete", next(proc), ReadinessFails(proc))
  <2>1. (\E u \in Tracks : Moves(u)) /\ proc' \in {next(proc), ReadinessFails(proc), Off}
    BY <1>1, <1>3, <1>5, EventNames, DriverAppends
  <2>2. log'.request = log.request
    <3>1. log' = log \/ log' = DriverEvent(proc.t, "readiness_complete")
      BY <1>5 DEF AppendDriver, Append, Here
    <3>2. DriverEvent(proc.t, "readiness_complete").request = log.request
      BY <1>3, EventNames, EventFields
    <3> QED BY <3>1, <3>2
  <2>3. CASE proc' = next(proc)
    BY <1>3, <1>4, <2>1, <2>2, <2>3 DEF Advanced
  <2>4. CASE proc' # next(proc)
    BY <1>3, <2>1, <2>4, OffIsCalm, ReadinessFailsCalmly, CalmIsOnCourse DEF Advanced
  <2> QED BY <2>3, <2>4
<1>6. CASE proc' = next([proc EXCEPT !.bad = TRUE]) /\ log' = log
  <2> DEFINE p == [proc EXCEPT !.bad = TRUE]
  <2>1. p \in Processes /\ ~p.told /\ p.t \in Tracks
    BY <1>3 DEF Processes
  <2>2. proc' = next(p) /\ log'.request = log.request
    BY <1>6
  <2> HIDE DEF p
  <2>3. Landed
    BY <1>4, <2>1, <2>2
  <2> QED BY <1>1, <1>3, <1>6, <2>3, Nothing DEF Advanced
<1> QED BY <1>1, <1>5, <1>6

LEMMA SetCompleteAdvances ==
  ASSUME Sound, SetComplete
  PROVE  Advanced
<1> DEFINE place == IF proc.cmd = "readiness" THEN "cancel" ELSE "claim"
<1> DEFINE next == Loop(proc, Tracks, 1, place, proc)
<1>1. /\ proc.at = "set_complete" /\ host' = host
      /\ Append([log EXCEPT !.session = "ready"],
                log.session # "none" /\ AllDrivers("ready"), next, ReadinessFails(proc))
  BY DEF SetComplete, At
<1>2. "set_complete" \in Opening /\ "ready" \in Sessions
  BY DEF Opening, Sessions
<1>3. /\ proc \in Processes /\ proc.t \in Tracks /\ ~proc.told /\ ~proc.bad
      /\ \A t \in Tracks : log.request[t] = "not_attempted"
      /\ log \in Logs /\ host \in Hosts
  BY <1>1, <1>2, AtOpening
<1> HIDE DEF next
<1>4. (\E u \in Tracks : Moves(u)) /\ proc' \in {next, ReadinessFails(proc), Off}
  BY <1>1, <1>2, <1>3, SessionAppends
<1>5. log'.request = log.request
  BY <1>1, <1>3 DEF Append, Logs
<1>6. CASE proc' = next
  <2>1. /\ place \in Places /\ place \in {"claim", "cancel"}
        /\ "claim" \in Asking /\ "cancel" \in Tending
    BY DEF Places, AtSession, Venturing, Asking, Tending
  <2>2. Tracks \in SUBSET Nat
    BY Indices
  <2> HIDE DEF place
  <2>3. \/ proc' = proc
        \/ \E u \in Tracks : /\ proc' = Gone(proc, place, u)
                             /\ \A v \in Tracks : 1 <= v => u <= v
    <3>1. \/ /\ Loop(proc, Tracks, 1, place, proc) = proc
             /\ \A v \in Tracks : v < 1
          \/ \E u \in Tracks : /\ Loop(proc, Tracks, 1, place, proc) = Gone(proc, place, u)
                               /\ 1 <= u
                               /\ \A v \in Tracks : 1 <= v => u <= v
      BY <2>2, Looping
    <3> QED BY <1>6, <3>1 DEF next
  <2>4. CASE proc' = proc
    BY <1>1, <1>2, <1>3, <1>4, <1>5, <2>4, OpeningIsOnCourse DEF Advanced
  <2>5. ASSUME NEW u \in Tracks, proc' = Gone(proc, place, u),
               \A v \in Tracks : 1 <= v => u <= v
        PROVE  Advanced
    <3>1. u \in Int /\ \A v \in Tracks : v \in Int /\ ~(v < u)
      BY <2>5, Indices DEF Tracks
    <3>2. /\ proc' \in Processes /\ proc'.at = place /\ proc'.t = u
          /\ ~proc'.told /\ ~proc'.bad
      BY <1>3, <2>1, <2>5, <3>1, Moved DEF Places, AtSession, Venturing
    <3>3. CASE place = "claim"
      <4>1. "claim" \notin Holding
        BY DEF Holding
      <4>2. Landed
        BY <1>3, <1>5, <2>1, <3>1, <3>2, <3>3, <4>1, AskingIsOnCourse
      <4> QED BY <1>4, <4>2 DEF Advanced
    <3>4. CASE place = "cancel"
      <4>1. Calm(proc')
        BY <2>1, <3>2, <3>4 DEF Calm
      <4> QED BY <1>4, <4>1, CalmIsOnCourse DEF Advanced
    <3> QED BY <2>1, <3>3, <3>4
  <2> QED BY <2>3, <2>4, <2>5
<1>7. CASE proc' # next
  BY <1>3, <1>4, <1>7, OffIsCalm, ReadinessFailsCalmly, CalmIsOnCourse DEF Advanced
<1> QED BY <1>6, <1>7
----------------------------------------------------------------------------
LEMMA AtAsking ==
  ASSUME Sound, proc.at \in Asking
  PROVE  /\ proc \in Processes /\ proc.t \in Tracks /\ proc.t \in Int /\ ~proc.bad
         /\ proc.told <=> proc.at \notin {"claim", "instruct"}
         /\ \A u \in Tracks : u < proc.t => log.request[u] = "completed"
         /\ \A u \in Tracks : u > proc.t => log.request[u] = "not_attempted"
         /\ log \in Logs /\ host \in Hosts /\ Truth(proc.t)
BY DEF Sound, STypeOK, Course, Processes, Venturing, Truths

LEMMA RequestFields ==
  ASSUME log \in Logs, NEW t \in Tracks, NEW stage \in RequestStages
  PROVE  /\ RequestEvent(t, stage).request[t] = stage
         /\ \A u \in Tracks : u # t => RequestEvent(t, stage).request[u] = log.request[u]
BY DEF RequestEvent, Logs

LEMMA RequestAppends ==
  ASSUME log \in Logs, host \in Hosts, host' = host, proc.t \in Tracks,
         NEW stage \in RequestStages \ {"not_attempted", "failed"},
         NEW next, NEW raised, AppendRequest(stage, next, raised),
         stage = "completed" => host.driver[proc.t] \in {"answered", "broken"}
  PROVE  /\ \E u \in Tracks : Moves(u)
         /\ \/ proc' = next /\ log'.request[proc.t] = stage
            \/ proc' \in {raised, Off}
         /\ log'.request[proc.t] \in {log.request[proc.t], stage}
         /\ \A u \in Tracks : u # proc.t => log'.request[u] = log.request[u]
<1>1. \/ log' = log
      \/ log' = RequestEvent(proc.t, stage) /\ RequestMay(proc.t, stage)
  BY DEF AppendRequest, Append, Here
<1>2. \/ proc' = next /\ log' = RequestEvent(proc.t, stage)
      \/ proc' \in {raised, Off}
  BY DEF AppendRequest, Append, Here
<1>3. Moves(proc.t)
  BY <1>1 DEF Moves, Writes, Untouched, SaysOfRequest
<1>4. /\ RequestEvent(proc.t, stage).request[proc.t] = stage
      /\ \A u \in Tracks : u # proc.t =>
           RequestEvent(proc.t, stage).request[u] = log.request[u]
  BY RequestFields
<1> QED BY <1>1, <1>2, <1>3, <1>4

LEMMA RunFailsOnCourse ==
  ASSUME NEW p \in Processes, p.t \in Tracks, proc' = RunFails(p),
         p.bad => host'.driver[p.t] = "broken",
         p.told \/ (host'.driver[p.t] \notin {"told", "answered", "broken"}
                    /\ ~(host'.sent[p.t] > 0))
  PROVE  Landed
<1>1. "run_close" \in Places
  BY DEF Places, AtSession, Venturing
<1>2. /\ proc' \in Processes /\ proc'.at = "run_close" /\ proc'.t = p.t
      /\ proc'.bad = p.bad /\ proc'.told = p.told
  BY <1>1, Placed DEF RunFails
<1>3. ~proc'.told => ~Reached(proc.t)'
  BY <1>2 DEF Reached
<1> QED BY <1>2, <1>3, ClosingIsOnCourse

LEMMA AskingGoesOn ==
  ASSUME Sound, proc.at \in Asking, NEW place \in Asking \ {"claim", "instruct"},
         proc' \in Processes, proc'.at = place, proc'.t = proc.t, ~proc'.bad, proc'.told,
         \A u \in Tracks : u # proc.t => log'.request[u] = log.request[u],
         place = "deliver" => log'.request[proc.t] = "instruction_intent",
         place \in Holding => host'.driver[proc.t] \in {"answered", "broken"}
  PROVE  Landed
<1>1. /\ proc.t \in Tracks /\ proc.t \in Int
      /\ \A u \in Tracks : u < proc.t => log.request[u] = "completed"
      /\ \A u \in Tracks : u > proc.t => log.request[u] = "not_attempted"
  BY AtAsking
<1>2. \A u \in Tracks : u < proc'.t => log'.request[u] = "completed"
  BY <1>1
<1>3. \A u \in Tracks : u > proc'.t => log'.request[u] = "not_attempted"
  BY <1>1
<1> QED BY <1>1, <1>2, <1>3, AskingIsOnCourse

LEMMA AskingPlaces ==
  /\ Asking \subseteq Places
  /\ "claim" \in Asking /\ "instruct" \in Asking
  /\ \A place \in {"deliver", "read_result", "save_result", "result", "save_record",
                   "record", "complete"} : place \in Asking \ {"claim", "instruct"}
  /\ \A place \in {"deliver", "read_result"} : place \notin Holding
  /\ "collect" \in Elsewhere
BY DEF Asking, Places, AtSession, Venturing, Holding, Elsewhere

LEMMA ClaimAdvances ==
  ASSUME Sound, Claim
  PROVE  Advanced
<1>1. /\ proc.at = "claim" /\ host' = host
      /\ AppendRequest("request_intent", To(proc, "instruct"), RunFails(proc))
  BY DEF Claim, At
<1>2. /\ proc \in Processes /\ proc.t \in Tracks /\ proc.t \in Int /\ ~proc.bad
      /\ ~proc.told /\ log \in Logs /\ host \in Hosts /\ Truth(proc.t)
      /\ \A u \in Tracks : u < proc.t => log.request[u] = "completed"
      /\ \A u \in Tracks : u > proc.t => log.request[u] = "not_attempted"
  BY <1>1, AtAsking, AskingPlaces
<1>3. log.request[proc.t] = "not_attempted"
  BY <1>1 DEF Sound, Course
<1>4. /\ \E u \in Tracks : Moves(u)
      /\ \/ proc' = To(proc, "instruct") /\ log'.request[proc.t] = "request_intent"
         \/ proc' \in {RunFails(proc), Off}
      /\ \A u \in Tracks : u # proc.t => log'.request[u] = log.request[u]
  BY <1>1, <1>2, RequestAppends DEF RequestStages
<1>5. ~Reached(proc.t)
  BY <1>2, <1>3 DEF Truth
<1>6. CASE proc' = RunFails(proc)
  <2>1. Landed
    BY <1>1, <1>2, <1>5, <1>6, RunFailsOnCourse DEF Reached
  <2> QED BY <1>4, <2>1 DEF Advanced
<1>7. CASE proc' = To(proc, "instruct") /\ log'.request[proc.t] = "request_intent"
  <2>0. "instruct" \in Places
    BY AskingPlaces
  <2>1. /\ proc' \in Processes /\ proc'.at = "instruct" /\ proc'.t = proc.t
        /\ ~proc'.bad /\ ~proc'.told
    BY <1>2, <1>7, <2>0, Placed
  <2>2. \A u \in Tracks : u < proc'.t => log'.request[u] = "completed"
    BY <1>2, <1>4, <2>1
  <2>3. \A u \in Tracks : u > proc'.t => log'.request[u] = "not_attempted"
    BY <1>2, <1>4, <2>1
  <2>4. "instruct" \notin Holding
    BY DEF Holding
  <2>5. Landed
    BY <1>2, <1>7, <2>1, <2>2, <2>3, <2>4, AskingPlaces, AskingIsOnCourse
  <2> QED BY <1>4, <2>5 DEF Advanced
<1> QED BY <1>4, <1>6, <1>7, OffIsCalm, CalmIsOnCourse DEF Advanced

LEMMA InstructAdvances ==
  ASSUME Sound, Instruct
  PROVE  Advanced
<1> DEFINE next == [proc EXCEPT !.at = "deliver", !.told = TRUE]
<1>1. /\ proc.at = "instruct" /\ host' = host
      /\ AppendRequest("instruction_intent", next, RunFails(proc))
  BY DEF Instruct, At
<1>2. /\ proc \in Processes /\ proc.t \in Tracks /\ proc.t \in Int /\ ~proc.bad
      /\ ~proc.told /\ log \in Logs /\ host \in Hosts /\ Truth(proc.t)
  BY <1>1, AtAsking, AskingPlaces
<1>3. log.request[proc.t] = "request_intent"
  BY <1>1 DEF Sound, Course
<1>0. next \in Processes /\ next.at = "deliver" /\ next.t = proc.t /\ ~next.bad /\ next.told
  <2>1. "deliver" \in Places
    BY AskingPlaces
  <2> QED BY <1>2, <2>1 DEF Processes
<1> HIDE DEF next
<1>4. /\ \E u \in Tracks : Moves(u)
      /\ \/ proc' = next /\ log'.request[proc.t] = "instruction_intent"
         \/ proc' \in {RunFails(proc), Off}
      /\ \A u \in Tracks : u # proc.t => log'.request[u] = log.request[u]
  BY <1>1, <1>2, RequestAppends DEF RequestStages
<1>5. ~Reached(proc.t)
  BY <1>2, <1>3 DEF Truth
<1>6. CASE proc' = RunFails(proc)
  <2>1. Landed
    BY <1>1, <1>2, <1>5, <1>6, RunFailsOnCourse DEF Reached
  <2> QED BY <1>4, <2>1 DEF Advanced
<1>7. CASE proc' = next /\ log'.request[proc.t] = "instruction_intent"
  <2>1. Landed
    BY <1>0, <1>1, <1>2, <1>4, <1>7, AskingPlaces, AskingGoesOn
  <2> QED BY <1>4, <2>1 DEF Advanced
<1> QED BY <1>4, <1>6, <1>7, OffIsCalm, CalmIsOnCourse DEF Advanced
\* Where the driver has been told, what goes on and what fails.
LEMMA AtTold ==
  ASSUME Sound, NEW at \in Asking \ {"claim", "instruct"}, proc.at = at
  PROVE  /\ proc \in Processes /\ proc.t \in Tracks /\ proc.t \in Int /\ ~proc.bad /\ proc.told
         /\ log \in Logs /\ host \in Hosts /\ Truth(proc.t)
         /\ at \in Holding => host.driver[proc.t] \in {"answered", "broken"}
BY AtAsking DEF Sound, Course

LEMMA ToldGoesOn ==
  ASSUME Sound, proc.at \in Asking, NEW p \in Processes, p.t = proc.t, ~p.bad, p.told,
         NEW place \in Asking \ {"claim", "instruct", "deliver"}, proc' = To(p, place),
         \A u \in Tracks : u # proc.t => log'.request[u] = log.request[u],
         place \in Holding => host'.driver[proc.t] \in {"answered", "broken"}
  PROVE  Landed
<1>1. place \in Places
  BY AskingPlaces
<1>2. /\ proc' \in Processes /\ proc'.at = place /\ proc'.t = proc.t
      /\ ~proc'.bad /\ proc'.told
  BY <1>1, Placed
<1> QED BY <1>2, AskingGoesOn

LEMMA ToldFails ==
  ASSUME NEW p \in Processes, p.t \in Tracks, proc' = RunFails(p), ~p.bad, p.told
  PROVE  Landed
BY RunFailsOnCourse

LEMMA DeliverAdvances ==
  ASSUME Sound, Deliver
  PROVE  Advanced
<1> DEFINE delivered == IF host.driver[proc.t] = "waiting" THEN SetDriver(proc.t, "told") ELSE host
<1>1. /\ proc.at = "deliver" /\ log' = log /\ host' \in {host, delivered}
      /\ proc' \in {To(Closed(proc), "read_result"), RunFails(Closed(proc))}
  BY DEF Deliver, At, Here
<1>2. /\ proc \in Processes /\ proc.t \in Tracks /\ proc.t \in Int /\ ~proc.bad /\ proc.told
      /\ log \in Logs /\ host \in Hosts
  BY <1>1, AskingPlaces, AtTold
<1>3. /\ log.request[proc.t] = "instruction_intent"
      /\ \A u \in Tracks : u < proc.t => log.request[u] = "completed"
  BY <1>1, AskingPlaces, AtAsking DEF Sound, Course
<1>4. \E u \in Tracks : Moves(u)
  <2>1. CASE host' = host
    BY <1>1, <1>2, <2>1, Nothing
  <2>2. CASE host' # host
    <3>1. Told(proc.t)
      BY <1>1, <1>3, <2>2 DEF Told
    <3> QED BY <1>2, <3>1 DEF Moves
  <2> QED BY <2>1, <2>2
<1>5. /\ Closed(proc) \in Processes /\ Closed(proc).t = proc.t
      /\ ~Closed(proc).bad /\ Closed(proc).told
  BY <1>2, Marks
<1>6. CASE proc' = To(Closed(proc), "read_result")
  <2>1. "read_result" \in Asking \ {"claim", "instruct", "deliver"} /\ "read_result" \notin Holding
    BY AskingPlaces
  <2>2. proc.at \in Asking
    BY <1>1, AskingPlaces
  <2>3. Landed
    BY <1>1, <1>5, <1>6, <2>1, <2>2, ToldGoesOn
  <2> QED BY <1>4, <2>3 DEF Advanced
<1>7. CASE proc' = RunFails(Closed(proc))
  <2>1. Landed
    BY <1>2, <1>5, <1>7, ToldFails
  <2> QED BY <1>4, <2>1 DEF Advanced
<1> QED BY <1>1, <1>6, <1>7

\* The steps between events: the result is read, or a file is written.
LEMMA FilesAdvance ==
  ASSUME Sound, ReadResult \/ SaveResult \/ SaveRecord
  PROVE  Advanced
<1>1. /\ proc.at \in {"read_result", "save_result", "save_record"} /\ log' = log
      /\ \/ proc' = RunFails(proc)
         \/ /\ proc.at = "read_result" => host.driver[proc.t] \in {"answered", "broken"}
            /\ \E place \in {"save_result", "result", "record"} : proc' = To(proc, place)
  BY DEF ReadResult, SaveResult, SaveRecord, At, Here
<1>2. proc.at \in Asking \ {"claim", "instruct"} /\ proc.at \in Asking
  BY <1>1, AskingPlaces
<1>3. /\ proc \in Processes /\ proc.t \in Tracks /\ proc.t \in Int /\ ~proc.bad /\ proc.told
      /\ log \in Logs /\ host \in Hosts
      /\ proc.at \in Holding => host.driver[proc.t] \in {"answered", "broken"}
  BY <1>1, AskingPlaces, AtTold
<1>4. Untouched
  <2>1. CASE ReadResult
    BY <1>3, <2>1 DEF ReadResult, Untouched
  <2>2. CASE SaveResult
    <3>1. host' \in {host, [host EXCEPT !.result[proc.t] = "driver"]}
      BY <2>2 DEF SaveResult, Here
    <3> QED BY <1>3, <3>1 DEF Untouched, Hosts
  <2>3. CASE SaveRecord
    <3>1. host' \in {host, [host EXCEPT !.records = host.records \cup {proc.t}]}
      BY <2>3 DEF SaveRecord, Here
    <3>2. host.records \cup {proc.t} \in SUBSET Tracks
      BY <1>3 DEF Hosts
    <3> QED BY <1>3, <3>1, <3>2 DEF Untouched, Hosts
  <2> QED BY <2>1, <2>2, <2>3
<1>5. \E u \in Tracks : Moves(u)
  BY <1>1, <1>3, <1>4 DEF Moves, Writes
<1>6. CASE proc' = RunFails(proc)
  BY <1>3, <1>5, <1>6, ToldFails DEF Advanced
<1>7. ASSUME NEW place \in {"save_result", "result", "record"}, proc' = To(proc, place),
             proc.at = "read_result" => host.driver[proc.t] \in {"answered", "broken"}
      PROVE  Advanced
  <2>1. place \in Asking \ {"claim", "instruct", "deliver"}
    BY AskingPlaces
  <2>2. "save_result" \in Holding /\ "save_record" \in Holding
    BY DEF Holding
  <2>3. host'.driver[proc.t] \in {"answered", "broken"}
    BY <1>1, <1>3, <1>4, <1>7, <2>2 DEF Untouched
  <2>4. Landed
    BY <1>1, <1>2, <1>3, <1>7, <2>1, <2>3, ToldGoesOn
  <2> QED BY <1>5, <2>4 DEF Advanced
<1> QED BY <1>1, <1>6, <1>7

LEMMA ResultAdvances ==
  ASSUME Sound, Result \/ Record
  PROVE  Advanced
<1>0. /\ "result" \in Asking \ {"claim", "instruct"} /\ "record" \in Asking \ {"claim", "instruct"}
      /\ "result" \in Holding /\ "record" \in Holding
  BY AskingPlaces DEF Holding
<1>1. proc.at \in {"result", "record"} /\ host' = host
  BY DEF Result, Record, At
<1>2. /\ proc \in Processes /\ proc.t \in Tracks /\ proc.t \in Int /\ ~proc.bad /\ proc.told
      /\ log \in Logs /\ host \in Hosts /\ proc.at \in Asking
      /\ host.driver[proc.t] \in {"answered", "broken"}
  BY <1>0, <1>1, AtTold
<1>3. /\ Bad(proc) \in Processes /\ Bad(proc).t = proc.t
      /\ Bad(proc).told = proc.told /\ Bad(proc).bad = TRUE
  BY <1>2, Marks
<1> DEFINE next == IF host.driver[proc.t] = "broken" THEN RunFails(Bad(proc))
                                                     ELSE To(proc, "save_record")
<1>4. \/ AppendRequest("result_persisted", next, RunFails(proc))
      \/ AppendRequest("request_persisted", To(proc, "complete"), RunFails(proc))
  BY DEF Result, Record, Here
<1> HIDE DEF next
<1>5. /\ \E u \in Tracks : Moves(u)
      /\ proc' \in {next, To(proc, "complete"), RunFails(proc), Off}
      /\ \A u \in Tracks : u # proc.t => log'.request[u] = log.request[u]
  <2>1. CASE AppendRequest("result_persisted", next, RunFails(proc))
    BY <1>1, <1>2, <2>1, RequestAppends DEF RequestStages
  <2>2. CASE AppendRequest("request_persisted", To(proc, "complete"), RunFails(proc))
    BY <1>1, <1>2, <2>2, RequestAppends DEF RequestStages
  <2> QED BY <1>4, <2>1, <2>2
<1>6. CASE proc' = RunFails(proc)
  BY <1>2, <1>5, <1>6, ToldFails DEF Advanced
<1>7. CASE proc' = RunFails(Bad(proc)) /\ host.driver[proc.t] = "broken"
  <2>1. Landed
    BY <1>1, <1>2, <1>3, <1>7, RunFailsOnCourse
  <2> QED BY <1>5, <2>1 DEF Advanced
<1>8. ASSUME NEW place \in {"save_record", "complete"}, proc' = To(proc, place)
      PROVE  Advanced
  <2>1. place \in Asking \ {"claim", "instruct", "deliver"}
    BY AskingPlaces
  <2>2. Landed
    BY <1>1, <1>2, <1>5, <1>8, <2>1, ToldGoesOn
  <2> QED BY <1>5, <2>2 DEF Advanced
<1>9. CASE proc' = Off
  BY <1>5, <1>9, OffIsCalm, CalmIsOnCourse DEF Advanced
<1> QED BY <1>5, <1>6, <1>7, <1>8, <1>9 DEF next

LEMMA CompleteAdvances ==
  ASSUME Sound, Complete
  PROVE  Advanced
<1> DEFINE p == [proc EXCEPT !.told = FALSE]
<1> DEFINE next == Onward(p, Tracks, "claim", To(proc, "collect"))
<1>0. /\ "complete" \in Asking \ {"claim", "instruct"} /\ "complete" \in Holding
      /\ "claim" \in Asking /\ "claim" \in Places /\ "claim" \notin Holding /\ "collect" \in Elsewhere
  BY AskingPlaces DEF Holding
<1>1. /\ proc.at = "complete" /\ host' = host
      /\ AppendRequest("completed", next, RunFails(proc))
  BY DEF Complete, At
<1>2. /\ proc \in Processes /\ proc.t \in Tracks /\ proc.t \in Int /\ ~proc.bad /\ proc.told
      /\ log \in Logs /\ host \in Hosts /\ proc.at \in Asking
      /\ host.driver[proc.t] \in {"answered", "broken"}
  BY <1>0, <1>1, AtTold
<1>3. /\ \A u \in Tracks : u < proc.t => log.request[u] = "completed"
      /\ \A u \in Tracks : u > proc.t => log.request[u] = "not_attempted"
  BY <1>2, AtAsking
<1>4. p \in Processes /\ p.t = proc.t /\ ~p.bad /\ ~p.told
  BY <1>2 DEF Processes
<1> HIDE DEF next
<1>5. /\ \E u \in Tracks : Moves(u)
      /\ \/ proc' = next /\ log'.request[proc.t] = "completed"
         \/ proc' \in {RunFails(proc), Off}
      /\ \A u \in Tracks : u # proc.t => log'.request[u] = log.request[u]
  BY <1>1, <1>2, RequestAppends DEF RequestStages
<1>6. CASE proc' = RunFails(proc)
  BY <1>2, <1>5, <1>6, ToldFails DEF Advanced
<1>7. CASE proc' = next /\ log'.request[proc.t] = "completed"
  <2>1. Calm(To(proc, "collect"))
    BY <1>0, <1>2, CalmPlaces, PlacedIsCalm
  <2>2. proc' = Loop(p, Tracks, proc.t + 1, "claim", To(proc, "collect"))
    BY <1>7 DEF next, Onward, Here
  <2>3. Tracks \in SUBSET Nat /\ proc.t + 1 \in Int
    BY <1>2, Indices
  <2> HIDE DEF p
  <2>4. \/ proc' = To(proc, "collect")
        \/ \E u \in Tracks : /\ proc' = Gone(p, "claim", u) /\ proc.t + 1 <= u
                             /\ \A v \in Tracks : proc.t + 1 <= v => u <= v
    <3> DEFINE from == proc.t + 1
    <3>1. from \in Int
      BY <2>3
    <3> HIDE DEF from
    <3>2. \/ /\ Loop(p, Tracks, from, "claim", To(proc, "collect")) = To(proc, "collect")
             /\ \A v \in Tracks : v < from
          \/ \E u \in Tracks :
               /\ Loop(p, Tracks, from, "claim", To(proc, "collect")) = Gone(p, "claim", u)
               /\ from <= u
               /\ \A v \in Tracks : from <= v => u <= v
      BY <2>3, <3>1, Looping
    <3> QED BY <2>2, <3>2 DEF from
  <2>5. CASE proc' = To(proc, "collect")
    BY <1>5, <2>1, <2>5, CalmIsOnCourse DEF Advanced
  <2>6. ASSUME NEW u \in Tracks, proc' = Gone(p, "claim", u), proc.t + 1 <= u,
               \A v \in Tracks : proc.t + 1 <= v => u <= v
        PROVE  Advanced
    <3>1. u \in Int /\ \A v \in Tracks : v \in Int
      BY Indices
    <3>2. /\ proc' \in Processes /\ proc'.at = "claim" /\ proc'.t = u
          /\ ~proc'.told /\ ~proc'.bad
      BY <1>0, <1>4, <2>6, <3>1, Moved
    <3>3. \A v \in Tracks : v < u => log'.request[v] = "completed"
      <4> SUFFICES ASSUME NEW v \in Tracks, v < u PROVE log'.request[v] = "completed"
        OBVIOUS
      <4>1. v < proc.t \/ v = proc.t
        BY <1>2, <2>6, <3>1
      <4> QED BY <1>3, <1>5, <1>7, <4>1, <1>2
    <3>4. \A v \in Tracks : v >= u => log'.request[v] = "not_attempted"
      <4> SUFFICES ASSUME NEW v \in Tracks, v >= u PROVE log'.request[v] = "not_attempted"
        OBVIOUS
      <4>0. v \in Int
        BY <3>1
      <4>1. v > proc.t /\ v # proc.t
        BY <1>2, <2>6, <3>1, <4>0
      <4> QED BY <1>3, <1>5, <4>1
    <3>5. \A v \in Tracks : v > u => log'.request[v] = "not_attempted"
      <4> SUFFICES ASSUME NEW v \in Tracks, v > u PROVE log'.request[v] = "not_attempted"
        OBVIOUS
      <4>1. v >= u
        BY <3>1
      <4> QED BY <3>4, <4>1
    <3>6. log'.request[u] = "not_attempted"
      BY <3>1, <3>4
    <3>7. Landed
      BY <1>0, <3>2, <3>3, <3>5, <3>6, AskingIsOnCourse
    <3> QED BY <1>5, <3>7 DEF Advanced
  <2> QED BY <2>4, <2>5, <2>6
<1> QED BY <1>5, <1>6, <1>7, OffIsCalm, CalmIsOnCourse DEF Advanced
----------------------------------------------------------------------------
(***************************************************************************)
(* The sessions and the drivers, within a lifecycle.                       *)
(***************************************************************************)
LEMMA ProgramAdvances ==
  ASSUME Sound, Program
  PROVE  Advanced
<1>1. CASE Readiness
  <2>1. CASE Cancel \/ CancelExit \/ DiagnosticComplete
    BY <2>1, CancelTends, CancelExitTends, SessionEnds, TendedAdvances
  <2> QED BY <1>1, <2>1, StartIntentAdvances, SpawnAdvances, StartCompleteAdvances,
             ReadReadyAdvances, SetCompleteAdvances DEF Readiness
<1>2. CASE ReadinessFailing
  BY <1>2, FailCancelTends, FailExitTends, FailStopTends, FailCleanTends, SessionEnds,
     TendedAdvances DEF ReadinessFailing
<1>3. CASE Requests
  BY <1>3, ClaimAdvances, InstructAdvances, DeliverAdvances, FilesAdvance, ResultAdvances,
     CompleteAdvances DEF Requests
<1>4. CASE RunFailing
  BY <1>4, RunCloseTends, RunCancelTends, RunExitTends, RunCleanTends, TendedAdvances
     DEF RunFailing
<1> QED BY <1>1, <1>2, <1>3, <1>4 DEF Program

\* The driver steps leave the process where it can rely on the same.
LEMMA DriversMove ==
  ASSUME Sound, Drivers
  PROVE  /\ \E u \in Tracks : Moves(u)
         /\ OnCourse' /\ UNCHANGED <<log, proc>>
         /\ \E u \in Tracks :
              /\ host.driver[u] \in Running
              /\ \A t \in Tracks : host'.driver[t] \in Running => host.driver[t] \in Running
<1>1. PICK u \in Tracks : DriverSends(u) \/ DriverReadsEof(u) \/ DriverBreaks(u)
  BY DEF Drivers
<1>2. log' = log /\ proc' = proc
  BY <1>1 DEF DriverSends, DriverReadsEof, DriverBreaks
<1>3. log \in Logs /\ host \in Hosts /\ Truths /\ OnCourse
  BY SoundParts
<1>4. Sends(u) \/ Ends(u)
  <2>1. CASE DriverSends(u)
    <3>1. host' = [host EXCEPT !.driver[u] = "answered", !.sent[u] = @ + 1] \/
          host' \in {[host EXCEPT !.driver[u] = d, !.sent[u] = @ + n] :
                        d \in {"broken", "dead"}, n \in {0, 1}}
      BY <2>1 DEF DriverSends
    <3>2. \E d \in {"answered", "broken", "dead"}, n \in {0, 1} :
             host' = [host EXCEPT !.driver[u] = d, !.sent[u] = @ + n]
      BY <3>1
    <3> QED BY <1>2, <2>1, <3>2 DEF Sends, DriverSends
  <2>2. CASE DriverReadsEof(u) \/ DriverBreaks(u)
    BY <1>2, <2>2 DEF Ends, DriverReadsEof, DriverBreaks
  <2> QED BY <1>1, <2>1, <2>2
<1>5. host.driver[u] \in {"waiting", "told"}
  BY <1>4 DEF Sends, Ends
<1>6. /\ \A t \in Tracks : t # u => host'.driver[t] = host.driver[t] /\ host'.sent[t] = host.sent[t]
      /\ host'.driver[u] \in {"answered", "broken", "dead", "cancelled"}
      /\ host.driver[u] = "waiting" => host'.sent = host.sent /\ host'.driver[u] \in {"dead", "cancelled"}
  <2>1. CASE Sends(u)
    <3>1. PICK d \in {"answered", "broken", "dead"}, n \in {0, 1} :
               host' = [host EXCEPT !.driver[u] = d, !.sent[u] = @ + n]
      BY <2>1 DEF Sends
    <3>2. host.driver[u] = "told"
      BY <2>1 DEF Sends
    <3> QED BY <1>3, <3>1, <3>2 DEF Hosts
  <2>2. CASE Ends(u)
    <3>1. PICK d \in {"cancelled", "dead"} : host' = SetDriver(u, d)
      BY <2>2 DEF Ends
    <3> QED BY <1>3, <3>1, SetFields DEF Containers
  <2> QED BY <1>4, <2>1, <2>2
<1>7. OnCourse'
  <2>1. /\ proc.at = "spawn" => proc.t # u
        /\ proc.at \in Holding => proc.t # u
    BY <1>3, <1>5 DEF OnCourse, Course
  <2>2. proc.at = "run_close" => proc.t \in Tracks
    BY <1>3 DEF OnCourse, Venturing
  <2>3. /\ proc.at \in Holding => proc.t \in Tracks
        /\ proc.at = "spawn" => proc.t \in Tracks
    <3>1. Holding \subseteq Venturing /\ "spawn" \in Venturing
      BY DEF Holding, Venturing, Asking, Opening
    <3> QED BY <1>3, <3>1 DEF OnCourse
  <2>4. /\ proc.at = "spawn" => host'.driver[proc.t] = host.driver[proc.t]
        /\ proc.at \in Holding => host'.driver[proc.t] = host.driver[proc.t]
    BY <1>6, <2>1, <2>3
  <2>5. proc.at = "run_close" =>
          /\ proc.bad => host'.driver[proc.t] = "broken"
          /\ ~proc.told /\ log.request[proc.t] \in Pending => ~Reached(proc.t)'
    <3> SUFFICES ASSUME proc.at = "run_close"
                 PROVE  /\ proc.bad => host'.driver[proc.t] = "broken"
                        /\ ~proc.told /\ log.request[proc.t] \in Pending => ~Reached(proc.t)'
      OBVIOUS
    <3>1. /\ proc.bad => host.driver[proc.t] = "broken"
          /\ ~proc.told /\ log.request[proc.t] \in Pending => ~Reached(proc.t)
      BY <1>3 DEF OnCourse, Course
    <3>2. CASE proc.t # u
      <4>1. /\ host'.driver[proc.t] = host.driver[proc.t] /\ host'.sent[proc.t] = host.sent[proc.t]
        BY <1>6, <2>2, <3>2
      <4> QED BY <1>2, <3>1, <4>1 DEF Reached
    <3>3. CASE proc.t = u
      <4>1. ~proc.bad
        BY <1>5, <3>1, <3>3
      <4>2. ~Reached(proc.t) => host.driver[u] = "waiting" /\ ~(host.sent[u] > 0)
        BY <1>5, <3>3 DEF Reached
      <4> QED BY <1>2, <1>6, <3>1, <3>3, <4>1, <4>2 DEF Reached
    <3> QED BY <3>2, <3>3
  <2> QED BY <1>2, <1>3, <2>4, <2>5 DEF OnCourse, Course
<1>8. \A t \in Tracks : host'.driver[t] \in Running => host.driver[t] \in Running
  BY <1>6 DEF Running
<1> QED BY <1>1, <1>2, <1>4, <1>5, <1>7, <1>8 DEF Moves, Running

LEMMA SoundStays ==
  ASSUME Sound, (\E u \in Tracks : Moves(u)) \/ Rebooted, OnCourse'
  PROVE  Sound'
<1>1. (log \in Logs /\ host \in Hosts /\ Truths)'
  BY SoundParts, MovesKeep
<1> QED BY <1>1 DEF Sound, STypeOK, OnCourse
\* While a gateway serves or a driver runs, nothing has been copied yet.
LEMMA NothingCopied ==
  ASSUME Rests, Gateways \in site.running \/ ~Quiet
  PROVE  /\ \A s \in Services : life.leg[s] = "none"
         /\ ~Whole /\ life.attested # "full" /\ site.public # "complete"
<1>1. \A s \in Services : life.leg[s] = "none"
  BY DEF Rests
<1>2. Gateways \in Services
  BY DEF Services
<1>3. ~Copied
  BY <1>1, <1>2 DEF Copied
<1>4. ~Whole
  BY <1>3 DEF Whole
<1>5. life.attested # "full" /\ site.public # "complete"
  BY <1>4 DEF Rests
<1> QED BY <1>1, <1>4, <1>5

LEMMA SessionPlaces ==
  /\ AtSession \cap Building = {} /\ AtSession \cap Closing = {} /\ AtSession \cap Winding = {}
  /\ AtSession \cap Freezes = {} /\ AtSession \cap Creating = {}
  /\ AtSession \cap (Emptied \cup Finals) = {} /\ AtSession \cap Finals = {}
  /\ AtSession \cap {"up_create", "up_created", "remove", "removed"} = {}
  /\ AtSession \cap {"stop_service", "stopped_service", "leg", "leg_end"} = {}
  /\ AtSession \cap {"up_owned", "up_bind"} = {} /\ AtSession \cap {"prepare", "attest"} = {}
  /\ AtSession \cap {"quiesce", "quiesced"} = {}
BY DEF AtSession, Venturing, Opening, Asking, Tending, Elsewhere, Building, Creating,
       Closing, Winding, Freezes, Objected, Emptied, Finals

\* A step of a session, which has the site to itself.
LEMMA SessionKeeps ==
  ASSUME LInv, Advanced, UNCHANGED <<life, site>>,
         Gateways \in site.running, site.objects = Objects
  PROVE  LInv'
<1>1. Sound' /\ proc'.at \in AtSession
  BY SoundStays DEF LInv, Advanced, Landed
<1>2. /\ \A s \in Services : life.leg[s] = "none"
      /\ ~Whole /\ life.attested # "full" /\ site.public # "complete"
  BY NothingCopied DEF LInv
<1>3. life' = life /\ site' = site
  OBVIOUS
<1>4. Fits'
  BY <1>1, <1>3, SessionPlaces DEF Fits
<1>5. Rests'
  <2>1. Tracks \subseteq Objects
    BY Indices
  <2>2. /\ ~Bound' \/ site'.profile = "absent" => site'.objects = {}
    BY <1>3 DEF LInv, Rests, Bound
  <2>3. \A t \in Tracks : host'.driver[t] \in Running => t \in site'.objects
    BY <1>3, <2>1
  <2>4. life'.after = "same" => ~site'.drift
    BY <1>3 DEF LInv, Rests
  <2>5. /\ \A s \in Services : life'.leg[s] = "none"
        /\ life'.attested # "full" /\ site'.public # "complete"
    BY <1>2, <1>3
  <2> QED BY <2>2, <2>3, <2>4, <2>5 DEF Rests
<1> QED BY <1>1, <1>3, <1>4, <1>5 DEF LInv

LEMMA InSession ==
  ASSUME LInv, proc.at \in AtSession \ {"off", "collect"}
  PROVE  Gateways \in site.running /\ site.objects = Objects
BY DEF LInv, Fits

LEMMA ProgramPlaces ==
  ASSUME Program
  PROVE  proc.at \in AtSession \ {"off", "collect"}
<1>1. CASE Readiness
  BY <1>1 DEF Readiness, StartIntent, Spawn, StartComplete, ReadReady, SetComplete, Cancel,
              CancelExit, DiagnosticComplete, At, AtSession, Venturing, Opening, Tending,
              Elsewhere
<1>2. CASE ReadinessFailing
  BY <1>2 DEF ReadinessFailing, FailCancel, FailExit, FailStop, FailStopped, FailCleanup,
              FailCleaned, FailRecord, At, AtSession, Tending, Elsewhere
<1>3. CASE Requests
  BY <1>3 DEF Requests, Claim, Instruct, Deliver, ReadResult, SaveResult, Result, SaveRecord,
              Record, Complete, At, AtSession, Venturing, Asking
<1>4. CASE RunFailing
  BY <1>4 DEF RunFailing, RunClose, RunCancel, RunExit, RunRecover, RunAgain, RunCleaned,
              RunFallback, At, AtSession, Venturing, Tending
<1> QED BY <1>1, <1>2, <1>3, <1>4 DEF Program

LEMMA ProgramKeeps ==
  ASSUME LInv, Program, UNCHANGED <<life, site>>
  PROVE  LInv'
<1>1. Advanced
  BY ProgramAdvances DEF LInv
<1> QED BY <1>1, ProgramPlaces, InSession, SessionKeeps

LEMMA UseKeeps ==
  ASSUME LInv, NEW cmd \in {"readiness", "run"}, Use(cmd)
  PROVE  LInv'
<1>1. Advanced
  BY BeginAdvances DEF LInv, Use
<1>2. Gateways \in site.running /\ site.objects = Objects
  BY DEF Use, Serving, Services
<1> QED BY <1>1, <1>2, SessionKeeps DEF Use

\* A driver that runs, or ended running, has nothing copied behind its back.
LEMMA DriversKeep ==
  ASSUME LInv, Drivers, UNCHANGED <<life, site>>
  PROVE  LInv'
<1>1. Sound'
  BY DriversMove, SoundStays DEF LInv
<1>2. /\ log' = log /\ proc' = proc /\ life' = life /\ site' = site
      /\ \A t \in Tracks : host'.driver[t] \in Running => host.driver[t] \in Running
      /\ ~Quiet
  BY DriversMove DEF LInv, Quiet
<1>3. /\ \A s \in Services : life.leg[s] = "none"
      /\ ~Whole /\ life.attested # "full" /\ site.public # "complete"
  BY <1>2, NothingCopied DEF LInv
<1>4. Fits'
  <2>1. proc.at \notin Winding
    BY <1>2 DEF LInv, Fits
  <2>2. "attest" \in Winding
    BY DEF Winding, Objected
  <2> QED BY <1>2, <2>1, <2>2 DEF LInv, Fits, Up
<1>5. Rests'
  <2>1. ~Bound' \/ site'.profile = "absent" => site'.objects = {}
    BY <1>2 DEF LInv, Rests, Bound
  <2>2. \A t \in Tracks : host'.driver[t] \in Running => t \in site'.objects
    BY <1>2 DEF LInv, Rests
  <2>3. life'.after = "same" => ~site'.drift
    BY <1>2 DEF LInv, Rests
  <2>4. /\ \A s \in Services : life'.leg[s] = "none"
        /\ life'.attested # "full" /\ site'.public # "complete"
    BY <1>2, <1>3
  <2> QED BY <2>1, <2>2, <2>3, <2>4 DEF Rests
<1> QED BY <1>1, <1>2, <1>4, <1>5 DEF LInv
----------------------------------------------------------------------------
(***************************************************************************)
(* The steps of `up` and of `down`, by the place they lead to.             *)
(***************************************************************************)
LifePlaces == {"off", "collect", "load"} \cup Building \cup Closing \cup Winding
Leads ==
  /\ proc' \in Processes /\ proc'.at \in LifePlaces
  /\ proc'.at \in Closing => proc'.t \in Tracks
  /\ Fits'

LEMMA LifePlacesApart ==
  /\ LifePlaces \subseteq Places
  /\ LifePlaces \cap Venturing = {} /\ LifePlaces \cap Tending = {}
  /\ LifePlaces \cap (AtSession \ {"off", "collect"}) = {}
<1>1. "off" \in AtSession /\ "collect" \in AtSession
  BY DEF AtSession, Elsewhere
<1>2. LifePlaces \subseteq Places
  BY <1>1 DEF LifePlaces, Places
<1>3. AtSession \cap Building = {} /\ AtSession \cap Closing = {} /\ AtSession \cap Winding = {}
  BY SessionPlaces
<1>4. "load" \notin AtSession
  BY DEF AtSession, Venturing, Opening, Asking, Tending, Elsewhere
<1>5. {"off", "collect"} \cap Venturing = {} /\ {"off", "collect"} \cap Tending = {}
  BY DEF Venturing, Opening, Asking, Tending
<1>6. Venturing \subseteq AtSession /\ Tending \subseteq AtSession
  BY DEF AtSession
<1>7. LifePlaces \cap AtSession \subseteq {"off", "collect"}
  BY <1>3, <1>4 DEF LifePlaces
<1> QED BY <1>2, <1>5, <1>6, <1>7

LEMMA LedIsOnCourse ==
  ASSUME Leads
  PROVE  OnCourse'
<1>1. proc'.at \notin Venturing /\ proc'.at \notin Tending
  BY LifePlacesApart DEF Leads
<1>2. proc'.at \notin Opening /\ proc'.at \notin Asking /\ proc'.at # "run_close"
  BY <1>1 DEF Venturing
<1>3. Holding \subseteq Asking /\ "spawn" \in Opening /\ "claim" \in Asking
      /\ "instruct" \in Asking /\ "deliver" \in Asking
  BY DEF Holding, Opening, Asking
<1> QED BY <1>1, <1>2, <1>3 DEF OnCourse, Course, Leads

LEMMA StepKeeps ==
  ASSUME LInv, (\E u \in Tracks : Moves(u)) \/ Rebooted,
         Leads, life' \in Lives, site' \in Sites, Rests'
  PROVE  LInv'
<1>1. Sound'
  BY LedIsOnCourse, SoundStays DEF LInv
<1> QED BY <1>1 DEF LInv, Leads

\* A step that tells nothing else about what is so anywhere.
LEMMA RestsStay ==
  ASSUME Rests, log' = log, host' = host, life'.stage = life.stage, life'.leg = life.leg,
         life'.attested = life.attested, life'.after = life.after,
         site'.profile = site.profile, site'.objects = site.objects,
         site'.running = site.running, site'.kept = site.kept, site'.public = site.public,
         site'.drift = site.drift
  PROVE  Rests'
BY DEF Rests, Bound, Up, Quiet, Sent, Whole, AllCompleted, Copied

LEMMA StepAside ==
  ASSUME LInv, log' = log, host' = host, Leads, life' \in Lives, site' \in Sites,
         life'.stage = life.stage, life'.leg = life.leg,
         life'.attested = life.attested, life'.after = life.after,
         site'.profile = site.profile, site'.objects = site.objects,
         site'.running = site.running, site'.kept = site.kept, site'.public = site.public,
         site'.drift = site.drift
  PROVE  LInv'
<1>1. Rests'
  BY RestsStay DEF LInv
<1>2. \E u \in Tracks : Moves(u)
  BY Nothing DEF LInv, Sound, STypeOK
<1> QED BY <1>1, <1>2, StepKeeps

\* Where each group of places is not.
LEMMA Groups ==
  /\ Building \cap Closing = {} /\ Building \cap Winding = {} /\ Closing \cap Winding = {}
  /\ {"off", "collect", "load", "strand"} \cap Building = {}
  /\ {"off", "collect", "load", "strand"} \cap Winding = {}
  /\ {"quiesce", "quiesced"} \subseteq Closing
  /\ "leg_end" \in Freezes /\ "attest" \in Objected
  /\ Creating \subseteq Building /\ {"up_owned", "up_bind"} \subseteq Building
  /\ Freezes \subseteq Winding /\ Objected \subseteq Winding
  /\ Emptied \subseteq Winding /\ Finals \subseteq Winding
  /\ Freezes \cap Objected = {} /\ Freezes \cap Emptied = {} /\ Freezes \cap Finals = {}
  /\ Objected \cap Emptied = {} /\ Objected \cap Finals = {} /\ Emptied \cap Finals = {}
  /\ {"prepare", "attest"} \subseteq Objected
BY DEF Building, Creating, Closing, Winding, Freezes, Objected, Emptied, Finals

LEMMA TypedPlaces ==
  /\ {"up_create", "up_created"} \subseteq Creating /\ {"remove", "removed"} \subseteq Objected
  /\ {"stop_service", "stopped_service"} \subseteq Objected /\ {"leg", "leg_end"} \subseteq Freezes
BY DEF Creating, Objected, Freezes

LEMMA FitsIdle ==
  ASSUME proc'.at \in {"off", "collect", "load", "strand"}
  PROVE  Fits'
<1>1. /\ proc'.at \notin Building /\ proc'.at \notin Winding
      /\ proc'.at \notin {"quiesce", "quiesced"}
      /\ proc'.at \notin AtSession \ {"off", "collect"}
  <2>1. "load" \notin AtSession /\ "strand" \notin AtSession
    BY DEF AtSession, Venturing, Opening, Asking, Tending, Elsewhere
  <2> QED BY <2>1, Groups
<1> QED BY <1>1, Groups, TypedPlaces DEF Fits

LEMMA FitsBuilding ==
  ASSUME proc'.at \in Building, life'.stage = StageAt[proc'.at],
         proc'.at \in {"up_owned", "up_bind"} \cup Creating => site'.profile = "running",
         proc'.at \in {"up_create", "up_created"} => proc'.t \in Objects
  PROVE  Fits'
<1>1. /\ proc'.at \notin Winding /\ proc'.at \notin Closing /\ proc'.at \notin AtSession
  BY Groups, SessionPlaces
<1>2. /\ proc'.at \notin Freezes /\ proc'.at \notin Objected /\ proc'.at \notin Emptied
      /\ proc'.at \notin Finals
  BY <1>1, Groups
<1>3. proc'.at \notin {"quiesce", "quiesced"} /\ proc'.at \notin {"prepare", "attest"}
  BY <1>1, <1>2, Groups
<1>4. /\ proc'.at \notin {"stop_service", "stopped_service", "leg", "leg_end"}
      /\ proc'.at \notin {"remove", "removed"}
  BY <1>2, TypedPlaces
<1> QED BY <1>1, <1>2, <1>3, <1>4 DEF Fits

LEMMA FitsQuiescing ==
  ASSUME proc'.at \in {"quiesce", "quiesced"},
         \A t \in Tracks : t < proc'.t => host'.driver[t] \notin Running
  PROVE  Fits'
<1>1. proc'.at \notin Winding /\ proc'.at \notin Building /\ proc'.at \notin AtSession
  BY Groups, SessionPlaces
<1>2. /\ proc'.at \notin Freezes /\ proc'.at \notin Objected /\ proc'.at \notin Emptied
      /\ proc'.at \notin Finals /\ proc'.at \notin Creating
  BY <1>1, Groups
<1> QED BY <1>1, <1>2, Groups, TypedPlaces DEF Fits

LEMMA FitsFreeze ==
  ASSUME proc'.at \in Freezes, Up', Gateways \notin site'.running, Quiet',
         proc'.at \in {"leg", "leg_end"} => proc'.t \in Services,
         proc'.at = "leg_end" => life'.leg[proc'.t] = "bytes"
  PROVE  Fits'
<1>1. proc'.at \in Winding
  BY Groups
<1>2. /\ proc'.at \notin Building /\ proc'.at \notin AtSession /\ proc'.at \notin Closing
      /\ proc'.at \notin Objected /\ proc'.at \notin Emptied /\ proc'.at \notin Finals
  BY <1>1, Groups, SessionPlaces
<1>3. proc'.at \notin {"quiesce", "quiesced"} /\ proc'.at \notin Creating
  BY <1>2, Groups
<1> QED BY <1>1, <1>2, <1>3, Groups, TypedPlaces DEF Fits

LEMMA FitsObjected ==
  ASSUME proc'.at \in Objected, Quiet',
         proc'.at \in {"remove", "removed"} => proc'.t \in Objects,
         proc'.at \in {"stop_service", "stopped_service"} => proc'.t \in Services,
         proc'.at \in {"prepare", "attest"} => Up',
         proc'.at = "attest" /\ proc'.told => Whole'
  PROVE  Fits'
<1>1. proc'.at \in Winding
  BY Groups
<1>2. /\ proc'.at \notin Building /\ proc'.at \notin AtSession /\ proc'.at \notin Closing
      /\ proc'.at \notin Freezes /\ proc'.at \notin Emptied /\ proc'.at \notin Finals
  BY <1>1, Groups, SessionPlaces
<1>3. proc'.at \notin {"quiesce", "quiesced"} /\ proc'.at \notin Creating
  BY <1>2, Groups
<1> QED BY <1>1, <1>2, <1>3, Groups, TypedPlaces DEF Fits

LEMMA FitsEmptied ==
  ASSUME proc'.at \in Emptied \cup Finals, Quiet', site'.objects = {},
         proc'.at \in Finals => site'.profile = "absent"
  PROVE  Fits'
<1>1. proc'.at \in Winding
  BY Groups
<1>2. /\ proc'.at \notin Building /\ proc'.at \notin AtSession /\ proc'.at \notin Closing
      /\ proc'.at \notin Freezes /\ proc'.at \notin Objected
  BY <1>1, Groups, SessionPlaces
<1>3. proc'.at \notin {"quiesce", "quiesced"} /\ proc'.at \notin Creating
  BY <1>2, Groups
<1> QED BY <1>1, <1>2, <1>3, Groups, TypedPlaces DEF Fits

LEMMA ToPlace ==
  ASSUME NEW p \in Processes, NEW place \in LifePlaces
  PROVE  /\ To(p, place) \in Processes /\ To(p, place).at = place /\ To(p, place).t = p.t
         /\ To(p, place).told = p.told /\ To(p, place).cmd = p.cmd
<1>1. place \in Places
  BY LifePlacesApart
<1> QED BY <1>1, Placed

LEMMA GonePlace ==
  ASSUME NEW p \in Processes, NEW place \in LifePlaces, NEW u \in Int
  PROVE  /\ Gone(p, place, u) \in Processes /\ Gone(p, place, u).at = place
         /\ Gone(p, place, u).t = u /\ Gone(p, place, u).told = p.told
<1>1. place \in Places
  BY LifePlacesApart
<1> QED BY <1>1, Moved
----------------------------------------------------------------------------
LEMMA Quits ==
  ASSUME proc' = Off
  PROVE  Leads
<1>1. "off" \in LifePlaces /\ "off" \notin Closing
  BY DEF LifePlaces, Closing
<1>2. proc'.at = "off" /\ proc' \in Processes
  BY OffIsCalm
<1>3. Fits'
  BY <1>2, FitsIdle
<1> QED BY <1>1, <1>2, <1>3 DEF Leads

LEMMA StartedAt ==
  ASSUME NEW cmd \in Cmds, NEW place \in LifePlaces
  PROVE  /\ Started(cmd, place) \in Processes /\ Started(cmd, place).at = place
         /\ Started(cmd, place).cmd = cmd
<1>1. place \in Places
  BY LifePlacesApart
<1> QED BY <1>1, OffIsCalm DEF Started, Processes

LEMMA Says ==
  ASSUME NEW new, NEW next, Say(new, next)
  PROVE  /\ life' \in {life, new}
         /\ (proc' = next /\ life' = new) \/ proc' = Off
BY DEF Say, AppendLife

\* Nothing has been copied, and nothing published, before `up` is through.
LEMMA BeforeUp ==
  ASSUME Rests, ~Up
  PROVE  /\ \A s \in Services : life.leg[s] = "none"
         /\ ~Whole /\ life.attested # "full" /\ site.public # "complete"
<1>1. \A s \in Services : life.leg[s] = "none"
  BY DEF Rests
<1>2. Gateways \in Services
  BY DEF Services
<1>3. ~Whole
  BY <1>1, <1>2 DEF Whole, Copied
<1> QED BY <1>1, <1>3 DEF Rests

LEMMA RestsBeforeUp ==
  ASSUME Rests, ~Up, log' = log, host' = host, life'.leg = life.leg,
         life'.attested = life.attested, life'.after = life.after,
         site'.public = site.public, site'.drift = site.drift, site.objects \subseteq site'.objects,
         ~Bound' \/ site'.profile = "absent" => site'.objects = {}
  PROVE  Rests'
<1>1. /\ \A s \in Services : life.leg[s] = "none"
      /\ life.attested # "full" /\ site.public # "complete"
  BY BeforeUp
<1>2. \A t \in Tracks : host'.driver[t] \in Running => t \in site'.objects
  BY DEF Rests
<1>3. life'.after = "same" => ~site'.drift
  BY DEF Rests
<1> QED BY <1>1, <1>2, <1>3 DEF Rests

LEMMA StageField ==
  ASSUME life \in Lives, NEW x \in Progress
  PROVE  /\ [life EXCEPT !.stage = x] \in Lives /\ [life EXCEPT !.stage = x].stage = x
         /\ [life EXCEPT !.stage = x].leg = life.leg
         /\ [life EXCEPT !.stage = x].attested = life.attested
         /\ [life EXCEPT !.stage = x].after = life.after
BY DEF Lives

\* An event by which `up` goes on to its next stage.
LEMMA StageKeeps ==
  ASSUME LInv, UNCHANGED <<log, host, site>>, ~Up, NEW x \in Progress, NEW next,
         Say([life EXCEPT !.stage = x], next),
         site.objects = {} \/ (Bound /\ x \in {"bound", "up"}),
         proc' = next /\ life'.stage = x => Leads
  PROVE  LInv'
<1>1. /\ life \in Lives /\ site \in Sites /\ Rests /\ host \in Hosts
  BY DEF LInv, Sound, STypeOK
<1>2. /\ life' \in {life, [life EXCEPT !.stage = x]}
      /\ (proc' = next /\ life' = [life EXCEPT !.stage = x]) \/ proc' = Off
  BY Says
<1>3. Leads
  BY <1>1, <1>2, Quits, StageField
<1>4. CASE life' = life
  BY <1>1, <1>3, <1>4, StepAside
<1>5. CASE life' = [life EXCEPT !.stage = x]
  <2>1. /\ life' \in Lives /\ life'.stage = x /\ life'.leg = life.leg
        /\ life'.attested = life.attested /\ life'.after = life.after
    BY <1>1, <1>5, StageField
  <2>2. ~Bound' \/ site'.profile = "absent" => site'.objects = {}
    BY <1>1, <2>1 DEF Rests, Bound
  <2>3. Rests'
    BY <1>1, <2>1, <2>2, RestsBeforeUp
  <2>4. \E u \in Tracks : Moves(u)
    BY <1>1, Nothing
  <2> QED BY <1>1, <1>3, <2>1, <2>3, <2>4, StepKeeps
<1> QED BY <1>2, <1>4, <1>5

LEMMA AtBuilding ==
  ASSUME LInv, proc.at \in Building
  PROVE  /\ life.stage = StageAt[proc.at] /\ proc \in Processes
         /\ proc.at \in {"up_owned", "up_bind"} \cup Creating => site.profile = "running"
         /\ proc.at \in {"up_create", "up_created"} => proc.t \in Objects
BY DEF LInv, Fits, Sound, STypeOK

LEMMA StageNames ==
  /\ StageAt["up_before"] = "journal" /\ StageAt["up_intent"] = "before"
  /\ StageAt["up_start"] = "start_intent" /\ StageAt["up_owned"] = "start_intent"
  /\ StageAt["up_bind"] = "owned" /\ StageAt["up_create"] = "bound"
  /\ StageAt["up_created"] = "bound" /\ StageAt["up_state"] = "bound"
  /\ StageAt["up_complete"] = "bound"
BY DEF StageAt

LEMMA BuildingPlaces ==
  /\ \A place \in {"up_before", "up_intent", "up_start", "up_owned", "up_bind", "up_create",
                   "up_created", "up_state", "up_complete"} :
       place \in Building /\ place \in LifePlaces /\ place \notin Closing
  /\ {"up_create", "up_created", "up_state", "up_complete"} \subseteq Creating
  /\ {"up_before", "up_intent", "up_start"} \cap ({"up_owned", "up_bind"} \cup Creating) = {}
BY DEF Building, Creating, LifePlaces, Closing

\* Arriving at a place of `up`.
LEMMA LedToBuilding ==
  ASSUME proc' \in Processes, NEW place \in Building, proc'.at = place,
         life'.stage = StageAt[place],
         place \in {"up_owned", "up_bind"} \cup Creating => site'.profile = "running",
         place \in {"up_create", "up_created"} => proc'.t \in Objects
  PROVE  Leads
<1>1. proc'.at \in LifePlaces /\ proc'.at \notin Closing
  BY Groups DEF LifePlaces
<1> QED BY <1>1, FitsBuilding DEF Leads

LEMMA UpBeginsKeeps ==
  ASSUME LInv, UpBegins
  PROVE  LInv'
<1>1. /\ life.stage = "none" /\ site' = site /\ UNCHANGED <<log, host, site>>
      /\ Say([life EXCEPT !.stage = "journal"], Started("up", "up_before"))
  BY DEF UpBegins
<1>2. ~Up /\ ~Bound /\ site.objects = {} /\ "journal" \in Progress
  BY <1>1 DEF Up, Bound, LInv, Rests, Progress
<1>3. /\ Started("up", "up_before") \in Processes
      /\ Started("up", "up_before").at = "up_before"
  BY BuildingPlaces, StartedAt DEF Cmds
<1>4. ASSUME proc' = Started("up", "up_before"), life'.stage = "journal"
      PROVE  Leads
  <2>1. "up_before" \in Building /\ "up_before" \notin ({"up_owned", "up_bind"} \cup Creating)
    BY BuildingPlaces
  <2> QED BY <1>3, <1>4, <2>1, StageNames, LedToBuilding
<1> QED BY <1>1, <1>2, <1>4, StageKeeps
----------------------------------------------------------------------------
LEMMA Creates ==
  ASSUME NEW p \in Processes, NEW o \in Objects
  PROVE  /\ Gone(p, "up_create", o) \in Processes /\ Gone(p, "up_create", o).at = "up_create"
         /\ Gone(p, "up_create", o).t = o
<1>1. o \in Int
  BY Indices
<1>2. "up_create" \in LifePlaces
  BY BuildingPlaces
<1> QED BY <1>1, <1>2, GonePlace

\* The steps of `up` that are taken once the profile runs.
LEMMA UpEventsKeep ==
  ASSUME LInv, UpEvents, UNCHANGED <<log, host, site>>
  PROVE  LInv'
<1>0. /\ life \in Lives /\ site \in Sites /\ Rests /\ proc \in Processes
      /\ Networks \in Objects /\ Networks \in Int
  BY Indices DEF LInv, Sound, STypeOK, Objects
<1>1. CASE At("up_before")
  <2>1. /\ Say([life EXCEPT !.stage = "before"], To(proc, "up_intent")) /\ life.stage = "journal"
    BY <1>1, AtBuilding, StageNames, BuildingPlaces DEF UpEvents, At
  <2>2. ~Up /\ site.objects = {} /\ "before" \in Progress
    BY <1>0, <2>1 DEF Up, Bound, Rests, Progress
  <2>3. ASSUME proc' = To(proc, "up_intent"), life'.stage = "before" PROVE Leads
    <3>1. proc' \in Processes /\ proc'.at = "up_intent"
      BY <1>0, <2>3, ToPlace, BuildingPlaces
    <3>2. "up_intent" \in Building /\ StageAt["up_intent"] = "before"
      BY BuildingPlaces, StageNames
    <3> QED BY <2>3, <3>1, <3>2, BuildingPlaces, LedToBuilding
  <2> QED BY <2>1, <2>2, <2>3, StageKeeps
<1>2. CASE At("up_intent")
  <2>1. /\ Say([life EXCEPT !.stage = "start_intent"], To(proc, "up_start"))
        /\ life.stage = "before"
    BY <1>2, AtBuilding, StageNames, BuildingPlaces DEF UpEvents, At
  <2>2. ~Up /\ site.objects = {} /\ "start_intent" \in Progress
    BY <1>0, <2>1 DEF Up, Bound, Rests, Progress
  <2>3. ASSUME proc' = To(proc, "up_start"), life'.stage = "start_intent" PROVE Leads
    <3>1. proc' \in Processes /\ proc'.at = "up_start"
      BY <1>0, <2>3, ToPlace, BuildingPlaces
    <3>2. "up_start" \in Building /\ StageAt["up_start"] = "start_intent"
      BY BuildingPlaces, StageNames
    <3> QED BY <2>3, <3>1, <3>2, BuildingPlaces, LedToBuilding
  <2> QED BY <2>1, <2>2, <2>3, StageKeeps
<1>3. CASE At("up_owned")
  <2>1. /\ Say([life EXCEPT !.stage = "owned"], To(proc, "up_bind"))
        /\ life.stage = "start_intent" /\ site.profile = "running"
    BY <1>3, AtBuilding, StageNames, BuildingPlaces DEF UpEvents, At
  <2>2. ~Up /\ site.objects = {} /\ "owned" \in Progress
    BY <1>0, <2>1 DEF Up, Bound, Rests, Progress
  <2>3. ASSUME proc' = To(proc, "up_bind"), life'.stage = "owned" PROVE Leads
    <3>1. proc' \in Processes /\ proc'.at = "up_bind"
      BY <1>0, <2>3, ToPlace, BuildingPlaces
    <3>2. "up_bind" \in Building /\ StageAt["up_bind"] = "owned"
      BY BuildingPlaces, StageNames
    <3> QED BY <2>1, <2>3, <3>1, <3>2, BuildingPlaces, LedToBuilding
  <2> QED BY <2>1, <2>2, <2>3, StageKeeps
<1>4. CASE At("up_bind")
  <2>1. /\ Say([life EXCEPT !.stage = "bound"], Gone(proc, "up_create", Networks))
        /\ life.stage = "owned" /\ site.profile = "running"
    BY <1>4, AtBuilding, StageNames, BuildingPlaces DEF UpEvents, At, Gone
  <2>2. ~Up /\ site.objects = {} /\ "bound" \in Progress
    BY <1>0, <2>1 DEF Up, Bound, Rests, Progress
  <2>3. ASSUME proc' = Gone(proc, "up_create", Networks), life'.stage = "bound" PROVE Leads
    <3>1. proc' \in Processes /\ proc'.at = "up_create" /\ proc'.t \in Objects
      BY <1>0, <2>3, Creates
    <3> QED BY <2>1, <2>3, <3>1, BuildingPlaces, StageNames, LedToBuilding
  <2> QED BY <2>1, <2>2, <2>3, StageKeeps
<1>5. CASE At("up_create")
  <2>1. /\ Say([life EXCEPT !.created[Here] = "pending"], To(proc, "up_created"))
        /\ life.stage = "bound" /\ site.profile = "running" /\ Here \in Objects
    BY <1>5, AtBuilding, StageNames, BuildingPlaces DEF UpEvents, At, Here
  <2>2. /\ life' \in {life, [life EXCEPT !.created[Here] = "pending"]}
        /\ proc' = To(proc, "up_created") \/ proc' = Off
    BY <2>1, Says
  <2>3. /\ life' \in Lives /\ life'.stage = life.stage /\ life'.leg = life.leg
        /\ life'.attested = life.attested /\ life'.after = life.after
    BY <1>0, <2>1, <2>2 DEF Lives, Steps
  <2>4. Leads
    <3>1. ASSUME proc' = To(proc, "up_created") PROVE Leads
      <4>1. proc' \in Processes /\ proc'.at = "up_created" /\ proc'.t \in Objects
        BY <1>0, <2>1, <3>1, ToPlace, BuildingPlaces DEF Here
      <4> QED BY <2>1, <2>3, <4>1, BuildingPlaces, StageNames, LedToBuilding
    <3> QED BY <2>2, <3>1, Quits
  <2> QED BY <1>0, <2>3, <2>4, StepAside
<1>6. CASE At("up_complete")
  <2>1. Say([life EXCEPT !.stage = "up"], Off) /\ life.stage = "bound"
    BY <1>6, AtBuilding, StageNames, BuildingPlaces DEF UpEvents, At
  <2>2. ~Up /\ Bound /\ "up" \in Progress
    BY <2>1 DEF Up, Bound, Progress
  <2>3. proc' = Off => Leads
    BY Quits
  <2> QED BY <2>1, <2>2, <2>3, StageKeeps
<1> QED BY <1>1, <1>2, <1>3, <1>4, <1>5, <1>6 DEF UpEvents

LEMMA UpStartKeeps ==
  ASSUME LInv, UpStart
  PROVE  LInv'
<1>0. /\ life \in Lives /\ site \in Sites /\ Rests /\ proc \in Processes /\ host \in Hosts
      /\ life.stage = "start_intent" /\ UNCHANGED <<log, host, life>>
  BY AtBuilding, StageNames, BuildingPlaces DEF LInv, Sound, STypeOK, UpStart, At
<1>1. ~Up /\ ~Bound
  BY <1>0 DEF Up, Bound
<1>2. /\ site' \in Sites /\ site'.objects = site.objects /\ site'.public = site.public
      /\ site'.drift = site.drift
  BY <1>0 DEF UpStart, Sites
<1>3. Rests'
  BY <1>0, <1>1, <1>2, RestsBeforeUp DEF Rests, Bound
<1>4. Leads
  <2>1. CASE proc' = Off
    BY <2>1, Quits
  <2>2. CASE proc' = To(proc, "up_owned") /\ site' = [site EXCEPT !.profile = "running"]
    <3>1. site'.profile = "running"
      BY <1>0, <2>2 DEF Sites
    <3>2. proc' \in Processes /\ proc'.at = "up_owned"
      BY <1>0, <2>2, ToPlace, BuildingPlaces
    <3>3. "up_owned" \in Building /\ StageAt["up_owned"] = "start_intent"
      BY BuildingPlaces, StageNames
    <3> QED BY <1>0, <3>1, <3>2, <3>3, LedToBuilding
  <2> QED BY <2>1, <2>2 DEF UpStart
<1>5. \E u \in Tracks : Moves(u)
  BY <1>0, Nothing
<1> QED BY <1>0, <1>2, <1>3, <1>4, <1>5, StepKeeps

LEMMA UpCreatedKeeps ==
  ASSUME LInv, UpCreated
  PROVE  LInv'
<1> DEFINE
     next == IF Here = 1 THEN To(proc, "up_state") ELSE Gone(proc, "up_create", Here - 1)
     new == [life EXCEPT !.created[Here] = "complete"]
<1>0. /\ life \in Lives /\ site \in Sites /\ Rests /\ proc \in Processes /\ host \in Hosts
      /\ life.stage = "bound" /\ site.profile = "running" /\ Here \in Objects
      /\ UNCHANGED <<log, host>>
  BY AtBuilding, StageNames, BuildingPlaces DEF LInv, Sound, STypeOK, UpCreated, At, Here
<1>1. ~Up /\ Bound
  BY <1>0 DEF Up, Bound
<1>2. /\ site' \in Sites /\ site.objects \subseteq site'.objects /\ site'.public = site.public
      /\ site'.drift = site.drift /\ site'.profile = site.profile
  <2>1. site' = [site EXCEPT !.objects = @ \cup {Here},
                             !.running = @ \cup ({Here} \cap Services)]
    BY DEF UpCreated
  <2> QED BY <1>0, <2>1 DEF Sites
<1>3. /\ life' \in {life, new}
      /\ proc' = next \/ proc' = Off
  <2>1. Say(new, next)
    BY DEF UpCreated, Gone
  <2> HIDE DEF new, next
  <2> QED BY <2>1, Says
<1>4. /\ life' \in Lives /\ life'.stage = life.stage /\ life'.leg = life.leg
      /\ life'.attested = life.attested /\ life'.after = life.after
  BY <1>0, <1>3 DEF Lives, Steps
<1>5. Rests'
  BY <1>0, <1>1, <1>2, <1>4, RestsBeforeUp DEF Bound
<1>6. Leads
  <2>1. CASE proc' = Off
    BY <2>1, Quits
  <2>2. CASE proc' = To(proc, "up_state")
    <3>1. proc' \in Processes /\ proc'.at = "up_state"
      BY <1>0, <2>2, ToPlace, BuildingPlaces
    <3>2. "up_state" \in Building /\ StageAt["up_state"] = "bound"
      BY BuildingPlaces, StageNames
    <3> QED BY <1>0, <1>2, <1>4, <3>1, <3>2, LedToBuilding
  <2>3. CASE Here # 1 /\ proc' = Gone(proc, "up_create", Here - 1)
    <3>1. Here - 1 \in Objects /\ Here - 1 \in Int
      BY <1>0, <2>3, NumTracksAssumption DEF Objects, Networks
    <3>2. proc' \in Processes /\ proc'.at = "up_create" /\ proc'.t \in Objects
      BY <1>0, <2>3, <3>1, Creates
    <3> QED BY <1>0, <1>2, <1>4, <3>2, BuildingPlaces, StageNames, LedToBuilding
  <2> QED BY <1>3, <2>1, <2>2, <2>3
<1>7. \E u \in Tracks : Moves(u)
  BY <1>0, Nothing
<1> QED BY <1>0, <1>2, <1>4, <1>5, <1>6, <1>7, StepKeeps

LEMMA UpStateKeeps ==
  ASSUME LInv, UpState
  PROVE  LInv'
<1>0. /\ life \in Lives /\ site \in Sites /\ proc \in Processes
      /\ life.stage = "bound" /\ site.profile = "running"
      /\ UNCHANGED <<log, host, life>> /\ proc' = To(proc, "up_complete")
      /\ site' = [site EXCEPT !.state = TRUE]
  BY AtBuilding, StageNames, BuildingPlaces DEF LInv, Sound, STypeOK, UpState, At
<1>1. /\ site' \in Sites /\ site'.profile = site.profile /\ site'.objects = site.objects
      /\ site'.running = site.running /\ site'.kept = site.kept /\ site'.public = site.public
      /\ site'.drift = site.drift
  BY <1>0 DEF Sites
<1>2. Leads
  <2>1. proc' \in Processes /\ proc'.at = "up_complete"
    BY <1>0, ToPlace, BuildingPlaces
  <2> QED BY <1>0, <1>1, <2>1, BuildingPlaces, StageNames, LedToBuilding
<1> QED BY <1>0, <1>1, <1>2, StepAside
----------------------------------------------------------------------------
(***************************************************************************)
(* Events and effects that what is so in a lifecycle does not depend on.   *)
(***************************************************************************)
Beside(new) ==
  /\ new \in Lives /\ new.stage = life.stage /\ new.leg = life.leg
  /\ new.attested = life.attested /\ new.after = life.after
Around(new) ==
  /\ new \in Sites /\ new.profile = site.profile /\ new.objects = site.objects
  /\ new.running = site.running /\ new.kept = site.kept /\ new.public = site.public
  /\ new.drift = site.drift

LEMMA SaysBeside ==
  ASSUME LInv, log' = log, host' = host, Around(site'), NEW new, NEW next, Beside(new),
         Say(new, next), proc' = next /\ life' = new => Leads
  PROVE  LInv'
<1>1. /\ life' \in {life, new}
      /\ (proc' = next /\ life' = new) \/ proc' = Off
  BY Says
<1>2. Leads
  BY <1>1, Quits
<1>3. Beside(life')
  BY <1>1 DEF Beside, LInv
<1> QED BY <1>2, <1>3, StepAside DEF Beside, Around

LEMMA SilentBeside ==
  ASSUME LInv, log' = log, host' = host, Around(site'), life' = life, Leads
  PROVE  LInv'
BY StepAside DEF Around, LInv

LEMMA Unmoved ==
  ASSUME LInv
  PROVE  Around(site) /\ Beside(life)
BY DEF Around, Beside, LInv

LEMMA BesideFields ==
  ASSUME LInv
  PROVE  /\ \A x \in {"none", "collected", "complete", "incomplete"} :
              Beside([life EXCEPT !.evidence = x])
         /\ \A x \in {"none", "intent", "prepared"} : Beside([life EXCEPT !.failure = x])
         /\ \A x \in {"none", "intent", "complete"} : Beside([life EXCEPT !.deletion = x])
         /\ \A x \in {"none", "started", "complete"} : Beside([life EXCEPT !.freeze = x])
         /\ \A x \in Classes : Beside([life EXCEPT !.intent = x])
         /\ Beside([life EXCEPT !.topology = TRUE]) /\ Beside([life EXCEPT !.published = TRUE])
         /\ \A s \in Services, x \in Steps : Beside([life EXCEPT !.stops[s] = x])
         /\ \A o \in Objects, x \in Steps : Beside([life EXCEPT !.removed[o] = x])
         /\ \A f \in [Objects -> Steps] : Beside([life EXCEPT !.removed = f])
         /\ \A x \in Classes \cup {"broken"} : Around([site EXCEPT !.provisional = x])
         /\ \A x \in BOOLEAN : Around([site EXCEPT !.state = x])
         /\ \A x, y \in BOOLEAN : Around([site EXCEPT !.archived = x, !.state = y])
<1>1. life \in Lives /\ site \in Sites
  BY DEF LInv
<1>2. /\ \A x \in {"none", "collected", "complete", "incomplete"} :
              Beside([life EXCEPT !.evidence = x])
      /\ \A x \in {"none", "intent", "prepared"} : Beside([life EXCEPT !.failure = x])
      /\ \A x \in {"none", "intent", "complete"} : Beside([life EXCEPT !.deletion = x])
  <2>1. \A x \in {"none", "collected", "complete", "incomplete"} :
          Beside([life EXCEPT !.evidence = x])
    BY <1>1 DEF Lives, Beside
  <2>2. \A x \in {"none", "intent", "prepared"} : Beside([life EXCEPT !.failure = x])
    BY <1>1 DEF Lives, Beside
  <2>3. \A x \in {"none", "intent", "complete"} : Beside([life EXCEPT !.deletion = x])
    BY <1>1 DEF Lives, Beside
  <2> QED BY <2>1, <2>2, <2>3
<1>3. /\ \A x \in {"none", "started", "complete"} : Beside([life EXCEPT !.freeze = x])
      /\ \A x \in Classes : Beside([life EXCEPT !.intent = x])
      /\ Beside([life EXCEPT !.topology = TRUE]) /\ Beside([life EXCEPT !.published = TRUE])
  <2>1. \A x \in {"none", "started", "complete"} : Beside([life EXCEPT !.freeze = x])
    BY <1>1 DEF Lives, Beside
  <2>2. \A x \in Classes : Beside([life EXCEPT !.intent = x])
    BY <1>1 DEF Lives, Beside
  <2>3. Beside([life EXCEPT !.topology = TRUE]) /\ Beside([life EXCEPT !.published = TRUE])
    BY <1>1 DEF Lives, Beside
  <2> QED BY <2>1, <2>2, <2>3
<1>4. \A s \in Services, x \in Steps : Beside([life EXCEPT !.stops[s] = x])
  BY <1>1 DEF Lives, Beside
<1>5. \A o \in Objects, x \in Steps : Beside([life EXCEPT !.removed[o] = x])
  BY <1>1 DEF Lives, Beside
<1>6. \A f \in [Objects -> Steps] : Beside([life EXCEPT !.removed = f])
  BY <1>1 DEF Lives, Beside
<1>7. \A x \in Classes \cup {"broken"} : Around([site EXCEPT !.provisional = x])
  BY <1>1 DEF Sites, Around
<1>8. \A x \in BOOLEAN : Around([site EXCEPT !.state = x])
  BY <1>1 DEF Sites, Around
<1>9. \A x, y \in BOOLEAN : Around([site EXCEPT !.archived = x, !.state = y])
  BY <1>1 DEF Sites, Around
<1> QED BY <1>2, <1>3, <1>4, <1>5, <1>6, <1>7, <1>8, <1>9

\* Arriving where nothing in particular is so.
LEMMA LedAnywhere ==
  ASSUME proc' \in Processes, proc'.at \in {"off", "collect", "load", "strand"},
         proc'.at = "strand" => proc'.t \in Tracks
  PROVE  Leads
<1>1. proc'.at \in LifePlaces
  BY DEF LifePlaces, Closing
<1>2. proc'.at \in Closing => proc'.at = "strand"
  BY DEF Closing
<1> QED BY <1>1, <1>2, FitsIdle DEF Leads

LEMMA CollectKeeps ==
  ASSUME LInv, CollectBegins \/ Collect
  PROVE  LInv'
<1>1. CASE CollectBegins
  <2>1. /\ proc' = Started("collect", "collect") /\ UNCHANGED <<log, host, life, site>>
    BY <1>1 DEF CollectBegins
  <2>2. "collect" \in Cmds /\ "collect" \in LifePlaces
    BY DEF Cmds, LifePlaces
  <2>3. Leads
    BY <2>1, <2>2, StartedAt, LedAnywhere
  <2> QED BY <2>1, <2>3, Unmoved, SilentBeside
<1>2. CASE Collect
  <2>1. /\ log' = log /\ host' = host
        /\ \/ site' = [site EXCEPT !.provisional = "complete"]
              /\ Say([life EXCEPT !.evidence = "collected"], Off)
           \/ Silently(Off) /\ site' = site
    BY <1>2 DEF Collect, Raise
  <2>2. proc' = Off => Leads
    BY Quits
  <2>3. /\ Around([site EXCEPT !.provisional = "complete"])
        /\ Beside([life EXCEPT !.evidence = "collected"])
    BY BesideFields DEF Classes
  <2>4. CASE Silently(Off) /\ site' = site
    BY <2>1, <2>2, <2>4, Unmoved, SilentBeside DEF Silently
  <2> QED BY <2>1, <2>2, <2>3, <2>4, SaysBeside
<1> QED BY <1>1, <1>2

\* Nothing runs where nothing is.
LEMMA NothingIsQuiet ==
  ASSUME Rests, site.objects = {}
  PROVE  Quiet
BY DEF Rests, Quiet

LEMMA FinalPlaces ==
  /\ \A place \in {"after", "judge", "fail_intent", "fail_prepare", "intend", "finalize",
                   "publish", "quarantine", "recheck", "archive"} : place \in Finals
  /\ \A place \in {"topology", "stop", "delete"} : place \in Emptied
  /\ \A place \in Winding : place \in LifePlaces /\ place \notin Closing
  /\ \A place \in Emptied \cup Finals : place \in Winding
BY Groups DEF Finals, Emptied, LifePlaces

\* Arriving where no object is left.
LEMMA LedToEmptied ==
  ASSUME proc' \in Processes, proc'.at \in Emptied \cup Finals, Quiet', site'.objects = {},
         proc'.at \in Finals => site'.profile = "absent"
  PROVE  Leads
<1>1. proc'.at \in LifePlaces /\ proc'.at \notin Closing
  BY FinalPlaces
<1> QED BY <1>1, FitsEmptied DEF Leads

LEMMA DownAbsentKeeps ==
  ASSUME LInv, DownAbsent
  PROVE  LInv'
<1>1. /\ site.profile = "absent" /\ UNCHANGED <<log, host, site>>
      /\ Say([life EXCEPT !.deletion = "complete"], Started("redown", "after"))
  BY DEF DownAbsent
<1>2. site.objects = {} /\ Quiet
  BY <1>1, NothingIsQuiet DEF LInv, Rests
<1>3. "redown" \in Cmds /\ "after" \in LifePlaces /\ "after" \in Finals
  BY FinalPlaces DEF Cmds
<1>4. proc' = Started("redown", "after") => Leads
  BY <1>1, <1>2, <1>3, StartedAt, LedToEmptied DEF Quiet
<1>5. Beside([life EXCEPT !.deletion = "complete"])
  BY BesideFields
<1> QED BY <1>1, <1>4, <1>5, Unmoved, SaysBeside

LEMMA DownPresentKeeps ==
  ASSUME LInv, DownPresent
  PROVE  LInv'
<1>1. /\ site.profile # "absent" /\ UNCHANGED <<log, host, life>>
      /\ proc' = Started("down", "load") /\ site' = [site EXCEPT !.profile = "running"]
  BY DEF DownPresent
<1>2. Leads
  <2>1. "down" \in Cmds /\ "load" \in LifePlaces
    BY DEF Cmds, LifePlaces
  <2> QED BY <1>1, <2>1, StartedAt, LedAnywhere
<1>3. /\ life \in Lives /\ site \in Sites /\ Rests /\ host \in Hosts
  BY DEF LInv, Sound, STypeOK
<1>4. /\ site' \in Sites /\ site'.objects = site.objects /\ site'.running = site.running
      /\ site'.kept = site.kept /\ site'.public = site.public /\ site'.drift = site.drift
      /\ site'.profile = "running"
  BY <1>1, <1>3 DEF Sites
<1>5. Rests'
  <2>1. site.public # "complete" /\ site'.public # "complete"
    BY <1>1, <1>3, <1>4 DEF Rests
  <2>2. ~Bound' \/ site'.profile = "absent" => site'.objects = {}
    BY <1>1, <1>3, <1>4 DEF Rests, Bound
  <2>3. /\ \A t \in Tracks : host'.driver[t] \in Running => t \in site'.objects
        /\ life'.after = "same" => ~site'.drift
    BY <1>1, <1>3, <1>4 DEF Rests
  <2>4. /\ \A s \in Services : life'.leg[s] # "none" =>
              Up' /\ Quiet' /\ Gateways \notin site'.running
        /\ \A s \in Services : life'.leg[s] \in {"bytes", "copied"} => site'.kept[s] = Sent'
        /\ life'.attested = "full" => Whole'
    BY <1>1, <1>3, <1>4 DEF Rests, Up, Quiet, Sent, Whole, AllCompleted, Copied
  <2> QED BY <2>1, <2>2, <2>3, <2>4 DEF Rests
<1>6. \E u \in Tracks : Moves(u)
  BY <1>1, <1>3, Nothing
<1> QED BY <1>1, <1>2, <1>3, <1>4, <1>5, <1>6, StepKeeps
----------------------------------------------------------------------------
(***************************************************************************)
(* The drivers, as `down` finds them and leaves them.                      *)
(***************************************************************************)
\* What is completed stays so, and nothing sends where nothing runs.
LEMMA MovesAreFinal ==
  ASSUME log \in Logs, host \in Hosts, (\E u \in Tracks : Moves(u)) \/ Rebooted
  PROVE  /\ \A t \in Tracks : log.request[t] = "completed" => log'.request[t] = "completed"
         /\ Quiet => host'.sent = host.sent
<1>1. CASE Rebooted
  BY <1>1 DEF Rebooted, Hosts
<1>2. ASSUME NEW u \in Tracks, Moves(u)
      PROVE  /\ \A t \in Tracks : log.request[t] = "completed" => log'.request[t] = "completed"
             /\ Quiet => host'.sent = host.sent
  <2>1. CASE SaysOfRequest(u) /\ Untouched
    <3>1. PICK stage \in RequestStages \ {"not_attempted", "failed"} :
             log' = RequestEvent(u, stage) /\ RequestMay(u, stage)
      BY <2>1 DEF SaysOfRequest
    <3>2. log.request[u] # "completed"
      BY <3>1 DEF RequestMay, RequestStages
    <3>3. \A t \in Tracks : t # u => log'.request[t] = log.request[t]
      BY <3>1, RequestFields
    <3> QED BY <2>1, <3>2, <3>3 DEF Untouched
  <2>2. CASE SaysItFailed(u) /\ Untouched
    <3>1. PICK why \in Provenances \ {"none"} :
             log' = FailedEvent(u, why) /\ log.request[u] \in Pending
      BY <2>2 DEF SaysItFailed
    <3>2. log.request[u] # "completed"
      BY <3>1 DEF Pending
    <3>3. \A t \in Tracks : t # u => log'.request[t] = log.request[t]
      BY <3>1 DEF FailedEvent, Logs
    <3> QED BY <2>2, <3>2, <3>3 DEF Untouched
  <2>3. CASE SaysOfDriver(u) /\ Untouched
    <3>1. log'.request = log.request
      <4>1. PICK e \in Events : log' = DriverEvent(u, e)
        BY <2>3 DEF SaysOfDriver
      <4> QED BY <4>1, EventFields
    <3> QED BY <2>3, <3>1 DEF Untouched
  <2>4. CASE (log' = log \/ SaysOfSession) /\ Untouched
    <3>1. log'.request = log.request
      BY <2>4 DEF SaysOfSession, Logs
    <3> QED BY <2>4, <3>1 DEF Untouched
  <2>5. CASE Halted(u)
    <3>0. /\ DriverEvent(u, "stop_complete").request = log.request
          /\ DriverEvent(u, "stop_failed").request = log.request
      <4>1. "stop_complete" \in Events /\ "stop_failed" \in Events
        BY EventNames
      <4> QED BY <4>1, EventFields
    <3>1. log'.request = log.request
      BY <2>5, <3>0 DEF Halted
    <3>2. host'.sent = host.sent
      BY <2>5 DEF Halted, SetDriver, Hosts
    <3> QED BY <3>1, <3>2
  <2>6. CASE Spawned(u) \/ Told(u) \/ Ends(u)
    <3>1. log' = log /\ host'.sent = host.sent
      BY <2>6 DEF Spawned, Told, Ends, SetDriver, Hosts
    <3> QED BY <3>1
  <2>7. CASE Sends(u)
    BY <2>7 DEF Sends, Quiet, Running
  <2> QED BY <1>2, <2>1, <2>2, <2>3, <2>4, <2>5, <2>6, <2>7 DEF Moves, Writes
<1> QED BY <1>1, <1>2

\* A step that may close requests and end drivers, and starts nothing.
LEMMA RestsThrough ==
  ASSUME LInv, (\E u \in Tracks : Moves(u)) \/ Rebooted, Beside(life'),
         site'.objects = site.objects, site'.kept = site.kept, site'.public = site.public,
         site'.drift = site.drift, site'.running \subseteq site.running,
         site'.profile = "absent" <=> site.profile = "absent",
         \A t \in Tracks : host'.driver[t] \in Running => host.driver[t] \in Running
  PROVE  Rests'
<1>1. Rests /\ log \in Logs /\ host \in Hosts
  BY DEF LInv, Sound, STypeOK
<1>2. /\ \A t \in Tracks : log.request[t] = "completed" => log'.request[t] = "completed"
      /\ Quiet => host'.sent = host.sent
  BY <1>1, MovesAreFinal
<1>3. /\ life'.stage = life.stage /\ life'.leg = life.leg
      /\ life'.attested = life.attested /\ life'.after = life.after
  BY DEF Beside
<1>4. Quiet => Quiet' /\ Sent' = Sent
  BY <1>2 DEF Quiet, Sent
<1>5. Whole => Whole'
  BY <1>2, <1>3 DEF Whole, AllCompleted, Copied
<1>6. ~Bound' \/ site'.profile = "absent" => site'.objects = {}
  BY <1>1, <1>3 DEF Rests, Bound
<1>7. \A t \in Tracks : host'.driver[t] \in Running => t \in site'.objects
  BY <1>1 DEF Rests
<1>8. \A s \in Services : life'.leg[s] # "none" => Up' /\ Quiet' /\ Gateways \notin site'.running
  BY <1>1, <1>3, <1>4 DEF Rests, Up
<1>9. \A s \in Services : life'.leg[s] \in {"bytes", "copied"} => site'.kept[s] = Sent'
  <2> TAKE s \in Services
  <2> HAVE life'.leg[s] \in {"bytes", "copied"}
  <2>1. life.leg[s] # "none" /\ life.leg[s] \in {"bytes", "copied"}
    BY <1>3
  <2>2. Quiet /\ site.kept[s] = Sent
    BY <1>1, <2>1 DEF Rests
  <2> QED BY <1>4, <2>2
<1>10. /\ life'.attested = "full" => Whole'
       /\ life'.after = "same" => ~site'.drift
       /\ site'.public = "complete" =>
            life'.attested = "full" /\ life'.after = "same" /\ site'.profile = "absent"
  BY <1>1, <1>3, <1>5 DEF Rests
<1> QED BY <1>6, <1>7, <1>8, <1>9, <1>10 DEF Rests

LEMMA ClosingPlaces ==
  /\ \A place \in {"strand", "quiesce", "quiesced"} : place \in LifePlaces /\ place \in Closing
  /\ \A place \in {"partial", "stop_service", "stopped_service", "prepare", "attest", "reject",
                   "remove", "removed"} :
       place \in Objected /\ place \in LifePlaces /\ place \notin Closing
  /\ \A place \in {"freeze", "leg", "leg_end", "freeze_end"} :
       place \in Freezes /\ place \in LifePlaces /\ place \notin Closing
BY DEF LifePlaces, Closing, Objected, Winding, Freezes

\* Arriving at the services, once no driver runs.
LEMMA LedToServices ==
  ASSUME NEW p \in Processes, NEW s \in Services, Quiet',
         proc' = Gone(p, "stop_service", s)
  PROVE  Leads
<1>1. s \in Int
  BY Indices
<1>2. "stop_service" \in Objected /\ "stop_service" \in LifePlaces /\ "stop_service" \notin Closing
  BY ClosingPlaces
<1>3. proc' \in Processes /\ proc'.at = "stop_service" /\ proc'.t = s
  BY <1>1, <1>2, GonePlace
<1>4. Fits'
  BY <1>2, <1>3, FitsObjected
<1> QED BY <1>2, <1>3, <1>4 DEF Leads

LEMMA LedToObjected ==
  ASSUME NEW p \in Processes, NEW place \in {"partial", "reject"}, Quiet', proc' = To(p, place)
  PROVE  Leads
<1>1. place \in Objected /\ place \in LifePlaces /\ place \notin Closing
  BY ClosingPlaces
<1>2. proc' \in Processes /\ proc'.at = place
  BY <1>1, ToPlace
<1>3. Fits'
  BY <1>1, <1>2, FitsObjected
<1> QED BY <1>1, <1>2, <1>3 DEF Leads

\* From driver to driver, past those that no longer run.
LEMMA LedToQuiescing ==
  ASSUME NEW p \in Processes, NEW from \in Int, proc' = Quiescing(p, from), Rests',
         site' = site,
         \A v \in PresentDrivers : v < from => host'.driver[v] \notin Running
  PROVE  Leads
<1> DEFINE after == IF Up THEN Freezing(p) ELSE To(p, "partial")
<1>1. PresentDrivers \in SUBSET Nat /\ PresentDrivers \subseteq Tracks
  BY Indices DEF PresentDrivers
<1>2. proc' = Loop(p, PresentDrivers, from, "quiesce", after)
  BY DEF Quiescing
<1> HIDE DEF after
<1>3. \A t \in Tracks : host'.driver[t] \in Running => t \in PresentDrivers
  BY DEF Rests, PresentDrivers
<1>4. ASSUME proc' = after, \A v \in PresentDrivers : v < from PROVE Leads
  <2>1. Quiet'
    BY <1>3, <1>4 DEF Quiet
  <2>2. CASE Up
    <3>1. proc' = Gone(p, "stop_service", Gateways) /\ Gateways \in Services
      BY <1>4, <2>2 DEF after, Freezing, Gone, Services
    <3> QED BY <2>1, <3>1, LedToServices
  <2>3. CASE ~Up
    BY <1>4, <2>1, <2>3, LedToObjected DEF after
  <2> QED BY <2>2, <2>3
<1>5. ASSUME NEW u \in PresentDrivers, proc' = Gone(p, "quiesce", u),
             \A v \in PresentDrivers : from <= v => u <= v
      PROVE  Leads
  <2>1. u \in Int /\ u \in Tracks
    BY <1>1, Indices
  <2>2. proc' \in Processes /\ proc'.at = "quiesce" /\ proc'.t = u
    <3>1. "quiesce" \in LifePlaces
      BY ClosingPlaces
    <3> QED BY <1>5, <2>1, <3>1, GonePlace
  <2>3. \A t \in Tracks : t < u => host'.driver[t] \notin Running
    <3> TAKE t \in Tracks
    <3> HAVE t < u
    <3>1. t \in Int
      BY Indices
    <3>2. CASE t \in PresentDrivers
      <4>1. ~(from <= t)
        BY <1>5, <2>1, <3>1, <3>2
      <4> QED BY <3>1, <3>2, <4>1
    <3>3. CASE t \notin PresentDrivers
      BY <1>3, <3>3
    <3> QED BY <3>2, <3>3
  <2>4. Fits'
    BY <2>2, <2>3, FitsQuiescing
  <2> QED BY <2>1, <2>2, <2>4, ClosingPlaces DEF Leads
<1> QED
  <2>1. \/ /\ Loop(p, PresentDrivers, from, "quiesce", after) = after
           /\ \A v \in PresentDrivers : v < from
        \/ \E u \in PresentDrivers :
             /\ Loop(p, PresentDrivers, from, "quiesce", after) = Gone(p, "quiesce", u)
             /\ from <= u
             /\ \A v \in PresentDrivers : from <= v => u <= v
    BY <1>1, Looping
  <2> QED BY <1>2, <1>4, <1>5, <2>1
----------------------------------------------------------------------------
\* What a later process may trust of a driver, the driver has done.
LEMMA TrustedAtRest ==
  ASSUME NEW t \in Tracks, Truth(t), Authority(t) # "ambiguous"
  PROVE  host.driver[t] \notin Running
BY DEF Truth, Authority, TrustedTerminal, Running

LEMMA LedToStranded ==
  ASSUME LInv, NEW from \in Int, Rests', site' = site,
         proc' = Loop(proc, Pended, from, "strand", Quiescing(proc, 1))
  PROVE  Leads
<1>1. /\ Pended \in SUBSET Nat /\ Pended \subseteq Tracks /\ proc \in Processes
      /\ "strand" \in LifePlaces
  BY Indices, ClosingPlaces DEF Pended, LInv, Sound, STypeOK
<1>2. \/ /\ Loop(proc, Pended, from, "strand", Quiescing(proc, 1)) = Quiescing(proc, 1)
         /\ \A v \in Pended : v < from
      \/ \E u \in Pended :
           /\ Loop(proc, Pended, from, "strand", Quiescing(proc, 1)) = Gone(proc, "strand", u)
           /\ from <= u
           /\ \A v \in Pended : from <= v => u <= v
  BY <1>1, Looping
<1>3. CASE proc' = Quiescing(proc, 1)
  <2>1. \A v \in PresentDrivers : ~(v < 1)
    BY NumTracksAssumption DEF PresentDrivers, Tracks
  <2> QED BY <1>1, <1>3, <2>1, LedToQuiescing
<1>4. ASSUME NEW u \in Pended, proc' = Gone(proc, "strand", u) PROVE Leads
  <2>1. u \in Int /\ u \in Tracks
    BY <1>1, Indices
  <2>2. proc' \in Processes /\ proc'.at = "strand" /\ proc'.t = u
    BY <1>1, <1>4, <2>1, GonePlace
  <2> QED BY <2>1, <2>2, LedAnywhere
<1> QED BY <1>2, <1>3, <1>4

LEMMA LoadKeeps ==
  ASSUME LInv, Load
  PROVE  LInv'
<1>0. /\ life \in Lives /\ site \in Sites /\ Rests /\ host \in Hosts /\ proc \in Processes
      /\ UNCHANGED <<log, host, site>>
  BY DEF LInv, Sound, STypeOK, Load
<1>1. CASE Raise
  <2>1. proc' = Off /\ life' = life
    BY <1>1 DEF Raise, Silently
  <2> QED BY <1>0, <2>1, Quits, Unmoved, SilentBeside
<1>2. CASE ~Bound /\ Silently(To(proc, "stop"))
  <2>1. proc' = To(proc, "stop") /\ life' = life
    BY <1>2 DEF Silently
  <2>2. site.objects = {} /\ Quiet
    BY <1>0, <1>2, NothingIsQuiet DEF Rests
  <2>3. "stop" \in Emptied /\ "stop" \in LifePlaces /\ "stop" \notin Finals
    BY FinalPlaces, Groups
  <2>4. proc' \in Processes /\ proc'.at = "stop"
    BY <1>0, <2>1, <2>3, ToPlace
  <2>5. Leads
    BY <1>0, <2>2, <2>3, <2>4, LedToEmptied DEF Quiet
  <2> QED BY <1>0, <2>1, <2>5, Unmoved, SilentBeside
<1>3. ASSUME NEW f \in [Objects -> Steps],
             Say([life EXCEPT !.removed = f], Loop(proc, Pended, 1, "strand", Quiescing(proc, 1)))
      PROVE  LInv'
  <2>1. Beside([life EXCEPT !.removed = f])
    BY BesideFields
  <2>2. ASSUME proc' = Loop(proc, Pended, 1, "strand", Quiescing(proc, 1)),
               life' = [life EXCEPT !.removed = f]
        PROVE  Leads
    <3>1. /\ life'.stage = life.stage /\ life'.leg = life.leg
          /\ life'.attested = life.attested /\ life'.after = life.after
      BY <2>1, <2>2 DEF Beside
    <3>2. Rests'
      BY <1>0, <3>1, RestsStay
    <3> QED BY <1>0, <2>2, <3>2, LedToStranded
  <2> QED BY <1>0, <1>3, <2>1, <2>2, Unmoved, SaysBeside
<1> QED
  <2>1. [o \in Objects |-> IF life.removed[o] = "pending" /\ o \notin site.objects
                           THEN "complete" ELSE life.removed[o]] \in [Objects -> Steps]
    BY <1>0 DEF Lives, Steps
  <2> QED BY <1>1, <1>2, <1>3, <2>1 DEF Load

LEMMA StrandKeeps ==
  ASSUME LInv, Strand
  PROVE  LInv'
<1> DEFINE told == log.request[Here] # "request_intent"
           next == Onward(proc, Pended, "strand", Quiescing(proc, 1))
<1>0. /\ life \in Lives /\ site \in Sites /\ Rests /\ host \in Hosts /\ proc \in Processes
      /\ log \in Logs /\ Here \in Tracks /\ Truth(Here) /\ UNCHANGED <<life, site>>
      /\ ControlFailure(Here, told, next, Off)
  BY ClosingPlaces DEF LInv, Sound, STypeOK, Truths, Strand, At, Here
<1>1. Here \in Int /\ told \in BOOLEAN
  BY <1>0, Indices
<1>2. ~told => ~Reached(Here)
  BY <1>0 DEF Truth
<1>3. host'.driver = host.driver
  BY <1>0 DEF ControlFailure, Hosts
<1>4. (\E u \in Tracks : Moves(u)) /\ proc' \in {next, Off}
  <2> HIDE DEF told, next
  <2> QED BY <1>0, <1>1, <1>2, FailureAppends
<1>5. Rests'
  BY <1>0, <1>3, <1>4, Unmoved, RestsThrough
<1>6. Leads
  <2>1. CASE proc' = next
    <3>1. Here + 1 \in Int /\ proc' = Loop(proc, Pended, Here + 1, "strand", Quiescing(proc, 1))
      BY <1>1, <2>1 DEF Onward
    <3> QED BY <1>0, <1>5, <3>1, LedToStranded
  <2> QED BY <1>4, <2>1, Quits
<1> QED BY <1>0, <1>4, <1>5, <1>6, StepKeeps

LEMMA LedToQuiesced ==
  ASSUME LInv, proc.at = "quiesce", host'.driver = host.driver, proc' = To(proc, "quiesced")
  PROVE  Leads
<1>1. /\ proc \in Processes /\ proc.t \in Tracks
      /\ \A t \in Tracks : t < proc.t => host.driver[t] \notin Running
  BY ClosingPlaces DEF LInv, Sound, STypeOK, Fits
<1>2. "quiesced" \in LifePlaces
  BY ClosingPlaces
<1>3. proc' \in Processes /\ proc'.at = "quiesced" /\ proc'.t = proc.t
  BY <1>1, <1>2, ToPlace
<1>4. Fits'
  BY <1>1, <1>3, FitsQuiescing
<1> QED BY <1>1, <1>2, <1>3, <1>4 DEF Leads

\* The next driver, once this one does not run.
LEMMA LedPastThis ==
  ASSUME LInv, proc.at \in {"quiesce", "quiesced"}, Rests', site' = site,
         proc' = Quiescing(proc, proc.t + 1),
         \A t \in Tracks : host'.driver[t] \in Running => host.driver[t] \in Running /\ t # proc.t
  PROVE  Leads
<1>1. /\ proc \in Processes /\ proc.t \in Tracks
      /\ \A t \in Tracks : t < proc.t => host.driver[t] \notin Running
  BY ClosingPlaces DEF LInv, Sound, STypeOK, Fits
<1>2. proc.t \in Int /\ proc.t + 1 \in Int
  BY <1>1, Indices
<1>3. \A v \in PresentDrivers : v < proc.t + 1 => host'.driver[v] \notin Running
  <2> TAKE v \in PresentDrivers
  <2> HAVE v < proc.t + 1
  <2>1. v \in Tracks /\ v \in Int
    BY Indices DEF PresentDrivers
  <2>2. v < proc.t \/ v = proc.t
    BY <1>2, <2>1
  <2> QED BY <1>1, <2>1, <2>2
<1> QED BY <1>1, <1>2, <1>3, LedToQuiescing

LEMMA QuiesceKeeps ==
  ASSUME LInv, Quiesce
  PROVE  LInv'
<1>0. /\ life \in Lives /\ site \in Sites /\ Rests /\ host \in Hosts /\ proc \in Processes
      /\ proc.t \in Tracks /\ Truth(proc.t) /\ UNCHANGED <<host, life, site>>
      /\ proc.at = "quiesce"
  BY ClosingPlaces DEF LInv, Sound, STypeOK, Truths, Quiesce, At
<1>1. CASE /\ Authority(Here) # "ambiguous"
           /\ proc' = Quiescing(proc, Here + 1) /\ NoFault /\ UNCHANGED log
  <2>1. Rests'
    BY <1>0, <1>1, RestsStay
  <2>2. host.driver[proc.t] \notin Running
    BY <1>0, <1>1, TrustedAtRest DEF Here
  <2>3. Leads
    BY <1>0, <1>1, <2>1, <2>2, LedPastThis DEF Here
  <2> QED BY <1>0, <1>1, <2>3, Unmoved, SilentBeside
<1>2. CASE AppendDriver("stop_intent", To(proc, "quiesced"), Off)
  <2>1. "stop_intent" \in Events
    BY EventNames
  <2>2. (\E u \in Tracks : Moves(u)) /\ proc' \in {To(proc, "quiesced"), Off}
    BY <1>0, <1>2, <2>1, DriverAppends
  <2>3. Rests'
    BY <1>0, <2>2, Unmoved, RestsThrough
  <2>4. Leads
    BY <1>0, <2>2, Quits, LedToQuiesced
  <2> QED BY <1>0, <2>2, <2>3, <2>4, StepKeeps
<1>3. CASE proc' = To(proc, "quiesced") /\ UNCHANGED log
  BY <1>0, <1>3, LedToQuiesced, Unmoved, SilentBeside
<1> QED BY <1>1, <1>2, <1>3 DEF Quiesce

LEMMA QuiescedKeeps ==
  ASSUME LInv, Quiesced
  PROVE  LInv'
<1> DEFINE stopped == IF host.driver[proc.t] \in Running THEN SetDriver(proc.t, "dead") ELSE host
<1>0. /\ life \in Lives /\ site \in Sites /\ Rests /\ host \in Hosts /\ proc \in Processes
      /\ proc.t \in Tracks /\ UNCHANGED <<life, site>> /\ proc.at = "quiesced"
  BY ClosingPlaces DEF LInv, Sound, STypeOK, Quiesced, At
<1>1. /\ \A t \in Tracks : stopped.driver[t] \in Running => host.driver[t] \in Running /\ t # proc.t
  <2>1. CASE host.driver[proc.t] \in Running
    <3>1. "dead" \in Containers /\ "dead" \notin Running
      BY DEF Containers, Running
    <3>2. /\ SetDriver(proc.t, "dead").driver[proc.t] = "dead"
          /\ \A t \in Tracks : t # proc.t =>
               SetDriver(proc.t, "dead").driver[t] = host.driver[t]
      BY <1>0, <3>1, SetFields
    <3> QED BY <2>1, <3>1, <3>2
  <2>2. CASE host.driver[proc.t] \notin Running
    BY <2>2
  <2> QED BY <2>1, <2>2
<1>2. CASE host' = stopped /\ AppendDriver("stop_complete", Quiescing(proc, Here + 1), Off)
  <2>1. (\E u \in Tracks : Moves(u)) /\ proc' \in {Quiescing(proc, Here + 1), Off}
    BY <1>0, <1>2, StopAppends
  <2>2. \A t \in Tracks : host'.driver[t] \in Running => host.driver[t] \in Running /\ t # proc.t
    BY <1>1, <1>2
  <2> HIDE DEF stopped
  <2>3. Rests'
    BY <1>0, <2>1, <2>2, Unmoved, RestsThrough
  <2>4. Leads
    BY <1>0, <2>1, <2>2, <2>3, Quits, LedPastThis DEF Here
  <2> QED BY <1>0, <2>1, <2>3, <2>4, StepKeeps
<1>3. CASE /\ host' \in {host, stopped}
           /\ log' \in {log, IF DriverMay(Here, "stop_failed")
                             THEN DriverEvent(Here, "stop_failed") ELSE log}
           /\ proc' = Off
  <2>1. log' \in {log, DriverEvent(proc.t, "stop_failed")}
    BY <1>3 DEF Here
  <2>2. \E u \in Tracks : Moves(u)
    BY <1>0, <1>3, <2>1, StopFails
  <2>3. \A t \in Tracks : host'.driver[t] \in Running => host.driver[t] \in Running
    BY <1>1, <1>3
  <2> HIDE DEF stopped
  <2>4. Rests'
    BY <1>0, <2>2, <2>3, Unmoved, RestsThrough
  <2> QED BY <1>0, <1>3, <2>2, <2>4, Quits, StepKeeps
<1> QED BY <1>2, <1>3 DEF Quiesced, Here
----------------------------------------------------------------------------
(***************************************************************************)
(* The services, the copies and the bundle.                                *)
(***************************************************************************)
LEMMA Appends ==
  ASSUME NEW new, NEW next, NEW raised, AppendLife(new, TRUE, next, raised)
  PROVE  /\ life' \in {life, new}
         /\ (proc' = next /\ life' = new) \/ proc' \in {raised, Off}
BY DEF AppendLife

\* Where no driver runs, none does after a step that leaves them alone.
LEMMA AtWinding ==
  ASSUME LInv, proc.at \in Winding, host' = host
  PROVE  /\ Quiet /\ Quiet' /\ proc \in Processes /\ life \in Lives /\ site \in Sites /\ Rests
         /\ host \in Hosts
BY DEF LInv, Fits, Sound, STypeOK, Quiet

LEMMA ObjectedPlaces ==
  /\ \A place \in {"partial", "stop_service", "stopped_service", "prepare", "attest", "reject",
                   "remove", "removed", "freeze", "leg", "leg_end", "freeze_end"} :
       place \in Winding
BY DEF Winding, Objected, Freezes

\* On to the removal, or past it if there is nothing to remove.
LEMMA LedToRemoving ==
  ASSUME NEW p \in Processes, NEW present \in SUBSET Objects, Quiet',
         site'.objects = present, proc' = Removing(p, present)
  PROVE  Leads
<1> DEFINE after == To(p, IF Up THEN "topology" ELSE "stop")
<1>1. present \in SUBSET Nat
  BY Indices
<1>2. \/ /\ Loop(p, present, 1, "remove", after) = after
         /\ \A v \in present : v < 1
      \/ \E u \in present :
           /\ Loop(p, present, 1, "remove", after) = Gone(p, "remove", u)
           /\ 1 <= u
           /\ \A v \in present : 1 <= v => u <= v
  <2> HIDE DEF after
  <2> QED BY <1>1, Looping
<1>3. proc' = Loop(p, present, 1, "remove", after)
  BY DEF Removing
<1>4. CASE proc' = after /\ \A v \in present : v < 1
  <2>1. \A v \in Objects : ~(v < 1)
    BY NumTracksAssumption DEF Objects, Networks
  <2>2. present = {}
    BY <1>4, <2>1
  <2>3. ASSUME NEW place \in {"topology", "stop"}, proc' = To(p, place) PROVE Leads
    <3>1. place \in Emptied /\ place \in LifePlaces /\ place \notin Finals
      BY FinalPlaces, Groups
    <3>2. proc' \in Processes /\ proc'.at = place
      BY <2>3, <3>1, ToPlace
    <3> QED BY <2>2, <3>1, <3>2, LedToEmptied
  <2> QED BY <1>4, <2>3
<1>5. ASSUME NEW u \in present, proc' = Gone(p, "remove", u) PROVE Leads
  <2>1. u \in Int /\ u \in Objects
    BY Indices
  <2>2. "remove" \in Objected /\ "remove" \in LifePlaces /\ "remove" \notin Closing
    BY ClosingPlaces
  <2>3. proc' \in Processes /\ proc'.at = "remove" /\ proc'.t = u
    BY <1>5, <2>1, <2>2, GonePlace
  <2>4. Fits'
    BY <2>1, <2>2, <2>3, FitsObjected
  <2> QED BY <2>2, <2>3, <2>4 DEF Leads
<1> QED BY <1>2, <1>3, <1>4, <1>5

LEMMA LedToFreeze ==
  ASSUME NEW p \in Processes, NEW place \in {"freeze", "freeze_end"}, proc' = To(p, place),
         Up', Quiet', Gateways \notin site'.running
  PROVE  Leads
<1>1. place \in Freezes /\ place \in LifePlaces /\ place \notin Closing
  BY ClosingPlaces
<1>2. proc' \in Processes /\ proc'.at = place
  BY <1>1, ToPlace
<1>3. Fits'
  BY <1>1, <1>2, FitsFreeze
<1> QED BY <1>1, <1>2, <1>3 DEF Leads

LEMMA MarkedBad ==
  ASSUME NEW p \in Processes
  PROVE  /\ [p EXCEPT !.bad = TRUE] \in Processes
         /\ [p EXCEPT !.bad = TRUE, !.told = FALSE] \in Processes
BY DEF Processes

LEMMA ServiceNames ==
  /\ Services = {Gateways, Ledgers} /\ Gateways # Ledgers
  /\ Gateways \in Services /\ Ledgers \in Services /\ Gateways \in Int /\ Ledgers \in Int
BY NumTracksAssumption DEF Services, Gateways, Ledgers

\* A service that no longer runs, and what follows.
LEMMA LedAfterService ==
  ASSUME NEW p \in Processes, proc.t \in Services, proc' = AfterService(p), Quiet',
         site \in Sites, site'.objects = site.objects, life'.stage = life.stage,
         proc.t \notin site'.running
  PROVE  Leads
<1>1. CASE proc.t = Gateways /\ Up
  <2>1. proc' = To(p, "freeze")
    BY <1>1, ServiceNames DEF AfterService, Here
  <2>2. Up'
    BY <1>1 DEF Up
  <2> QED BY <1>1, <2>1, <2>2, LedToFreeze
<1>2. CASE proc.t = Gateways /\ ~Up
  <2>1. proc' = Gone(p, "stop_service", Ledgers)
    BY <1>2, ServiceNames DEF AfterService, Here, Gone
  <2> QED BY <2>1, ServiceNames, LedToServices
<1>3. CASE proc.t = Ledgers /\ Up
  <2>1. proc' = To(p, "prepare") /\ Up'
    BY <1>3, ServiceNames DEF AfterService, Here, Up
  <2>2. "prepare" \in Objected /\ "prepare" \in LifePlaces /\ "prepare" \notin Closing
    BY ClosingPlaces
  <2>3. proc' \in Processes /\ proc'.at = "prepare"
    BY <2>1, <2>2, ToPlace
  <2>4. Fits'
    BY <2>1, <2>2, <2>3, FitsObjected
  <2> QED BY <2>2, <2>3, <2>4 DEF Leads
<1>4. CASE proc.t = Ledgers /\ ~Up
  <2>1. proc' = Removing([p EXCEPT !.bad = TRUE], site.objects)
    BY <1>4, ServiceNames DEF AfterService, Here
  <2>2. [p EXCEPT !.bad = TRUE] \in Processes /\ site.objects \in SUBSET Objects
    BY MarkedBad DEF Sites
  <2> QED BY <2>1, <2>2, LedToRemoving
<1> QED BY <1>1, <1>2, <1>3, <1>4, ServiceNames

LEMMA PartialUpKeeps ==
  ASSUME LInv, PartialUp
  PROVE  LInv'
<1>0. /\ UNCHANGED <<log, host, site>> /\ proc.at = "partial"
  BY DEF PartialUp, At
<1>1. Quiet' /\ proc \in Processes
  BY <1>0, ObjectedPlaces, AtWinding
<1>2. proc' = Freezing(proc) => Leads
  <2>1. Freezing(proc) = Gone(proc, "stop_service", Gateways)
    BY DEF Freezing, Gone
  <2> QED BY <1>1, <2>1, ServiceNames, LedToServices
<1>3. CASE Say([life EXCEPT !.failure = "intent"], Freezing(proc))
  <2>1. Beside([life EXCEPT !.failure = "intent"])
    BY BesideFields
  <2> QED BY <1>0, <1>2, <1>3, <2>1, Unmoved, SaysBeside
<1>4. CASE Silently(Freezing(proc))
  BY <1>0, <1>2, <1>4, Unmoved, SilentBeside DEF Silently
<1> QED BY <1>3, <1>4 DEF PartialUp

LEMMA AtService ==
  ASSUME LInv, proc.at \in {"stop_service", "stopped_service", "leg", "leg_end"}
  PROVE  proc.t \in Services /\ proc.t \in Int
BY ServiceNames DEF LInv, Fits

LEMMA LedToStopped ==
  ASSUME LInv, proc.at = "stop_service", Quiet', proc' = To(proc, "stopped_service")
  PROVE  Leads
<1>1. "stopped_service" \in Objected /\ "stopped_service" \in LifePlaces
      /\ "stopped_service" \notin Closing
  BY ClosingPlaces
<1>2. proc \in Processes /\ proc.t \in Services
  BY AtService DEF LInv, Sound, STypeOK
<1>3. proc' \in Processes /\ proc'.at = "stopped_service" /\ proc'.t \in Services
  BY <1>1, <1>2, ToPlace
<1>4. Fits'
  BY <1>1, <1>3, FitsObjected
<1> QED BY <1>1, <1>3, <1>4 DEF Leads

LEMMA StopServiceKeeps ==
  ASSUME LInv, StopService
  PROVE  LInv'
<1>0. UNCHANGED <<log, host, site>> /\ proc.at = "stop_service"
  BY DEF StopService, At
<1>1. Quiet' /\ proc \in Processes /\ proc.t \in Services /\ site \in Sites
  BY <1>0, ObjectedPlaces, AtWinding, AtService
<1>2. CASE Say([life EXCEPT !.stops[Here] = "pending"], To(proc, "stopped_service"))
  <2>1. Beside([life EXCEPT !.stops[Here] = "pending"])
    BY <1>1, BesideFields DEF Here, Steps
  <2>2. proc' = To(proc, "stopped_service") => Leads
    BY <1>0, <1>1, LedToStopped
  <2> QED BY <1>0, <1>2, <2>1, <2>2, Unmoved, SaysBeside
<1>3. CASE Silently(To(proc, "stopped_service"))
  <2>1. Leads
    BY <1>0, <1>1, <1>3, LedToStopped DEF Silently
  <2> QED BY <1>0, <1>3, <2>1, Unmoved, SilentBeside DEF Silently
<1>4. CASE Here \notin site.running /\ Silently(AfterService(proc))
  <2>1. proc' = AfterService(proc) /\ life' = life /\ proc.t \notin site'.running
    BY <1>0, <1>4 DEF Silently, Here
  <2>2. Leads
    BY <1>0, <1>1, <2>1, LedAfterService
  <2> QED BY <1>0, <2>1, <2>2, Unmoved, SilentBeside
<1> QED BY <1>2, <1>3, <1>4 DEF StopService

LEMMA StoppedServiceKeeps ==
  ASSUME LInv, StoppedService
  PROVE  LInv'
<1>0. /\ log' = log /\ host' = host /\ proc.at = "stopped_service"
      /\ site' = [site EXCEPT !.running = @ \ {Here}]
      /\ Say([life EXCEPT !.stops[Here] = "complete"], AfterService(proc))
  BY DEF StoppedService, At
<1>1. /\ Quiet' /\ proc \in Processes /\ proc.t \in Services /\ site \in Sites /\ life \in Lives
      /\ host \in Hosts
  BY <1>0, ObjectedPlaces, AtWinding, AtService
<1>2. /\ site' \in Sites /\ site'.objects = site.objects /\ site'.kept = site.kept
      /\ site'.public = site.public /\ site'.drift = site.drift
      /\ site'.running \subseteq site.running /\ site'.profile = site.profile
      /\ proc.t \notin site'.running
  BY <1>0, <1>1 DEF Sites, Here
<1>3. /\ life' \in {life, [life EXCEPT !.stops[Here] = "complete"]}
      /\ proc' = AfterService(proc) \/ proc' = Off
  BY <1>0, Says
<1>4. Beside(life')
  <2>1. Beside([life EXCEPT !.stops[Here] = "complete"])
    BY <1>1, BesideFields DEF Here, Steps
  <2> QED BY <1>3, <2>1, Unmoved
<1>5. \E u \in Tracks : Moves(u)
  BY <1>0, <1>1, Nothing
<1>6. Rests'
  BY <1>0, <1>2, <1>4, <1>5, RestsThrough
<1>7. Leads
  <2>1. life'.stage = life.stage
    BY <1>4 DEF Beside
  <2>2. CASE proc' = AfterService(proc)
    BY <1>1, <1>2, <2>1, <2>2, LedAfterService
  <2> QED BY <1>3, <2>2, Quits
<1> QED BY <1>2, <1>4, <1>5, <1>6, <1>7, StepKeeps DEF Beside
----------------------------------------------------------------------------
LEMMA AtFreezes ==
  ASSUME LInv, proc.at \in {"freeze", "leg", "leg_end", "freeze_end"}, host' = host
  PROVE  /\ Up /\ Gateways \notin site.running /\ Quiet /\ Quiet' /\ proc \in Processes
         /\ life \in Lives /\ site \in Sites /\ Rests /\ host \in Hosts
<1>1. proc.at \in Freezes /\ proc.at \in Winding
  BY ClosingPlaces, ObjectedPlaces
<1> QED BY <1>1, AtWinding DEF LInv, Fits

\* From source to source, and at last to the end of the freeze.
LEMMA LedToLegs ==
  ASSUME proc \in Processes, NEW from \in Int, Up', Quiet', Gateways \notin site'.running,
         proc' = Loop(proc, Unfinished, from, "leg", To(proc, "freeze_end"))
  PROVE  Leads
<1>1. Unfinished \in SUBSET Nat /\ Unfinished \subseteq Services
  BY Indices DEF Unfinished
<1>2. \/ /\ Loop(proc, Unfinished, from, "leg", To(proc, "freeze_end")) = To(proc, "freeze_end")
         /\ \A v \in Unfinished : v < from
      \/ \E u \in Unfinished :
           /\ Loop(proc, Unfinished, from, "leg", To(proc, "freeze_end")) = Gone(proc, "leg", u)
           /\ from <= u
           /\ \A v \in Unfinished : from <= v => u <= v
  BY <1>1, Looping
<1>3. CASE proc' = To(proc, "freeze_end")
  BY <1>3, LedToFreeze
<1>4. ASSUME NEW u \in Unfinished, proc' = Gone(proc, "leg", u) PROVE Leads
  <2>1. u \in Int /\ u \in Services
    BY <1>1, ServiceNames
  <2>2. "leg" \in Freezes /\ "leg" \in LifePlaces /\ "leg" \notin Closing
    BY ClosingPlaces
  <2>3. proc' \in Processes /\ proc'.at = "leg" /\ proc'.t = u
    BY <1>4, <2>1, <2>2, GonePlace
  <2>4. Fits'
    BY <2>1, <2>2, <2>3, FitsFreeze
  <2> QED BY <2>2, <2>3, <2>4 DEF Leads
<1> QED BY <1>2, <1>3, <1>4

LEMMA LedToLegEnd ==
  ASSUME LInv, proc.at = "leg", Up', Quiet', Gateways \notin site'.running,
         life'.leg[proc.t] = "bytes", proc' = To(proc, "leg_end")
  PROVE  Leads
<1>1. proc \in Processes /\ proc.t \in Services
  BY AtService DEF LInv, Sound, STypeOK
<1>2. "leg_end" \in Freezes /\ "leg_end" \in LifePlaces /\ "leg_end" \notin Closing
  BY ClosingPlaces
<1>3. proc' \in Processes /\ proc'.at = "leg_end" /\ proc'.t = proc.t
  BY <1>1, <1>2, ToPlace
<1>4. Fits'
  BY <1>1, <1>2, <1>3, FitsFreeze
<1> QED BY <1>2, <1>3, <1>4 DEF Leads

LEMMA FreezeKeeps ==
  ASSUME LInv, Freeze
  PROVE  LInv'
<1>0. UNCHANGED <<log, host, site>> /\ proc.at = "freeze"
  BY DEF Freeze, At
<1>1. Up /\ Gateways \notin site'.running /\ Quiet' /\ proc \in Processes
  BY <1>0, AtFreezes
<1>2. CASE Raise
  BY <1>0, <1>2, Quits, Unmoved, SilentBeside DEF Raise, Silently
<1>3. CASE Silently([proc EXCEPT !.at = "stop_service", !.t = Ledgers])
  <2>1. proc' = Gone(proc, "stop_service", Ledgers) /\ life' = life
    BY <1>3 DEF Silently, Gone
  <2>2. Leads
    BY <1>1, <2>1, ServiceNames, LedToServices
  <2> QED BY <1>0, <2>1, <2>2, Unmoved, SilentBeside
<1>4. CASE Say([life EXCEPT !.freeze = "started"], Legs(proc))
  <2>1. Beside([life EXCEPT !.freeze = "started"])
    BY BesideFields
  <2>2. ASSUME proc' = Legs(proc), life' = [life EXCEPT !.freeze = "started"] PROVE Leads
    <3>1. life'.stage = life.stage
      BY <2>1, <2>2 DEF Beside
    <3>2. Up'
      BY <1>1, <3>1 DEF Up
    <3>3. proc' = Loop(proc, Unfinished, 1, "leg", To(proc, "freeze_end"))
      BY <2>2 DEF Legs
    <3> QED BY <1>1, <3>2, <3>3, LedToLegs
  <2> QED BY <1>0, <1>4, <2>1, <2>2, Unmoved, SaysBeside
<1> QED BY <1>2, <1>3, <1>4 DEF Freeze

\* What is said of one source whose copy had not ended.
LEMMA LegRests ==
  ASSUME LInv, Up, Quiet, Gateways \notin site.running, NEW s \in Services,
         life.leg[s] \in {"none", "bytes"}, log' = log, host' = host,
         life'.stage = life.stage, life'.attested = life.attested, life'.after = life.after,
         \A v \in Services : v # s => life'.leg[v] = life.leg[v] /\ site'.kept[v] = site.kept[v],
         life'.leg[s] \in {"bytes", "copied"} => site'.kept[s] = Sent,
         site'.profile = site.profile, site'.objects = site.objects,
         site'.running = site.running, site'.public = site.public, site'.drift = site.drift
  PROVE  Rests'
<1>1. Rests
  BY DEF LInv
<1>2. ~Whole /\ life.attested # "full" /\ site.public # "complete"
  BY <1>1 DEF Rests, Whole, Copied
<1>3. ~Bound' \/ site'.profile = "absent" => site'.objects = {}
  BY <1>1 DEF Rests, Bound
<1>4. /\ \A t \in Tracks : host'.driver[t] \in Running => t \in site'.objects
      /\ life'.after = "same" => ~site'.drift
  BY <1>1 DEF Rests
<1>5. \A v \in Services : life'.leg[v] # "none" => Up' /\ Quiet' /\ Gateways \notin site'.running
  BY DEF Up, Quiet
<1>6. Sent' = Sent
  BY DEF Sent
<1>7. \A v \in Services : life'.leg[v] \in {"bytes", "copied"} => site'.kept[v] = Sent'
  BY <1>1, <1>6 DEF Rests
<1> QED BY <1>2, <1>3, <1>4, <1>5, <1>7 DEF Rests

LEMMA LegField ==
  ASSUME life \in Lives, NEW s \in Services, NEW x \in {"none", "bytes", "copied", "uncopied"}
  PROVE  /\ [life EXCEPT !.leg[s] = x] \in Lives /\ [life EXCEPT !.leg[s] = x].leg[s] = x
         /\ \A v \in Services : v # s => [life EXCEPT !.leg[s] = x].leg[v] = life.leg[v]
         /\ [life EXCEPT !.leg[s] = x].stage = life.stage
         /\ [life EXCEPT !.leg[s] = x].attested = life.attested
         /\ [life EXCEPT !.leg[s] = x].after = life.after
BY DEF Lives

LEMMA LegKeeps ==
  ASSUME LInv, Leg
  PROVE  LInv'
<1>0. log' = log /\ host' = host /\ proc.at = "leg"
  BY DEF Leg, At
<1>1. /\ Up /\ Gateways \notin site.running /\ Quiet /\ Quiet' /\ proc \in Processes
      /\ life \in Lives /\ site \in Sites /\ host \in Hosts
      /\ proc.t \in Services /\ proc.t \in Int
  BY <1>0, AtFreezes, AtService
<1>2. \E u \in Tracks : Moves(u)
  BY <1>0, <1>1, Nothing
<1>3. CASE /\ life.leg[proc.t] = "none" /\ site' = [site EXCEPT !.kept[proc.t] = Sent]
           /\ Say([life EXCEPT !.leg[proc.t] = "bytes"], To(proc, "leg_end"))
  <2>1. /\ life' \in {life, [life EXCEPT !.leg[proc.t] = "bytes"]}
        /\ (proc' = To(proc, "leg_end") /\ life' = [life EXCEPT !.leg[proc.t] = "bytes"])
           \/ proc' = Off
    BY <1>3, Says
  <2>2. /\ life' \in Lives /\ life'.leg[proc.t] \in {"none", "bytes"}
        /\ life' = [life EXCEPT !.leg[proc.t] = "bytes"] => life'.leg[proc.t] = "bytes"
        /\ \A v \in Services : v # proc.t => life'.leg[v] = life.leg[v]
        /\ life'.stage = life.stage /\ life'.attested = life.attested /\ life'.after = life.after
    <3>1. CASE life' = life
      <4>1. [life EXCEPT !.leg[proc.t] = "bytes"].leg[proc.t] = "bytes"
        BY <1>1, LegField
      <4> QED BY <1>1, <1>3, <3>1, <4>1
    <3>2. CASE life' = [life EXCEPT !.leg[proc.t] = "bytes"]
      BY <1>1, <3>2, LegField
    <3> QED BY <2>1, <3>1, <3>2
  <2>3. Sent \in SUBSET Tracks
    BY DEF Sent
  <2>4. /\ site' \in Sites /\ site'.kept[proc.t] = Sent
        /\ \A v \in Services : v # proc.t => site'.kept[v] = site.kept[v]
        /\ site'.profile = site.profile /\ site'.objects = site.objects
        /\ site'.running = site.running /\ site'.public = site.public /\ site'.drift = site.drift
    BY <1>1, <1>3, <2>3 DEF Sites
  <2>5. Rests'
    BY <1>0, <1>1, <1>3, <2>2, <2>4, LegRests
  <2>6. Up'
    BY <1>1, <2>2 DEF Up
  <2>7. Leads
    BY <1>0, <1>1, <2>1, <2>2, <2>4, <2>6, Quits, LedToLegEnd
  <2> QED BY <1>2, <2>2, <2>4, <2>5, <2>7, StepKeeps
<1>4. CASE /\ life.leg[proc.t] = "none" /\ life' = [life EXCEPT !.leg[proc.t] = "uncopied"]
           /\ proc' = Onward(proc, Unfinished, "leg", To(proc, "freeze_end")) /\ site' = site
  <2>1. /\ life' \in Lives /\ life'.leg[proc.t] = "uncopied"
        /\ \A v \in Services : v # proc.t => life'.leg[v] = life.leg[v]
        /\ life'.stage = life.stage /\ life'.attested = life.attested /\ life'.after = life.after
    BY <1>1, <1>4, LegField
  <2>2. Rests'
    BY <1>0, <1>1, <1>4, <2>1, LegRests
  <2>3. Up' /\ proc.t + 1 \in Int
    BY <1>1, <2>1 DEF Up
  <2>4. proc' = Loop(proc, Unfinished, proc.t + 1, "leg", To(proc, "freeze_end"))
    BY <1>4 DEF Onward, Here
  <2>5. Leads
    BY <1>1, <1>4, <2>3, <2>4, LedToLegs
  <2> QED BY <1>1, <1>2, <1>4, <2>1, <2>2, <2>5, StepKeeps
<1>5. CASE life.leg[proc.t] = "bytes" /\ Silently(To(proc, "leg_end")) /\ site' = site
  <2>1. proc' = To(proc, "leg_end") /\ life' = life
    BY <1>5 DEF Silently
  <2>2. Up'
    BY <1>1, <2>1 DEF Up
  <2>3. Leads
    BY <1>0, <1>1, <1>5, <2>1, <2>2, LedToLegEnd
  <2> QED BY <1>0, <1>5, <2>1, <2>3, Unmoved, SilentBeside
<1> QED BY <1>3, <1>4, <1>5 DEF Leg, Here

LEMMA LegEndKeeps ==
  ASSUME LInv, LegEnd
  PROVE  LInv'
<1>0. /\ UNCHANGED <<log, host, site>> /\ proc.at = "leg_end"
      /\ Say([life EXCEPT !.leg[proc.t] = "copied"],
             Onward(proc, Unfinished, "leg", To(proc, "freeze_end")))
  BY DEF LegEnd, At, Here
<1>1. /\ Up /\ Gateways \notin site.running /\ Quiet /\ Quiet' /\ proc \in Processes
      /\ life \in Lives /\ site \in Sites /\ host \in Hosts /\ Rests
      /\ proc.t \in Services /\ proc.t \in Int /\ life.leg[proc.t] = "bytes"
  BY <1>0, AtFreezes, AtService DEF LInv, Fits
<1>2. \E u \in Tracks : Moves(u)
  BY <1>0, <1>1, Nothing
<1>3. /\ life' \in {life, [life EXCEPT !.leg[proc.t] = "copied"]}
      /\ proc' = Onward(proc, Unfinished, "leg", To(proc, "freeze_end")) \/ proc' = Off
  BY <1>0, Says
<1>4. /\ life' \in Lives
      /\ \A v \in Services : v # proc.t => life'.leg[v] = life.leg[v]
      /\ life'.stage = life.stage /\ life'.attested = life.attested /\ life'.after = life.after
  <2>1. CASE life' = [life EXCEPT !.leg[proc.t] = "copied"]
    <3> DEFINE next == [life EXCEPT !.leg[proc.t] = "copied"]
    <3>1. /\ next \in Lives
          /\ \A v \in Services : v # proc.t => next.leg[v] = life.leg[v]
          /\ next.stage = life.stage /\ next.attested = life.attested
          /\ next.after = life.after
      BY <1>1, LegField
    <3> HIDE DEF next
    <3>2. life' = next
      BY <2>1 DEF next
    <3> QED BY <3>1, <3>2
  <2> QED BY <1>1, <1>3, <2>1
<1>5. site'.kept[proc.t] = Sent
  BY <1>0, <1>1 DEF Rests
<1>6. Rests'
  BY <1>0, <1>1, <1>4, <1>5, LegRests
<1>7. Leads
  <2>1. CASE proc' = Onward(proc, Unfinished, "leg", To(proc, "freeze_end"))
    <3>1. proc' = Loop(proc, Unfinished, proc.t + 1, "leg", To(proc, "freeze_end"))
      BY <2>1 DEF Onward, Here
    <3>2. Up' /\ proc.t + 1 \in Int
      BY <1>1, <1>4 DEF Up
    <3> QED BY <1>0, <1>1, <3>1, <3>2, LedToLegs
  <2> QED BY <1>3, <2>1, Quits
<1> QED BY <1>0, <1>1, <1>2, <1>4, <1>6, <1>7, StepKeeps

LEMMA FreezeEndKeeps ==
  ASSUME LInv, FreezeEnd
  PROVE  LInv'
<1>0. /\ UNCHANGED <<log, host, site>> /\ proc.at = "freeze_end"
      /\ Say([life EXCEPT !.freeze = "complete"], Gone(proc, "stop_service", Ledgers))
  BY DEF FreezeEnd, At, Gone
<1>1. Quiet' /\ proc \in Processes
  BY <1>0, AtFreezes
<1>2. proc' = Gone(proc, "stop_service", Ledgers) => Leads
  BY <1>1, ServiceNames, LedToServices
<1>3. Beside([life EXCEPT !.freeze = "complete"])
  BY BesideFields
<1> QED BY <1>0, <1>2, <1>3, Unmoved, SaysBeside
----------------------------------------------------------------------------
LEMMA LedToAttest ==
  ASSUME proc \in Processes, NEW told \in BOOLEAN, Up', Quiet', told => Whole',
         proc' = [proc EXCEPT !.at = "attest", !.told = told]
  PROVE  Leads
<1>1. "attest" \in Objected /\ "attest" \in LifePlaces /\ "attest" \notin Closing
  BY ClosingPlaces
<1>2. "attest" \in Places
  BY <1>1, LifePlacesApart
<1>3. proc' \in Processes /\ proc'.at = "attest" /\ proc'.told = told
  BY <1>2 DEF Processes
<1>4. Fits'
  BY <1>1, <1>3, FitsObjected
<1> QED BY <1>1, <1>3, <1>4 DEF Leads

LEMMA PrepareKeeps ==
  ASSUME LInv, Prepare
  PROVE  LInv'
<1> DEFINE complete == AllCompleted /\ Copied
           class == IF complete THEN "complete" ELSE "incomplete"
           agrees == IF complete THEN CompleteEvidenceAgrees ELSE FailureEvidenceAgrees
           new == [life EXCEPT !.evidence = class]
           next == [proc EXCEPT !.at = "attest", !.told = complete]
           rejected == To(proc, "reject")
<1>0. log' = log /\ host' = host /\ proc.at = "prepare"
  BY DEF Prepare, At
<1>1. /\ Quiet' /\ proc \in Processes /\ Up /\ complete \in BOOLEAN
  <2>1. Quiet' /\ proc \in Processes
    BY <1>0, ObjectedPlaces, AtWinding
  <2>2. Up
    BY <1>0 DEF LInv, Fits
  <2> QED BY <2>1, <2>2 DEF AllCompleted, Copied
<1>2. /\ Beside(new) /\ Around([site EXCEPT !.provisional = class])
      /\ Around([site EXCEPT !.provisional = "broken"])
  BY BesideFields DEF Classes
<1>3. \/ /\ agrees /\ site' = [site EXCEPT !.provisional = class]
         /\ AppendLife(new, TRUE, next, rejected)
      \/ site' = site /\ Silently(rejected)
      \/ /\ site' \in {site, [site EXCEPT !.provisional = "broken"]}
         /\ life' = life /\ proc' = rejected
  BY DEF Prepare
<1>4. proc' = rejected => Leads
  BY <1>1, LedToObjected
<1>5. CASE /\ agrees /\ site' = [site EXCEPT !.provisional = class]
           /\ AppendLife(new, TRUE, next, rejected)
  <2>1. /\ life' \in {life, new}
        /\ (proc' = next /\ life' = new) \/ proc' \in {rejected, Off}
    <3> HIDE DEF new, next, rejected
    <3> QED BY <1>5, Appends
  <2>2. Around(site') /\ Beside(life')
    <3> HIDE DEF new, next, rejected, class
    <3> QED BY <1>2, <1>5, <2>1, Unmoved
  <2>3. life'.stage = life.stage /\ life'.leg = life.leg /\ site'.kept = site.kept
    BY <2>2 DEF Beside, Around
  <2>4. Up'
    BY <1>1, <2>3 DEF Up
  <2>5. complete => Whole'
    <3>1. complete /\ agrees => AllCompleted /\ Copied /\ \A s \in Services : site.kept[s] = Tracks
      BY DEF CompleteEvidenceAgrees
    <3> HIDE DEF complete, agrees
    <3> QED BY <1>0, <1>5, <2>3, <3>1 DEF Whole, AllCompleted, Copied
  <2>6. proc' = next => Leads
    <3> HIDE DEF complete
    <3> QED BY <1>1, <2>4, <2>5, LedToAttest
  <2>7. Leads
    <3> HIDE DEF new, next, rejected
    <3> QED BY <1>4, <2>1, <2>6, Quits
  <2> QED BY <1>0, <2>2, <2>7, StepAside DEF Around, Beside
<1>6. CASE site' = site /\ Silently(rejected)
  <2>1. life' = life /\ proc' = rejected
    BY <1>6 DEF Silently
  <2> HIDE DEF rejected
  <2> QED BY <1>0, <1>4, <1>6, <2>1, Unmoved, SilentBeside
<1>7. CASE /\ site' \in {site, [site EXCEPT !.provisional = "broken"]}
           /\ life' = life /\ proc' = rejected
  <2>1. Around(site')
    BY <1>2, <1>7, Unmoved
  <2> HIDE DEF rejected
  <2> QED BY <1>0, <1>4, <1>7, <2>1, SilentBeside
<1> QED BY <1>3, <1>5, <1>6, <1>7

LEMMA AttestKeeps ==
  ASSUME LInv, Standing, Attest
  PROVE  LInv'
<1> DEFINE x == IF proc.told THEN "full" ELSE "empty"
           new == [life EXCEPT !.attested = x]
           next == Removing(proc, site.objects)
           rejected == To(proc, "reject")
<1>0. /\ UNCHANGED <<log, host, site>> /\ proc.at = "attest"
      /\ AppendLife(new, TRUE, next, rejected)
  BY DEF Attest, At
<1>1. /\ Quiet' /\ proc \in Processes /\ life \in Lives /\ site \in Sites /\ host \in Hosts
      /\ Rests
  BY <1>0, ObjectedPlaces, AtWinding
<1>2. site.public # "complete" /\ (proc.told => Whole)
  <2>1. proc.at \in Objected
    BY <1>0, ClosingPlaces
  <2>2. site.profile # "absent"
    BY <2>1 DEF Standing, Underway
  <2> QED BY <1>0, <1>1, <2>2 DEF Rests, LInv, Fits
<1>3. /\ life' \in {life, new}
      /\ (proc' = next /\ life' = new) \/ proc' \in {rejected, Off}
  <2> HIDE DEF new, next, rejected
  <2> QED BY <1>0, Appends
<1>4. /\ life' \in Lives /\ life'.stage = life.stage /\ life'.leg = life.leg
      /\ life'.after = life.after /\ life'.attested \in {life.attested, x}
  BY <1>1, <1>3 DEF Lives
<1>5. Rests'
  <2>1. /\ ~Bound' \/ site'.profile = "absent" => site'.objects = {}
        /\ \A t \in Tracks : host'.driver[t] \in Running => t \in site'.objects
        /\ life'.after = "same" => ~site'.drift
    BY <1>0, <1>1, <1>4 DEF Rests, Bound
  <2>2. \A s \in Services : life'.leg[s] # "none" => Up' /\ Quiet' /\ Gateways \notin site'.running
    BY <1>0, <1>1, <1>4 DEF Rests, Up
  <2>3. \A s \in Services : life'.leg[s] \in {"bytes", "copied"} => site'.kept[s] = Sent'
    BY <1>0, <1>1, <1>4 DEF Rests, Sent
  <2>4. life'.attested = "full" => Whole'
    <3>1. life'.attested = "full" => Whole
      BY <1>1, <1>2, <1>4 DEF Rests
    <3> QED BY <1>0, <1>4, <3>1 DEF Whole, AllCompleted, Copied
  <2> QED BY <1>0, <1>2, <2>1, <2>2, <2>3, <2>4 DEF Rests
<1>6. Leads
  <2>1. proc' = next => Leads
    <3>1. site.objects \in SUBSET Objects
      BY <1>1 DEF Sites
    <3> QED BY <1>0, <1>1, <3>1, LedToRemoving
  <2>2. proc' = rejected => Leads
    BY <1>1, LedToObjected
  <2> HIDE DEF new, next, rejected
  <2> QED BY <1>3, <2>1, <2>2, Quits
<1>7. \E u \in Tracks : Moves(u)
  BY <1>0, <1>1, Nothing
<1> QED BY <1>0, <1>1, <1>4, <1>5, <1>6, <1>7, StepKeeps

LEMMA RejectKeeps ==
  ASSUME LInv, Reject
  PROVE  LInv'
<1>0. /\ UNCHANGED <<log, host, site, life>> /\ proc.at = "reject"
      /\ proc' = Removing([proc EXCEPT !.bad = TRUE, !.told = FALSE], site.objects)
  BY DEF Reject, At, Silently
<1>1. Quiet' /\ proc \in Processes /\ site \in Sites
  BY <1>0, ObjectedPlaces, AtWinding
<1>2. /\ [proc EXCEPT !.bad = TRUE, !.told = FALSE] \in Processes
      /\ site.objects \in SUBSET Objects
  BY <1>1, MarkedBad DEF Sites
<1>3. Leads
  BY <1>0, <1>1, <1>2, LedToRemoving
<1> QED BY <1>0, <1>3, Unmoved, SilentBeside

LEMMA RemoveKeeps ==
  ASSUME LInv, Remove
  PROVE  LInv'
<1>0. UNCHANGED <<log, host, site>> /\ proc.at = "remove"
  BY DEF Remove, At
<1>1. Quiet' /\ proc \in Processes /\ proc.t \in Objects
  BY <1>0, ObjectedPlaces, AtWinding DEF LInv, Fits
<1>2. proc' = To(proc, "removed") => Leads
  <2>1. "removed" \in Objected /\ "removed" \in LifePlaces /\ "removed" \notin Closing
    BY ClosingPlaces
  <2>2. ASSUME proc' = To(proc, "removed") PROVE Leads
    <3>1. proc' \in Processes /\ proc'.at = "removed" /\ proc'.t \in Objects
      BY <1>1, <2>1, <2>2, ToPlace
    <3>2. Fits'
      BY <1>1, <2>1, <3>1, FitsObjected
    <3> QED BY <2>1, <3>1, <3>2 DEF Leads
  <2> QED BY <2>2
<1>3. CASE Say([life EXCEPT !.removed[Here] = "pending"], To(proc, "removed"))
  <2>1. Beside([life EXCEPT !.removed[Here] = "pending"])
    BY <1>1, BesideFields DEF Here, Steps
  <2> QED BY <1>0, <1>2, <1>3, <2>1, Unmoved, SaysBeside
<1>4. CASE Silently(To(proc, "removed"))
  BY <1>0, <1>2, <1>4, Unmoved, SilentBeside DEF Silently
<1> QED BY <1>3, <1>4 DEF Remove

LEMMA RemovedKeeps ==
  ASSUME LInv, Removed
  PROVE  LInv'
<1>0. /\ log' = log /\ host' = host /\ proc.at = "removed"
      /\ site' = [site EXCEPT !.objects = @ \ {Here}, !.running = @ \ {Here}]
      /\ Say([life EXCEPT !.removed[Here] = "complete"], Removing(proc, site.objects \ {Here}))
  BY DEF Removed, At
<1>1. /\ Quiet /\ Quiet' /\ proc \in Processes /\ life \in Lives /\ site \in Sites /\ Rests
      /\ host \in Hosts /\ Here \in Objects
  BY <1>0, ObjectedPlaces, AtWinding DEF LInv, Fits, Here
<1>2. /\ site' \in Sites /\ site'.objects = site.objects \ {Here} /\ site'.kept = site.kept
      /\ site'.public = site.public /\ site'.drift = site.drift
      /\ site'.running \subseteq site.running /\ site'.profile = site.profile
  BY <1>0, <1>1 DEF Sites
<1>3. /\ life' \in {life, [life EXCEPT !.removed[Here] = "complete"]}
      /\ proc' = Removing(proc, site.objects \ {Here}) \/ proc' = Off
  BY <1>0, Says
<1>4. Beside(life')
  <2>1. Beside([life EXCEPT !.removed[Here] = "complete"])
    BY <1>1, BesideFields DEF Steps
  <2> QED BY <1>3, <2>1, Unmoved
<1>5. Rests'
  <2>0. /\ life'.stage = life.stage /\ life'.leg = life.leg
        /\ life'.attested = life.attested /\ life'.after = life.after
    BY <1>4 DEF Beside
  <2>1. ~Bound' \/ site'.profile = "absent" => site'.objects = {}
    BY <1>1, <1>2, <2>0 DEF Rests, Bound
  <2>2. \A t \in Tracks : host'.driver[t] \in Running => t \in site'.objects
    BY <1>1 DEF Quiet
  <2>3. \A s \in Services : life'.leg[s] # "none" => Up' /\ Quiet' /\ Gateways \notin site'.running
    BY <1>1, <1>2, <2>0 DEF Rests, Up
  <2>4. /\ \A s \in Services : life'.leg[s] \in {"bytes", "copied"} => site'.kept[s] = Sent'
        /\ life'.attested = "full" => Whole'
    BY <1>0, <1>1, <1>2, <2>0 DEF Rests, Sent, Whole, AllCompleted, Copied
  <2>5. /\ life'.after = "same" => ~site'.drift
        /\ site'.public = "complete" =>
             life'.attested = "full" /\ life'.after = "same" /\ site'.profile = "absent"
    BY <1>1, <1>2, <2>0 DEF Rests
  <2> QED BY <2>1, <2>2, <2>3, <2>4, <2>5 DEF Rests
<1>6. Leads
  <2>1. CASE proc' = Removing(proc, site.objects \ {Here})
    <3>1. site.objects \ {Here} \in SUBSET Objects
      BY <1>1 DEF Sites
    <3> QED BY <1>1, <1>2, <2>1, <3>1, LedToRemoving
  <2> QED BY <1>3, <2>1, Quits
<1>7. \E u \in Tracks : Moves(u)
  BY <1>0, <1>1, Nothing
<1> QED BY <1>2, <1>4, <1>5, <1>6, <1>7, StepKeeps DEF Beside
----------------------------------------------------------------------------
(***************************************************************************)
(* The end of `down`.                                                      *)
(***************************************************************************)
LEMMA AtEmptied ==
  ASSUME LInv, proc.at \in Emptied \cup Finals, host' = host
  PROVE  /\ site.objects = {} /\ Quiet /\ Quiet' /\ proc \in Processes /\ life \in Lives
         /\ site \in Sites /\ Rests /\ host \in Hosts
         /\ proc.at \in Finals => site.profile = "absent"
<1>1. proc.at \in Winding
  BY FinalPlaces
<1> QED BY <1>1, AtWinding DEF LInv, Fits

LEMMA LedToFinal ==
  ASSUME NEW p \in Processes, NEW place \in Emptied \cup Finals, proc' = To(p, place), Quiet',
         site'.objects = {}, place \in Finals => site'.profile = "absent"
  PROVE  Leads
<1>1. place \in LifePlaces
  BY FinalPlaces
<1>2. proc' \in Processes /\ proc'.at = place
  BY <1>1, ToPlace
<1> QED BY <1>2, LedToEmptied

LEMMA TopologyKeeps ==
  ASSUME LInv, Topology
  PROVE  LInv'
<1>0. UNCHANGED <<log, host, site>> /\ proc.at \in Emptied
  BY FinalPlaces DEF Topology, At
<1>1. site'.objects = {} /\ Quiet' /\ proc \in Processes
  BY <1>0, AtEmptied
<1>2. "stop" \in Emptied /\ "stop" \notin Finals
  BY FinalPlaces, Groups
<1>3. proc' = To(proc, "stop") => Leads
  BY <1>1, <1>2, LedToFinal
<1>4. Beside([life EXCEPT !.topology = TRUE])
  BY BesideFields
<1>5. CASE Say([life EXCEPT !.topology = TRUE], To(proc, "stop"))
  BY <1>0, <1>3, <1>4, <1>5, Unmoved, SaysBeside
<1>6. CASE Raise
  BY <1>0, <1>6, Quits, Unmoved, SilentBeside DEF Raise, Silently
<1> QED BY <1>5, <1>6 DEF Topology

\* The profile changes while nothing is in it.
LEMMA ProfileRests ==
  ASSUME LInv, site.objects = {}, log' = log, host' = host, Beside(life'),
         site'.objects = site.objects, site'.kept = site.kept, site'.public = site.public,
         site'.drift = site.drift, site'.running \subseteq site.running,
         site'.profile = "absent" \/ site.public # "complete"
  PROVE  Rests'
<1>1. Rests
  BY DEF LInv
<1>2. /\ life'.stage = life.stage /\ life'.leg = life.leg
      /\ life'.attested = life.attested /\ life'.after = life.after
  BY DEF Beside
<1>3. /\ ~Bound' \/ site'.profile = "absent" => site'.objects = {}
      /\ \A t \in Tracks : host'.driver[t] \in Running => t \in site'.objects
  BY <1>1 DEF Rests
<1>4. \A s \in Services : life'.leg[s] # "none" => Up' /\ Quiet' /\ Gateways \notin site'.running
  BY <1>1, <1>2 DEF Rests, Up, Quiet
<1>5. /\ \A s \in Services : life'.leg[s] \in {"bytes", "copied"} => site'.kept[s] = Sent'
      /\ life'.attested = "full" => Whole'
  BY <1>1, <1>2 DEF Rests, Sent, Whole, AllCompleted, Copied
<1>6. /\ life'.after = "same" => ~site'.drift
      /\ site'.public = "complete" =>
           life'.attested = "full" /\ life'.after = "same" /\ site'.profile = "absent"
  BY <1>1, <1>2 DEF Rests
<1> QED BY <1>3, <1>4, <1>5, <1>6 DEF Rests

LEMMA StopKeeps ==
  ASSUME LInv, Standing, Stop
  PROVE  LInv'
<1>0. /\ log' = log /\ host' = host /\ proc.at \in Emptied
      /\ site' = [site EXCEPT !.profile = "stopped", !.running = {}]
      /\ Say([life EXCEPT !.deletion = "intent"], To(proc, "delete"))
  BY FinalPlaces DEF Stop, At
<1>1. /\ site.objects = {} /\ Quiet' /\ proc \in Processes /\ site \in Sites /\ host \in Hosts
      /\ Rests
  BY <1>0, AtEmptied
<1>2. site.public # "complete"
  <2>1. site.profile # "absent"
    BY <1>0 DEF Standing, Underway
  <2> QED BY <1>1, <2>1 DEF Rests
<1>3. /\ site' \in Sites /\ site'.objects = site.objects /\ site'.kept = site.kept
      /\ site'.public = site.public /\ site'.drift = site.drift
      /\ site'.running \subseteq site.running
  BY <1>0, <1>1 DEF Sites
<1>4. /\ life' \in {life, [life EXCEPT !.deletion = "intent"]}
      /\ proc' = To(proc, "delete") \/ proc' = Off
  BY <1>0, Says
<1>5. Beside(life')
  <2>1. Beside([life EXCEPT !.deletion = "intent"])
    BY BesideFields
  <2> QED BY <1>4, <2>1, Unmoved
<1>6. Rests'
  BY <1>0, <1>1, <1>2, <1>3, <1>5, ProfileRests
<1>7. Leads
  <2>1. "delete" \in Emptied /\ "delete" \notin Finals
    BY FinalPlaces, Groups
  <2> QED BY <1>1, <1>3, <1>4, <2>1, Quits, LedToFinal
<1>8. \E u \in Tracks : Moves(u)
  BY <1>0, <1>1, Nothing
<1> QED BY <1>3, <1>5, <1>6, <1>7, <1>8, StepKeeps DEF Beside

LEMMA DeleteKeeps ==
  ASSUME LInv, Delete
  PROVE  LInv'
<1>0. /\ log' = log /\ host' = host /\ proc.at \in Emptied
      /\ site' = [site EXCEPT !.profile = "absent"]
      /\ Say([life EXCEPT !.deletion = "complete"], To(proc, "after"))
  BY FinalPlaces DEF Delete, At
<1>1. site.objects = {} /\ Quiet' /\ proc \in Processes /\ site \in Sites /\ host \in Hosts
  BY <1>0, AtEmptied
<1>2. /\ site' \in Sites /\ site'.objects = site.objects /\ site'.kept = site.kept
      /\ site'.public = site.public /\ site'.drift = site.drift
      /\ site'.running \subseteq site.running /\ site'.profile = "absent"
  BY <1>0, <1>1 DEF Sites
<1>3. /\ life' \in {life, [life EXCEPT !.deletion = "complete"]}
      /\ proc' = To(proc, "after") \/ proc' = Off
  BY <1>0, Says
<1>4. Beside(life')
  <2>1. Beside([life EXCEPT !.deletion = "complete"])
    BY BesideFields
  <2> QED BY <1>3, <2>1, Unmoved
<1>5. Rests'
  BY <1>0, <1>1, <1>2, <1>4, ProfileRests
<1>6. Leads
  <2>1. "after" \in Finals
    BY FinalPlaces
  <2> QED BY <1>1, <1>2, <1>3, <2>1, Quits, LedToFinal
<1>7. \E u \in Tracks : Moves(u)
  BY <1>0, <1>1, Nothing
<1> QED BY <1>2, <1>4, <1>5, <1>6, <1>7, StepKeeps DEF Beside

LEMMA AfterKeeps ==
  ASSUME LInv, After
  PROVE  LInv'
<1> DEFINE x == IF site.drift THEN "drift" ELSE "same"
<1>0. UNCHANGED <<log, host, site>> /\ proc.at \in Finals
  BY FinalPlaces DEF After, At
<1>1. /\ site'.objects = {} /\ Quiet' /\ proc \in Processes /\ site'.profile = "absent"
      /\ life \in Lives /\ site \in Sites /\ host \in Hosts /\ Rests
  BY <1>0, AtEmptied
<1>2. "judge" \in Finals
  BY FinalPlaces
<1>3. proc' = To(proc, "judge") => Leads
  BY <1>1, <1>2, LedToFinal
<1>4. CASE Raise
  BY <1>0, <1>4, Quits, Unmoved, SilentBeside DEF Raise, Silently
<1>5. CASE Silently(To(proc, "judge"))
  BY <1>0, <1>3, <1>5, Unmoved, SilentBeside DEF Silently
<1>6. CASE life.after = "none" /\ Say([life EXCEPT !.after = x], To(proc, "judge"))
  <2>1. /\ life' \in {life, [life EXCEPT !.after = x]}
        /\ proc' = To(proc, "judge") \/ proc' = Off
    <3> HIDE DEF x
    <3> QED BY <1>6, Says
  <2>2. /\ life' \in Lives /\ life'.stage = life.stage /\ life'.leg = life.leg
        /\ life'.attested = life.attested /\ (life'.after = "same" => ~site.drift)
    BY <1>1, <1>6, <2>1 DEF Lives
  <2>3. Rests'
    <3>1. site.public # "complete"
      BY <1>1, <1>6 DEF Rests
    <3>2. /\ ~Bound' \/ site'.profile = "absent" => site'.objects = {}
          /\ \A t \in Tracks : host'.driver[t] \in Running => t \in site'.objects
      BY <1>0, <1>1 DEF Rests
    <3>3. \A s \in Services : life'.leg[s] # "none" => Up' /\ Quiet' /\ Gateways \notin site'.running
      BY <1>0, <1>1, <2>2 DEF Rests, Up
    <3>4. /\ \A s \in Services : life'.leg[s] \in {"bytes", "copied"} => site'.kept[s] = Sent'
          /\ life'.attested = "full" => Whole'
      BY <1>0, <1>1, <2>2 DEF Rests, Sent, Whole, AllCompleted, Copied
    <3> QED BY <1>0, <2>2, <3>1, <3>2, <3>3, <3>4 DEF Rests
  <2>4. Leads
    BY <1>3, <2>1, Quits
  <2>5. \E u \in Tracks : Moves(u)
    BY <1>0, <1>1, Nothing
  <2> QED BY <1>0, <1>1, <2>2, <2>3, <2>4, <2>5, StepKeeps
<1> QED BY <1>4, <1>5, <1>6 DEF After

LEMMA Retold ==
  ASSUME NEW p \in Processes, NEW place \in Finals, NEW told \in BOOLEAN,
         proc' = [p EXCEPT !.told = told, !.at = place], Quiet', site'.objects = {},
         site'.profile = "absent"
  PROVE  Leads
<1>1. place \in Places
  BY FinalPlaces, LifePlacesApart
<1>2. proc' \in Processes /\ proc'.at = place
  BY <1>1 DEF Processes
<1> QED BY <1>2, LedToEmptied

LEMMA JudgeKeeps ==
  ASSUME LInv, Judge
  PROVE  LInv'
<1> DEFINE class == IF proc.cmd = "down" THEN proc.told ELSE RecordedComplete
<1>0. UNCHANGED <<log, host, site, life>> /\ proc.at \in Finals
  BY FinalPlaces DEF Judge, At, Silently, Raise
<1>1. /\ site'.objects = {} /\ Quiet' /\ proc \in Processes /\ site'.profile = "absent"
      /\ class \in BOOLEAN
  <2>1. /\ site'.objects = {} /\ Quiet' /\ proc \in Processes /\ site'.profile = "absent"
    BY <1>0, AtEmptied
  <2>2. proc.told \in BOOLEAN
    BY <2>1 DEF Processes
  <2>3. RecordedComplete \in BOOLEAN
    BY DEF RecordedComplete
  <2>4. class \in BOOLEAN
    BY <2>2, <2>3
  <2> QED BY <2>1, <2>4
<1>2. Leads
  <2>1. CASE proc' = Off
    BY <2>1, Quits
  <2>2. ASSUME NEW place \in {"archive", "recheck"}, proc' = To(proc, place) PROVE Leads
    <3>1. place \in Finals
      BY FinalPlaces
    <3> QED BY <1>1, <2>2, <3>1, LedToFinal
  <2>3. CASE proc' = [proc EXCEPT !.at = "intend", !.told = class]
    <3>1. "intend" \in Finals
      BY FinalPlaces
    <3>2. proc' = [proc EXCEPT !.told = class, !.at = "intend"]
      BY <2>3, <1>1 DEF Processes
    <3> HIDE DEF class
    <3> QED BY <1>1, <3>1, <3>2, Retold
  <2>4. ASSUME NEW place \in {"fail_intent", "intend", "fail_prepare"},
               proc' = [proc EXCEPT !.told = FALSE, !.at = place]
        PROVE  Leads
    <3>1. place \in Finals
      BY FinalPlaces
    <3> QED BY <1>1, <2>4, <3>1, Retold
  <2>5. (CASE life.failure = "none"     -> "fail_intent"
           [] life.failure = "prepared" -> "intend"
           [] OTHER                     -> "fail_prepare")
          \in {"fail_intent", "intend", "fail_prepare"}
    OBVIOUS
  <2> QED BY <2>1, <2>2, <2>3, <2>4, <2>5 DEF Judge, Silently, Raise
<1> QED BY <1>0, <1>2, Unmoved, SilentBeside
----------------------------------------------------------------------------
\* A step of the end that says or keeps something beside the point.
LEMMA FinalSays ==
  ASSUME LInv, proc.at \in Finals, log' = log, host' = host, Around(site'), NEW new,
         NEW place \in Finals, Beside(new), Say(new, To(proc, place))
  PROVE  LInv'
<1>1. /\ site.objects = {} /\ Quiet' /\ proc \in Processes /\ site.profile = "absent"
  BY AtEmptied
<1>2. proc' = To(proc, place) => Leads
  BY <1>1, LedToFinal DEF Around
<1> QED BY <1>2, SaysBeside

LEMMA FinalSilent ==
  ASSUME LInv, proc.at \in Finals, log' = log, host' = host, Around(site'), life' = life,
         proc' = Off \/ \E place \in Finals : proc' = To(proc, place)
  PROVE  LInv'
<1>1. /\ site.objects = {} /\ Quiet' /\ proc \in Processes /\ site.profile = "absent"
  BY AtEmptied
<1>2. Leads
  BY <1>1, LedToFinal, Quits DEF Around
<1> QED BY <1>2, SilentBeside

LEMMA FailuresKeep ==
  ASSUME LInv, FailIntent \/ FailPrepare
  PROVE  LInv'
<1>1. CASE FailIntent
  <2>1. /\ UNCHANGED <<log, host, site>> /\ proc.at \in Finals /\ "fail_prepare" \in Finals
        /\ Say([life EXCEPT !.failure = "intent"], To(proc, "fail_prepare"))
    BY <1>1, FinalPlaces DEF FailIntent, At
  <2>2. Beside([life EXCEPT !.failure = "intent"])
    BY BesideFields
  <2> QED BY <2>1, <2>2, Unmoved, FinalSays
<1>2. CASE FailPrepare
  <2>1. /\ log' = log /\ host' = host /\ proc.at \in Finals /\ "intend" \in Finals
    BY <1>2, FinalPlaces DEF FailPrepare, At
  <2>2. CASE /\ site' = [site EXCEPT !.provisional = "incomplete"]
             /\ Say([life EXCEPT !.failure = "prepared"], To(proc, "intend"))
    <3>1. Beside([life EXCEPT !.failure = "prepared"]) /\ Around(site')
      BY <2>2, BesideFields DEF Classes
    <3> QED BY <2>1, <2>2, <3>1, FinalSays
  <2>3. CASE site' = site /\ Raise
    BY <2>1, <2>3, Unmoved, FinalSilent DEF Raise, Silently
  <2> QED BY <1>2, <2>2, <2>3 DEF FailPrepare
<1> QED BY <1>1, <1>2

LEMMA ClassNames ==
  ASSUME NEW b \in BOOLEAN
  PROVE  /\ Class(b) \in Classes /\ Class(b) \in {"complete", "incomplete"}
         /\ Class(b) = "complete" => b
BY DEF Class, Classes

LEMMA IntendKeeps ==
  ASSUME LInv, Intend
  PROVE  LInv'
<1>1. UNCHANGED <<log, host, site>> /\ proc.at \in Finals /\ "finalize" \in Finals
  BY FinalPlaces DEF Intend, At
<1>2. Class(proc.told) \in Classes
  BY ClassNames DEF LInv, Sound, STypeOK, Processes
<1>3. CASE Raise
  BY <1>1, <1>3, Unmoved, FinalSilent DEF Raise, Silently
<1>4. CASE Silently(To(proc, "finalize"))
  BY <1>1, <1>4, Unmoved, FinalSilent DEF Silently
<1>5. CASE Say([life EXCEPT !.intent = Class(proc.told)], To(proc, "finalize"))
  <2>1. Beside([life EXCEPT !.intent = Class(proc.told)])
    BY <1>2, BesideFields
  <2> QED BY <1>1, <1>5, <2>1, Unmoved, FinalSays
<1> QED BY <1>3, <1>4, <1>5 DEF Intend

\* What is public changes when all else is over.
LEMMA PublicRests ==
  ASSUME LInv, UNCHANGED <<log, host, life>>,
         site'.profile = site.profile, site'.objects = site.objects,
         site'.running = site.running, site'.kept = site.kept, site'.drift = site.drift,
         site'.public = "complete" =>
           life.attested = "full" /\ life.after = "same" /\ site.profile = "absent"
  PROVE  Rests'
<1>1. Rests
  BY DEF LInv
<1>2. /\ ~Bound' \/ site'.profile = "absent" => site'.objects = {}
      /\ \A t \in Tracks : host'.driver[t] \in Running => t \in site'.objects
      /\ life'.after = "same" => ~site'.drift
  BY <1>1 DEF Rests, Bound
<1>3. \A s \in Services : life'.leg[s] # "none" => Up' /\ Quiet' /\ Gateways \notin site'.running
  BY <1>1 DEF Rests, Up, Quiet
<1>4. /\ \A s \in Services : life'.leg[s] \in {"bytes", "copied"} => site'.kept[s] = Sent'
      /\ life'.attested = "full" => Whole'
  BY <1>1 DEF Rests, Sent, Whole, AllCompleted, Copied
<1> QED BY <1>2, <1>3, <1>4 DEF Rests

LEMMA PublicKeeps ==
  ASSUME LInv, proc.at \in Finals, UNCHANGED <<log, host, life>>,
         NEW x \in Classes, site' = [site EXCEPT !.public = x],
         x = "complete" => life.attested = "full" /\ life.after = "same",
         proc' = Off \/ \E place \in Finals : proc' = To(proc, place)
  PROVE  LInv'
<1>1. /\ site.objects = {} /\ Quiet' /\ proc \in Processes /\ site.profile = "absent"
      /\ life \in Lives /\ site \in Sites /\ host \in Hosts
  BY AtEmptied
<1>2. /\ site' \in Sites /\ site'.public = x /\ site'.profile = site.profile
      /\ site'.objects = site.objects /\ site'.running = site.running
      /\ site'.kept = site.kept /\ site'.drift = site.drift
  BY <1>1 DEF Sites
<1>3. Rests'
  BY <1>1, <1>2, PublicRests
<1>4. Leads
  BY <1>1, <1>2, LedToFinal, Quits
<1>5. \E u \in Tracks : Moves(u)
  BY <1>1, Nothing
<1> QED BY <1>1, <1>2, <1>3, <1>4, <1>5, StepKeeps

LEMMA FinalizeKeeps ==
  ASSUME LInv, Finalize
  PROVE  LInv'
<1>1. log' = log /\ host' = host /\ proc.at \in Finals /\ "publish" \in Finals
  BY FinalPlaces DEF Finalize, At
<1>2. CASE /\ Publishable /\ site' = [site EXCEPT !.public = Class(proc.told)]
           /\ Silently(To(proc, "publish"))
  <2>1. Class(proc.told) \in Classes /\ (Class(proc.told) = "complete" => proc.told)
    BY ClassNames DEF LInv, Sound, STypeOK, Processes
  <2>2. Class(proc.told) = "complete" => life.attested = "full" /\ life.after = "same"
    BY <1>2, <2>1 DEF Publishable
  <2>3. life' = life /\ \E place \in Finals : proc' = To(proc, place)
    BY <1>1, <1>2 DEF Silently
  <2> QED BY <1>1, <1>2, <2>1, <2>2, <2>3, PublicKeeps
<1>3. CASE site' = site /\ Raise
  BY <1>1, <1>3, Unmoved, FinalSilent DEF Raise, Silently
<1> QED BY <1>2, <1>3 DEF Finalize

LEMMA PublishKeeps ==
  ASSUME LInv, Publish
  PROVE  LInv'
<1> DEFINE new == [life EXCEPT !.published = TRUE]
           place == IF proc.cmd = "down" THEN "archive" ELSE "recheck"
<1>1. UNCHANGED <<log, host, site>> /\ proc.at \in Finals
      /\ place \in Finals /\ "quarantine" \in Finals
  BY FinalPlaces DEF Publish, At
<1>2. /\ life' \in {life, new}
      /\ (proc' = To(proc, place) /\ life' = new) \/ proc' \in {To(proc, "quarantine"), Off}
  BY Appends DEF Publish
<1>3. /\ site.objects = {} /\ Quiet' /\ proc \in Processes /\ site.profile = "absent"
  BY <1>1, AtEmptied
<1>4. Beside(life')
  <2>1. Beside(new)
    BY BesideFields
  <2> HIDE DEF new
  <2> QED BY <1>2, <2>1, Unmoved
<1>5. Leads
  <2> HIDE DEF new, place
  <2> QED BY <1>1, <1>2, <1>3, LedToFinal, Quits
<1> QED BY <1>1, <1>4, <1>5, Unmoved, StepAside DEF Around, Beside

LEMMA QuarantineKeeps ==
  ASSUME LInv, Quarantine
  PROVE  LInv'
<1>1. UNCHANGED <<log, host, life>> /\ proc.at \in Finals /\ proc' = Off
  BY FinalPlaces DEF Quarantine, At
<1>2. CASE site' = [site EXCEPT !.public = "none"]
  BY <1>1, <1>2, PublicKeeps DEF Classes
<1>3. CASE site' = site
  BY <1>1, <1>3, Unmoved, FinalSilent
<1> QED BY <1>2, <1>3 DEF Quarantine

LEMMA RecheckKeeps ==
  ASSUME LInv, Recheck
  PROVE  LInv'
<1>1. UNCHANGED <<log, host, site>> /\ proc.at \in Finals /\ "archive" \in Finals
  BY FinalPlaces DEF Recheck, At
<1>2. CASE Say([life EXCEPT !.published = TRUE], To(proc, "archive"))
  <2>1. Beside([life EXCEPT !.published = TRUE])
    BY BesideFields
  <2> QED BY <1>1, <1>2, <2>1, Unmoved, FinalSays
<1>3. CASE Raise
  BY <1>1, <1>3, Unmoved, FinalSilent DEF Raise, Silently
<1> QED BY <1>2, <1>3 DEF Recheck

LEMMA ArchiveKeeps ==
  ASSUME LInv, Archive
  PROVE  LInv'
<1>1. UNCHANGED <<log, host, life>> /\ proc.at \in Finals /\ "quarantine" \in Finals
  BY FinalPlaces DEF Archive, At
<1>2. Around(site')
  <2>1. /\ Around([site EXCEPT !.state = FALSE])
        /\ Around([site EXCEPT !.archived = TRUE, !.state = FALSE])
    BY BesideFields
  <2> QED BY <2>1 DEF Archive
<1>3. proc' = Off \/ \E place \in Finals : proc' = To(proc, place)
  BY <1>1 DEF Archive
<1> QED BY <1>1, <1>2, <1>3, FinalSilent
----------------------------------------------------------------------------
(***************************************************************************)
(* The world, and what has to stand while `down` works.                    *)
(***************************************************************************)
\* Nothing moves, but perhaps a foreign profile that was not looked at again.
LEMMA StillKeeps ==
  ASSUME LInv, UNCHANGED <<log, host, proc, life>>, site' \in Sites,
         site'.profile = site.profile, site'.objects = site.objects,
         site'.running = site.running, site'.kept = site.kept, site'.public = site.public,
         site'.drift = site.drift \/ life.after = "none"
  PROVE  LInv'
<1>1. /\ Sound /\ Fits /\ Rests /\ life \in Lives /\ log \in Logs /\ host \in Hosts /\ OnCourse
  BY SoundParts DEF LInv
<1>2. \E u \in Tracks : Moves(u)
  BY <1>1, Nothing
<1>3. OnCourse'
  BY <1>1 DEF OnCourse, Course, Reached
<1>4. Sound'
  BY <1>1, <1>2, <1>3, SoundStays
<1>5. Whole' <=> Whole
  BY DEF Whole, AllCompleted, Copied
<1>6. Fits'
  BY <1>1, <1>5 DEF Fits, Up, Quiet
<1>7. Rests'
  <2>1. /\ ~Bound' \/ site'.profile = "absent" => site'.objects = {}
        /\ \A t \in Tracks : host'.driver[t] \in Running => t \in site'.objects
    BY <1>1 DEF Rests, Bound
  <2>2. \A s \in Services : life'.leg[s] # "none" => Up' /\ Quiet' /\ Gateways \notin site'.running
    BY <1>1 DEF Rests, Up, Quiet
  <2>3. \A s \in Services : life'.leg[s] \in {"bytes", "copied"} => site'.kept[s] = Sent'
    BY <1>1 DEF Rests, Sent
  <2>4. /\ life'.attested = "full" => Whole'
        /\ life'.after = "same" => ~site'.drift
        /\ site'.public = "complete" =>
             life'.attested = "full" /\ life'.after = "same" /\ site'.profile = "absent"
    BY <1>1, <1>5 DEF Rests
  <2> QED BY <2>1, <2>2, <2>3, <2>4 DEF Rests
<1> QED BY <1>1, <1>4, <1>6, <1>7 DEF LInv

LEMMA WorldKeeps ==
  ASSUME LInv, World
  PROVE  LInv'
<1>1. CASE Drivers /\ UNCHANGED <<life, site>>
  BY <1>1, DriversKeep
<1>2. CASE Crash /\ UNCHANGED <<life, site>>
  BY <1>2, Quits, Unmoved, SilentBeside DEF Crash
<1>3. CASE ForeignProfileChanges
  <2>1. /\ UNCHANGED <<log, host, proc, life>> /\ life.after = "none"
        /\ site' = [site EXCEPT !.drift = TRUE] /\ site \in Sites
    BY <1>3 DEF ForeignProfileChanges, LInv
  <2>2. /\ site' \in Sites /\ site'.profile = site.profile /\ site'.objects = site.objects
        /\ site'.running = site.running /\ site'.kept = site.kept /\ site'.public = site.public
    BY <2>1 DEF Sites
  <2> QED BY <2>1, <2>2, StillKeeps
<1>4. CASE Reboot
  <2>1. /\ Rebooted /\ proc' = Off /\ life' = life /\ site.profile = "running"
        /\ site' = [site EXCEPT !.profile = "stopped", !.running = {}]
        /\ site \in Sites /\ life \in Lives /\ host \in Hosts
    BY <1>4 DEF Reboot, Rebooted, LInv, Sound, STypeOK
  <2>2. /\ site' \in Sites /\ site'.profile = "stopped" /\ site'.objects = site.objects
        /\ site'.running = {} /\ site'.kept = site.kept /\ site'.public = site.public
        /\ site'.drift = site.drift
    BY <2>1 DEF Sites
  <2>3. \A t \in Tracks : host'.driver[t] \in Running => host.driver[t] \in Running
    BY <2>1 DEF Rebooted, Hosts, Running
  <2>4. Rests'
    BY <2>1, <2>2, <2>3, Unmoved, RestsThrough
  <2> QED BY <2>1, <2>2, <2>4, Quits, StepKeeps
<1> QED BY <1>1, <1>2, <1>3, <1>4 DEF World

LEMMA UnderwayPlaces ==
  /\ Underway \cap Finals = {} /\ Underway \cap AtSession = {} /\ Underway \cap Building = {}
  /\ "off" \notin Underway /\ "collect" \notin Underway
  /\ \A place \in {"load", "strand", "quiesce", "quiesced", "partial", "stop_service",
                   "stopped_service", "freeze", "leg", "leg_end", "freeze_end", "prepare",
                   "attest", "reject", "remove", "removed", "topology"} : place \in Underway
BY DEF Underway, Closing, Freezes, Objected, Emptied, Finals, AtSession, Venturing, Opening,
       Asking, Tending, Elsewhere, Building, Creating

LEMMA OffStands ==
  ASSUME proc' = Off
  PROVE  Standing'
BY OffIsCalm, UnderwayPlaces DEF Standing

LEMMA BeginningStands ==
  ASSUME LInv, UpBegins \/ CollectBegins \/ DownAbsent \/ DownPresent
  PROVE  Standing'
<1>1. /\ Started("up", "up_before").at = "up_before"
      /\ Started("collect", "collect").at = "collect"
      /\ Started("redown", "after").at = "after"
  BY DEF Started, Off
<1>2. "up_before" \in Building /\ "after" \in Finals
  BY BuildingPlaces, FinalPlaces
<1>3. CASE UpBegins
  <2>1. proc' = Started("up", "up_before") \/ proc' = Off
    BY <1>3, Says DEF UpBegins
  <2> QED BY <1>1, <1>2, <2>1, OffStands, UnderwayPlaces DEF Standing
<1>4. CASE CollectBegins
  BY <1>1, <1>4, UnderwayPlaces DEF CollectBegins, Standing
<1>5. CASE DownAbsent
  <2>1. proc' = Started("redown", "after") \/ proc' = Off
    BY <1>5, Says DEF DownAbsent
  <2> QED BY <1>1, <1>2, <2>1, OffStands, UnderwayPlaces DEF Standing
<1>6. CASE DownPresent
  <2>1. site' = [site EXCEPT !.profile = "running"] /\ site \in Sites
    BY <1>6 DEF DownPresent, LInv
  <2>2. site'.profile = "running"
    BY <2>1 DEF Sites
  <2> QED BY <2>2 DEF Standing
<1> QED BY <1>3, <1>4, <1>5, <1>6

LEMMA UpStands ==
  ASSUME LInv, UpProgram
  PROVE  Standing'
<1>0. proc \in Processes
  BY DEF LInv, Sound, STypeOK
<1>1. \A place : To(proc, place).at = place
  BY <1>0 DEF To, Processes
<1>2. \A o : [proc EXCEPT !.at = "up_create", !.t = o].at = "up_create"
  BY <1>0 DEF Processes
<1>3. \A place \in {"up_intent", "up_start", "up_owned", "up_bind", "up_create", "up_created",
                    "up_state", "up_complete"} : place \notin Underway
  BY BuildingPlaces, UnderwayPlaces
<1>4. proc' = Off \/ proc'.at \in {"up_intent", "up_start", "up_owned", "up_bind", "up_create",
                                   "up_created", "up_state", "up_complete"}
  <2>1. CASE UpStart
    BY <1>1, <2>1 DEF UpStart
  <2>2. CASE UpCreated
    <3> DEFINE next == IF Here = 1 THEN To(proc, "up_state")
                       ELSE [proc EXCEPT !.at = "up_create", !.t = Here - 1]
               new == [life EXCEPT !.created[Here] = "complete"]
    <3>1. next.at \in {"up_state", "up_create"}
      BY <1>1, <1>2
    <3>2. Say(new, next)
      BY <2>2 DEF UpCreated
    <3> HIDE DEF new, next
    <3>3. proc' = next \/ proc' = Off
      BY <3>2, Says
    <3> QED BY <3>1, <3>3
  <2>3. CASE UpState
    BY <1>1, <2>3 DEF UpState
  <2>4. CASE UpEvents
    <3>1. ASSUME NEW new, NEW next, Say(new, next),
                 next = Off \/ next.at \in {"up_intent", "up_start", "up_bind", "up_create",
                                           "up_created"}
          PROVE  proc' = Off \/ proc'.at \in {"up_intent", "up_start", "up_bind", "up_create",
                                             "up_created"}
      BY <3>1, Says
    <3> QED BY <1>1, <1>2, <2>4, <3>1 DEF UpEvents
  <2> QED BY <2>1, <2>2, <2>3, <2>4 DEF UpProgram
<1> QED BY <1>3, <1>4, OffStands DEF Standing

\* Until the profile is stopped `down` leaves it alone.
LEMMA ProfileStands ==
  ASSUME Standing, proc.at \in Underway, site'.profile = site.profile
  PROVE  Standing'
BY DEF Standing

LEMMA DownStands ==
  ASSUME LInv, Standing, DownProgram
  PROVE  Standing'
<1>0. proc \in Processes /\ site \in Sites
  BY DEF LInv, Sound, STypeOK
<1>1. \A place : To(proc, place).at = place
  BY <1>0 DEF To, Processes
<1>2. CASE Load \/ Strand \/ Quiesce \/ Quiesced \/ PartialUp \/ StopService
           \/ Freeze \/ LegEnd \/ FreezeEnd \/ Attest \/ Reject \/ Remove \/ Topology
  <2>1. site' = site
    BY <1>2 DEF Load, Strand, Quiesce, Quiesced, PartialUp, StopService, Freeze, LegEnd,
                FreezeEnd, Attest, Reject, Remove, Topology
  <2>2. proc.at \in Underway
    BY <1>2, UnderwayPlaces DEF Load, Strand, Quiesce, Quiesced, PartialUp, StopService, Freeze,
          LegEnd, FreezeEnd, Attest, Reject, Remove, Topology, At
  <2> QED BY <2>1, <2>2, ProfileStands
<1>3. CASE StoppedService \/ Leg \/ Prepare \/ Removed
  <2>1. site'.profile = site.profile
    <3>1. CASE StoppedService
      BY <1>0, <3>1 DEF StoppedService, Sites
    <3>2. CASE Leg
      BY <1>0, <3>2 DEF Leg, Sites
    <3>3. CASE Prepare
      BY <1>0, <3>3 DEF Prepare, Sites
    <3>4. CASE Removed
      BY <1>0, <3>4 DEF Removed, Sites
    <3> QED BY <1>3, <3>1, <3>2, <3>3, <3>4
  <2>2. proc.at \in Underway
    BY <1>3, UnderwayPlaces DEF StoppedService, Leg, Prepare, Removed, At
  <2> QED BY <2>1, <2>2, ProfileStands
<1>4. CASE Stop
  <2>1. site'.profile = "stopped"
    BY <1>0, <1>4 DEF Stop, Sites
  <2> QED BY <2>1 DEF Standing
<1>5. CASE Delete \/ After \/ FailIntent \/ FailPrepare \/ Intend \/ Finalize \/ Publish
           \/ Quarantine \/ Recheck \/ Archive
  <2>1. proc' = Off \/ proc'.at \in {"after", "judge", "fail_prepare", "intend", "finalize",
                                     "publish", "archive", "recheck", "quarantine"}
    <3>1. CASE Delete \/ After \/ FailIntent \/ FailPrepare
      BY <1>1, <3>1 DEF Delete, After, FailIntent, FailPrepare, Say, AppendLife, Silently, Raise
    <3>2. CASE Intend \/ Finalize \/ Publish
      BY <1>1, <3>2 DEF Intend, Finalize, Publish, Say, AppendLife, Silently, Raise
    <3>3. CASE Quarantine \/ Recheck \/ Archive
      BY <1>1, <3>3 DEF Quarantine, Recheck, Archive, Say, AppendLife, Silently, Raise
    <3> QED BY <1>5, <3>1, <3>2, <3>3
  <2>2. \A place \in {"after", "judge", "fail_prepare", "intend", "finalize",
                      "publish", "archive", "recheck", "quarantine"} : place \notin Underway
    BY FinalPlaces, UnderwayPlaces
  <2> QED BY <2>1, <2>2, OffStands DEF Standing
<1>6. CASE Judge
  <2>1. site' = site /\ site.profile = "absent" /\ proc.at \in Finals
    BY <1>6, FinalPlaces DEF Judge, At, LInv, Fits
  <2> DEFINE class == IF proc.cmd = "down" THEN proc.told ELSE RecordedComplete
             failing == CASE life.failure = "none"     -> "fail_intent"
                          [] life.failure = "prepared" -> "intend"
                          [] OTHER                     -> "fail_prepare"
  <2>2. /\ [proc EXCEPT !.at = "intend", !.told = class].at = "intend"
        /\ [proc EXCEPT !.told = FALSE, !.at = failing].at = failing
    <3> HIDE DEF class, failing
    <3> QED BY <1>0 DEF Processes
  <2>3. failing \in {"fail_intent", "intend", "fail_prepare"}
    OBVIOUS
  <2>4. proc' \in {Off, To(proc, "archive"), To(proc, "recheck"),
                   [proc EXCEPT !.at = "intend", !.told = class],
                   [proc EXCEPT !.told = FALSE, !.at = failing]}
    BY <1>6 DEF Judge, Silently, Raise
  <2>5. proc' = Off \/ proc'.at \in {"archive", "recheck", "intend", "fail_intent", "fail_prepare"}
    <3> HIDE DEF class, failing
    <3> QED BY <1>1, <2>2, <2>3, <2>4
  <2>6. \A place \in {"archive", "recheck", "intend", "fail_intent", "fail_prepare"} :
          place \notin Underway
    BY FinalPlaces, UnderwayPlaces
  <2> QED BY <2>5, <2>6, OffStands DEF Standing
<1> QED BY <1>2, <1>3, <1>4, <1>5, <1>6 DEF DownProgram
----------------------------------------------------------------------------
(***************************************************************************)
(* The invariant, and what it shows.                                       *)
(***************************************************************************)
LifeInv == LInv /\ Standing

LEMMA LifeInitInv == LifeInit => LifeInv
<1> SUFFICES ASSUME LifeInit PROVE LifeInv
  OBVIOUS
<1>1. /\ Init
      /\ life = [stage |-> "none", created |-> [o \in Objects |-> "unstarted"],
                 removed |-> [o \in Objects |-> "unstarted"],
                 stops |-> [s \in Services |-> "unstarted"], freeze |-> "none",
                 leg |-> [s \in Services |-> "none"], evidence |-> "none",
                 attested |-> "none", failure |-> "none", topology |-> FALSE,
                 deletion |-> "none", after |-> "none", intent |-> "none",
                 published |-> FALSE]
      /\ site = [profile |-> "absent", objects |-> {}, running |-> {}, state |-> FALSE,
                 kept |-> [s \in Services |-> {}], provisional |-> "none",
                 public |-> "none", archived |-> FALSE, drift |-> FALSE]
  BY DEF LifeInit
<1>2. life \in Lives
  BY <1>1 DEF Lives, Progress, Steps, Classes
<1>3. site \in Sites
  BY <1>1 DEF Sites, Classes
<1>4. /\ log = [session |-> "none", driver |-> [t \in Tracks |-> "unstarted"],
                stops |-> [t \in Tracks |-> "unstarted"], cancelled |-> {},
                request |-> [t \in Tracks |-> "not_attempted"],
                failure |-> [t \in Tracks |-> "none"]]
      /\ host = [driver |-> [t \in Tracks |-> "created"], sent |-> [t \in Tracks |-> 0],
                 result |-> [t \in Tracks |-> "none"], records |-> {}]
      /\ proc = Off
  BY <1>1 DEF Init
<1>5. log \in Logs
  BY <1>4 DEF Logs, Sessions, DriverStates, Stops, RequestStages, Provenances
<1>6. host \in Hosts
  BY <1>4 DEF Hosts, Containers
<1>7. Truths
  <2> SUFFICES ASSUME NEW t \in Tracks PROVE Truth(t)
    BY DEF Truths
  <2>1. /\ log.driver[t] = "unstarted" /\ log.stops[t] = "unstarted" /\ t \notin log.cancelled
        /\ log.request[t] = "not_attempted" /\ log.failure[t] = "none"
        /\ host.driver[t] = "created" /\ host.sent[t] = 0
    BY <1>4
  <2> QED BY <2>1 DEF Truth, Reached
<1>8. OnCourse
  <2>1. Calm(proc)
    BY <1>4, OffIsCalm
  <2>2. /\ proc \in Processes /\ proc.at = "off"
    BY <1>4, OffIsCalm
  <2>3. "off" \notin Opening /\ "off" \notin Asking /\ "off" \notin Venturing
        /\ "off" \notin Tending /\ "off" \notin Closing /\ "off" \notin Holding
    BY DEF Venturing, Opening, Asking, Tending, Closing, Holding
  <2> QED BY <2>2, <2>3 DEF OnCourse, Course
<1>9. Sound
  BY <1>5, <1>6, <1>7, <1>8, SoundParts
<1>10. proc.at = "off"
  BY <1>4, OffIsCalm
<1>11. Fits
  <2>1. /\ "off" \notin Building /\ "off" \notin Winding /\ "off" \notin {"quiesce", "quiesced"}
    BY Groups
  <2> QED BY <1>10, <2>1, Groups, TypedPlaces DEF Fits
<1>12. Rests
  <2>1. /\ site.objects = {} /\ site.public # "complete" /\ life.attested # "full"
        /\ life.after # "same" /\ \A s \in Services : life.leg[s] = "none"
    BY <1>1
  <2>2. \A t \in Tracks : host.driver[t] \notin Running
    BY <1>4 DEF Running
  <2> QED BY <2>1, <2>2 DEF Rests
<1>13. Standing
  BY <1>10, UnderwayPlaces DEF Standing
<1> QED BY <1>2, <1>3, <1>9, <1>11, <1>12, <1>13 DEF LifeInv, LInv

LEMMA UpProgramKeeps ==
  ASSUME LInv, UpProgram
  PROVE  LInv'
BY UpStartKeeps, UpCreatedKeeps, UpStateKeeps, UpEventsKeep DEF UpProgram

LEMMA DownProgramKeeps ==
  ASSUME LInv, Standing, DownProgram
  PROVE  LInv'
<1>1. CASE Load \/ Strand \/ Quiesce \/ Quiesced
  BY <1>1, LoadKeeps, StrandKeeps, QuiesceKeeps, QuiescedKeeps
<1>2. CASE PartialUp \/ StopService \/ StoppedService
  BY <1>2, PartialUpKeeps, StopServiceKeeps, StoppedServiceKeeps
<1>3. CASE Freeze \/ Leg \/ LegEnd \/ FreezeEnd
  BY <1>3, FreezeKeeps, LegKeeps, LegEndKeeps, FreezeEndKeeps
<1>4. CASE Prepare \/ Attest \/ Reject
  BY <1>4, PrepareKeeps, AttestKeeps, RejectKeeps
<1>5. CASE Remove \/ Removed \/ Topology \/ Stop \/ Delete
  BY <1>5, RemoveKeeps, RemovedKeeps, TopologyKeeps, StopKeeps, DeleteKeeps
<1>6. CASE After \/ Judge \/ FailIntent \/ FailPrepare \/ Intend
  BY <1>6, AfterKeeps, JudgeKeeps, FailuresKeep, IntendKeeps
<1>7. CASE Finalize \/ Publish \/ Quarantine \/ Recheck \/ Archive
  BY <1>7, FinalizeKeeps, PublishKeeps, QuarantineKeeps, RecheckKeeps, ArchiveKeeps
<1> QED BY <1>1, <1>2, <1>3, <1>4, <1>5, <1>6, <1>7 DEF DownProgram

\* A session stays among the places of sessions.
LEMMA SessionStands ==
  ASSUME LInv, Standing,
         \/ \E cmd \in {"readiness", "run"} : Use(cmd)
         \/ Program /\ UNCHANGED <<life, site>>
         \/ World
  PROVE  Standing'
<1>1. CASE \E cmd \in {"readiness", "run"} : Use(cmd)
  <2>1. proc'.at \in AtSession
    BY <1>1, BeginAdvances DEF LInv, Use, Advanced, Landed
  <2> QED BY <2>1, UnderwayPlaces DEF Standing
<1>2. CASE Program /\ UNCHANGED <<life, site>>
  <2>1. proc'.at \in AtSession
    BY <1>2, ProgramAdvances DEF LInv, Advanced, Landed
  <2> QED BY <2>1, UnderwayPlaces DEF Standing
<1>3. CASE World
  <2>1. CASE Drivers /\ UNCHANGED <<life, site>>
    <3>1. proc' = proc /\ site' = site
      BY <2>1, DriversMove DEF LInv
    <3> QED BY <3>1 DEF Standing
  <2>2. CASE Crash /\ UNCHANGED <<life, site>>
    BY <2>2, OffStands DEF Crash
  <2>3. CASE ForeignProfileChanges
    <3>1. proc' = proc /\ site' = [site EXCEPT !.drift = TRUE] /\ site \in Sites
      BY <2>3 DEF ForeignProfileChanges, LInv
    <3>2. site'.profile = site.profile
      BY <3>1 DEF Sites
    <3> QED BY <3>1, <3>2 DEF Standing
  <2>4. CASE Reboot
    BY <2>4, OffStands DEF Reboot
  <2> QED BY <1>3, <2>1, <2>2, <2>3, <2>4 DEF World
<1> QED BY <1>1, <1>2, <1>3

LEMMA LifeNextInv == LifeInv /\ [LifeNext]_lifecycle => LifeInv'
<1> SUFFICES ASSUME LInv, Standing, [LifeNext]_lifecycle PROVE LInv' /\ Standing'
  BY DEF LifeInv
<1>1. CASE UpBegins \/ CollectBegins \/ Down
  BY <1>1, UpBeginsKeeps, CollectKeeps, DownAbsentKeeps, DownPresentKeeps, BeginningStands
     DEF Down
<1>2. CASE \E cmd \in {"readiness", "run"} : Use(cmd)
  BY <1>2, UseKeeps, SessionStands
<1>3. CASE UpProgram
  BY <1>3, UpProgramKeeps, UpStands
<1>4. CASE Collect
  <2>1. proc' = Off
    BY <1>4 DEF Collect, Say, AppendLife, Raise, Silently
  <2> QED BY <1>4, <2>1, CollectKeeps, OffStands
<1>5. CASE DownProgram
  BY <1>5, DownProgramKeeps, DownStands
<1>6. CASE Program /\ UNCHANGED <<life, site>>
  BY <1>6, ProgramKeeps, SessionStands
<1>7. CASE World
  BY <1>7, WorldKeeps, SessionStands
<1>8. CASE UNCHANGED lifecycle
  <2>1. UNCHANGED <<log, host, proc, life, site>>
    BY <1>8 DEF lifecycle
  <2>2. site' \in Sites
    BY <2>1 DEF LInv
  <2> QED BY <2>1, <2>2, StillKeeps DEF Standing
<1> QED BY <1>1, <1>2, <1>3, <1>4, <1>5, <1>6, <1>7, <1>8 DEF LifeNext, Step

\* The journal is true to the drivers, and the process to the journal, through
\* every step of a lifecycle (V3B1Session, and _load_for_down to _archive).
THEOREM LifecycleIsSound == LifeSpec => []LifeInv
<1>1. LifeInit => LifeInv
  BY LifeInitInv
<1>2. LifeInv /\ [LifeNext]_lifecycle => LifeInv'
  BY LifeNextInv
<1> QED BY <1>1, <1>2, PTL DEF LifeSpec

\* A request leaves at most once, and never without the durable intent to write
\* its instruction: a journal that says nothing was sent is right
\* (claim_request_attempt, driver_instruction_write_intent).
THEOREM SendingIsRecorded == LifeSpec => []SentIsRecorded
<1>1. LifeInv => SentIsRecorded
  <2> SUFFICES ASSUME LifeInv, NEW t \in Tracks, host.sent[t] > 0
               PROVE  /\ host.sent[t] = 1
                      /\ log.request[t] \notin {"not_attempted", "request_intent"}
                      /\ log.failure[t] # "unsent"
    BY DEF SentIsRecorded
  <2>1. Truth(t) /\ host \in Hosts
    BY DEF LifeInv, LInv, Sound, STypeOK, Truths
  <2>2. host.sent[t] = 1
    BY <2>1 DEF Hosts
  <2> QED BY <2>1, <2>2 DEF Truth, Reached
<1> QED BY <1>1, LifecycleIsSound, PTL

\* What the journal lets a later process expect of a container, that process
\* finds (_driver_recovery_authority).
THEOREM RecoveryMayTrust == LifeSpec => []AuthorityIsTrue
<1>1. LifeInv => AuthorityIsTrue
  <2> SUFFICES ASSUME LifeInv, NEW t \in Tracks
               PROVE  /\ Authority(t) = "pre_start" => host.driver[t] = "created"
                      /\ Authority(t) = "trusted_terminal" =>
                           host.driver[t] \notin Running \cup {"created"}
                      /\ Authority(t) = "teardown_quiesced" => host.driver[t] \notin Running
    BY DEF AuthorityIsTrue
  <2>1. Truth(t)
    BY DEF LifeInv, LInv, Sound, Truths
  <2> QED BY <2>1 DEF Truth, Authority, TrustedTerminal, Running
<1> QED BY <1>1, LifecycleIsSound, PTL

\* What was copied of a source is all there is to copy at any later time
\* (_quiesce_driver_for_teardown, _freeze_sources).
THEOREM CopiesAreFinal == LifeSpec => []FrozenIsFinal
<1>1. LifeInv => FrozenIsFinal
  BY DEF LifeInv, LInv, Rests, FrozenIsFinal
<1> QED BY <1>1, LifecycleIsSound, PTL

\* A public bundle that calls itself complete stands for a lifecycle in which
\* every request was sent once and completed and was copied, of which nothing is
\* left, and which left the foreign profiles as they were (down).
THEOREM CompleteBundlesAreTrue == LifeSpec => []CompleteIsTrue
<1>1. LifeInv => CompleteIsTrue
  <2> SUFFICES ASSUME LifeInv, site.public = "complete"
               PROVE  /\ AllCompleted /\ \A t \in Tracks : host.sent[t] = 1
                      /\ \A s \in Services : site.kept[s] = Tracks
                      /\ ~site.drift
                      /\ site.profile = "absent" /\ site.objects = {}
    BY DEF CompleteIsTrue
  <2>1. Rests /\ host \in Hosts
    BY DEF LifeInv, LInv, Sound, STypeOK
  <2>2. /\ Whole /\ ~site.drift /\ site.profile = "absent" /\ site.objects = {}
    BY <2>1 DEF Rests
  <2>3. Sent = Tracks
    <3>1. Gateways \in Services
      BY ServiceNames
    <3>2. life.leg[Gateways] = "copied" /\ site.kept[Gateways] = Tracks
      BY <2>2, <3>1 DEF Whole, Copied
    <3> QED BY <2>1, <3>1, <3>2 DEF Rests
  <2>4. \A t \in Tracks : host.sent[t] = 1
    <3> TAKE t \in Tracks
    <3>1. host.sent[t] > 0 /\ host.sent[t] \in {0, 1}
      BY <2>1, <2>3 DEF Sent, Hosts
    <3> QED BY <3>1
  <2> QED BY <2>2, <2>4 DEF Whole
<1> QED BY <1>1, LifecycleIsSound, PTL

\* What a step may do to a driver, whoever takes it.
OnceOnly(t) ==
  /\ host'.driver[t] = "waiting" => host.driver[t] \in {"created", "waiting"}
  /\ host'.driver[t] = "told" /\ host.driver[t] # "told" =>
       \A u \in 1..(t - 1) : log.request[u] = "completed"

LEMMA MovesOnce ==
  ASSUME host \in Hosts, (\E u \in Tracks : Moves(u)) \/ Rebooted, NEW t \in Tracks
  PROVE  OnceOnly(t)
<1>1. CASE Rebooted
  BY <1>1 DEF Rebooted, Hosts, OnceOnly
<1>2. ASSUME NEW u \in Tracks, Moves(u) PROVE OnceOnly(t)
  <2>1. CASE Writes(u)
    BY <2>1 DEF Writes, Untouched, OnceOnly
  <2>2. ASSUME NEW d \in Containers \ {"waiting", "told"}, host' = SetDriver(u, d)
        PROVE  OnceOnly(t)
    BY <2>2, SetFields DEF OnceOnly
  <2>3. CASE Halted(u)
    BY <2>2, <2>3 DEF Halted, Containers
  <2>4. CASE Ends(u)
    BY <2>2, <2>4 DEF Ends, Containers
  <2>5. CASE Spawned(u)
    BY <2>5 DEF Spawned, SetDriver, Hosts, OnceOnly
  <2>6. CASE Told(u)
    <3>1. /\ \A v \in Tracks : v < u => log.request[v] = "completed"
          /\ host'.driver[u] = "told"
          /\ \A v \in Tracks : v # u => host'.driver[v] = host.driver[v]
      BY <2>6, SetFields DEF Told, Containers
    <3>2. ASSUME t = u, NEW v \in 1..(t - 1) PROVE log.request[v] = "completed"
      <4>1. v \in Tracks /\ v < u
        BY <3>2, NumTracksAssumption DEF Tracks
      <4> QED BY <3>1, <4>1
    <3> QED BY <3>1, <3>2 DEF OnceOnly
  <2>7. CASE Sends(u)
    BY <2>7 DEF Sends, Hosts, OnceOnly
  <2> QED BY <1>2, <2>1, <2>3, <2>4, <2>5, <2>6, <2>7 DEF Moves
<1> QED BY <1>1, <1>2

LEMMA StepsOnce ==
  ASSUME LInv, [LifeNext]_lifecycle, NEW t \in Tracks
  PROVE  OnceOnly(t)
<1>0. host \in Hosts /\ Sound
  BY DEF LInv, Sound, STypeOK
<1>1. CASE host'.driver = host.driver
  BY <1>1 DEF OnceOnly
<1>2. CASE (\E u \in Tracks : Moves(u)) \/ Rebooted
  BY <1>0, <1>2, MovesOnce
<1>3. CASE UpBegins \/ CollectBegins \/ Down \/ UpProgram \/ Collect
  BY <1>1, <1>3 DEF UpBegins, CollectBegins, Down, DownAbsent, DownPresent, UpProgram, UpStart,
                    UpCreated, UpState, Collect
<1>4. CASE \E cmd \in {"readiness", "run"} : Use(cmd)
  BY <1>0, <1>2, <1>4, BeginAdvances DEF Use, Advanced
<1>5. CASE Program
  BY <1>0, <1>2, <1>5, ProgramAdvances DEF Advanced
<1>6. CASE World
  <2>1. CASE Drivers
    BY <1>0, <1>2, <2>1, DriversMove
  <2>2. CASE Crash \/ ForeignProfileChanges
    BY <1>1, <2>2 DEF Crash, ForeignProfileChanges
  <2>3. CASE Reboot
    BY <1>2, <2>3 DEF Reboot, Rebooted
  <2> QED BY <1>6, <2>1, <2>2, <2>3 DEF World
<1>7. CASE DownProgram
  <2>1. CASE Strand
    BY <1>0, <1>1, <2>1 DEF Strand, ControlFailure, Hosts
  <2>2. CASE Quiesced
    <3>1. Here \in Tracks
      BY <2>2, ClosingPlaces DEF LInv, Sound, STypeOK, Quiesced, At, Here
    <3>2. host' \in {host, SetDriver(Here, "dead")}
      BY <2>2 DEF Quiesced
    <3>3. CASE host' = SetDriver(Here, "dead")
      BY <1>0, <3>1, <3>3, SetFields DEF Containers, OnceOnly
    <3> QED BY <1>1, <3>2, <3>3
  <2>3. CASE Load \/ Quiesce \/ PartialUp \/ StopService \/ StoppedService \/ Freeze \/ Leg
             \/ LegEnd \/ FreezeEnd \/ Prepare \/ Attest \/ Reject
    BY <1>1, <2>3 DEF Load, Quiesce, PartialUp, StopService, StoppedService, Freeze, Leg,
                      LegEnd, FreezeEnd, Prepare, Attest, Reject
  <2>4. CASE Remove \/ Removed \/ Topology \/ Stop \/ Delete \/ After \/ Judge \/ FailIntent
             \/ FailPrepare \/ Intend \/ Finalize \/ Publish \/ Quarantine \/ Recheck \/ Archive
    BY <1>1, <2>4 DEF Remove, Removed, Topology, Stop, Delete, After, Judge, FailIntent,
                      FailPrepare, Intend, Finalize, Publish, Quarantine, Recheck, Archive
  <2> QED BY <1>7, <2>1, <2>2, <2>3, <2>4 DEF DownProgram
<1>8. CASE UNCHANGED lifecycle
  BY <1>1, <1>8 DEF lifecycle
<1> QED BY <1>3, <1>4, <1>5, <1>6, <1>7, <1>8 DEF LifeNext, Step

\* A container that has run is not started a second time, and a driver is told
\* to send only when every earlier request is completed (readiness, run).
THEOREM DriversAreStartedAndToldOnce == LifeSpec => StartedAndToldOnce
<1>1. LifeInv /\ [LifeNext]_lifecycle =>
        [\A t \in Tracks :
           /\ host'.driver[t] = "waiting" => host.driver[t] \in {"created", "waiting"}
           /\ host'.driver[t] = "told" /\ host.driver[t] # "told" =>
                \A u \in 1..(t - 1) : log.request[u] = "completed"]_session
  BY StepsOnce DEF LifeInv, OnceOnly
<1> QED BY <1>1, LifecycleIsSound, PTL DEF LifeSpec, StartedAndToldOnce
----------------------------------------------------------------------------
(***************************************************************************)
(* What a lifecycle promises, kept.  The journal alone tells a later `down`*)
(* what it may still do: Entries is what its entries imply of one another  *)
(* and of the site, Working and Ending what a process of `down` goes by    *)
(* while objects remain and when the profile is gone.                      *)
(***************************************************************************)
\* Nothing was sent, or what there is to know of it is copied or given up.
Accounted == life.freeze = "complete" \/ life.failure # "none" \/ ~Bound
Begun == \E s \in Services : life.leg[s] # "none"

Entries ==
  /\ life.stage = "none" =>
       life.deletion = "none" /\ life.failure = "none" /\ site.profile = "absent"
  /\ ~Bound => Sent = {}
  /\ life.freeze = "complete" => Begun
  /\ life.deletion # "none" => Accounted
  /\ life.deletion = "complete" => site.profile = "absent"
  /\ life.attested = "full" => life.freeze = "complete"
  /\ life.failure # "none" => ~Up \/ life.deletion = "complete"
  /\ site.public # "none" => life.deletion = "complete"
  /\ site.archived => life.deletion = "complete"

Working ==
  /\ proc.at = "partial" => ~Up
  /\ proc.at \in {"stop_service", "stopped_service"} =>
       IF Up THEN proc.t = Ledgers => life.freeze = "complete" ELSE life.failure # "none"
  /\ proc.at = "freeze_end" => Begun
  /\ proc.at \in {"prepare", "attest"} => life.freeze = "complete"
  /\ proc.at \in {"reject", "remove", "removed"} \cup Emptied => Accounted
  /\ proc.at \in Underway => (proc.told => Up)

Ending ==
  /\ proc.at \in Finals => life.deletion = "complete" /\ (proc.told => life.failure = "none")
  /\ proc.at \in Finals \ {"after"} => life.after # "none"
  /\ proc.at \in {"fail_intent", "fail_prepare", "intend", "finalize"} => site.public = "none"
  /\ proc.at \in {"fail_intent", "fail_prepare"} => ~proc.told
  /\ proc.at \in {"intend", "finalize"} /\ ~proc.told =>
       life.failure # "none" \/ life.after = "same"
  /\ proc.at \in {"publish", "recheck", "archive"} /\ Bound => site.public # "none"

Posts ==
  /\ site.archived => proc.at = "off"
  /\ proc.at \in Building => life.deletion = "none" /\ life.failure = "none"
  /\ Working /\ Ending

PInv == LInv /\ Standing /\ Entries /\ Posts
Kept == Entries' /\ Posts' /\ [Promised!Next]_(Promised!vars)

\* Events and effects that no promise is about.
Apart(new) ==
  /\ new.stage = life.stage /\ new.freeze = life.freeze /\ new.leg = life.leg
  /\ new.deletion = life.deletion /\ new.failure = life.failure
  /\ new.attested = life.attested /\ new.after = life.after
Aside(new) ==
  new.profile = site.profile /\ new.public = site.public /\ new.archived = site.archived

LEMMA PlacesOfPosts ==
  /\ Building \cap (Underway \cup Finals) = {} /\ Underway \cap Finals = {}
  /\ AtSession \cap (Building \cup Underway \cup Finals) = {}
  /\ {"partial", "stop_service", "stopped_service", "freeze_end", "prepare", "attest"} \cup
       {"reject", "remove", "removed"} \cup Emptied \subseteq Underway
  /\ {"fail_intent", "fail_prepare", "intend", "finalize"} \cup
       {"publish", "recheck", "archive"} \subseteq Finals
  /\ "off" \in AtSession /\ "collect" \in AtSession
<1>1. Building \cap Underway = {}
  BY UnderwayPlaces
<1>2. Building \cap Finals = {}
  BY Groups
<1>3. /\ AtSession \cap Building = {} /\ AtSession \cap Underway = {}
      /\ AtSession \cap Finals = {}
  BY SessionPlaces, UnderwayPlaces
<1>4. {"partial", "stop_service", "stopped_service", "freeze_end", "prepare", "attest"} \cup
       {"reject", "remove", "removed"} \cup Emptied \subseteq Underway
  BY DEF Underway, Objected, Freezes
<1>5. {"fail_intent", "fail_prepare", "intend", "finalize"} \cup
       {"publish", "recheck", "archive"} \subseteq Finals
  BY DEF Finals
<1>6. "off" \in AtSession /\ "collect" \in AtSession
  BY DEF AtSession, Elsewhere
<1> QED BY <1>1, <1>2, <1>3, <1>4, <1>5, <1>6, UnderwayPlaces

LEMMA NotWorking ==
  ASSUME proc'.at \notin Underway
  PROVE  Working'
BY PlacesOfPosts DEF Working

LEMMA NotEnding ==
  ASSUME proc'.at \notin Finals
  PROVE  Ending'
<1>1. /\ proc'.at \notin {"fail_intent", "fail_prepare", "intend", "finalize"}
      /\ proc'.at \notin {"publish", "recheck", "archive"}
  BY PlacesOfPosts
<1> QED BY <1>1 DEF Ending

LEMMA PostedOff ==
  ASSUME proc' = Off
  PROVE  Posts'
<1>1. proc'.at = "off"
  BY OffIsCalm
<1> QED BY <1>1, PlacesOfPosts, NotWorking, NotEnding DEF Posts

LEMMA PostedInSession ==
  ASSUME proc'.at \in AtSession, ~site'.archived
  PROVE  Posts'
BY PlacesOfPosts, NotWorking, NotEnding DEF Posts

LEMMA PostedBuilding ==
  ASSUME proc'.at \in Building, ~site'.archived,
         life'.deletion = "none", life'.failure = "none"
  PROVE  Posts'
BY PlacesOfPosts, NotWorking, NotEnding DEF Posts

LEMMA PostedWorking ==
  ASSUME proc'.at \in Underway, ~site'.archived, Working'
  PROVE  Posts'
BY PlacesOfPosts, NotEnding DEF Posts

LEMMA PostedEnding ==
  ASSUME proc'.at \in Finals, ~site'.archived, Ending'
  PROVE  Posts'
BY PlacesOfPosts, NotWorking DEF Posts

LEMMA EntriesStay ==
  ASSUME Entries, Apart(life'), Aside(site'), Sent' = Sent
  PROVE  Entries'
<1>1. (Bound <=> Bound') /\ (Up <=> Up') /\ (Accounted <=> Accounted') /\ (Begun <=> Begun')
  BY DEF Apart, Bound, Up, Accounted, Begun
<1> QED BY <1>1 DEF Entries, Apart, Aside

LEMMA PromisesStay ==
  ASSUME Apart(life'), Aside(site'), Sent' = Sent
  PROVE  [Promised!Next]_(Promised!vars)
<1>1. UNCHANGED Promised!vars
  BY DEF Apart, Aside, Promised!vars, Verdict
<1> QED BY <1>1

LEMMA KeptApart ==
  ASSUME PInv, Apart(life'), Aside(site'), host'.sent = host.sent, Posts'
  PROVE  Kept
<1>1. Sent' = Sent
  BY DEF Sent
<1> QED BY <1>1, EntriesStay, PromisesStay DEF PInv, Kept

LEMMA SaysApart ==
  ASSUME PInv, Aside(site'), host'.sent = host.sent, NEW new, NEW next, Apart(new),
         Say(new, next), proc' = next /\ life' = new => Posts'
  PROVE  Kept
<1>1. /\ life' \in {life, new}
      /\ (proc' = next /\ life' = new) \/ proc' = Off
  BY Says
<1>2. Posts'
  BY <1>1, PostedOff
<1>3. Apart(life')
  BY <1>1 DEF Apart
<1> QED BY <1>2, <1>3, KeptApart

LEMMA ApartFields ==
  ASSUME LInv
  PROVE  /\ Apart(life) /\ Aside(site)
         /\ \A x : Apart([life EXCEPT !.evidence = x]) /\ Apart([life EXCEPT !.intent = x])
                   /\ Apart([life EXCEPT !.removed = x]) /\ Apart([life EXCEPT !.topology = x])
                   /\ Apart([life EXCEPT !.published = x])
         /\ \A o, x : Apart([life EXCEPT !.created[o] = x])
                      /\ Apart([life EXCEPT !.removed[o] = x])
                      /\ Apart([life EXCEPT !.stops[o] = x])
         /\ \A x : Aside([site EXCEPT !.provisional = x]) /\ Aside([site EXCEPT !.state = x])
                   /\ Aside([site EXCEPT !.drift = x])
         /\ \A x, y : Aside([site EXCEPT !.objects = x, !.running = y])
         /\ \A o, x : Aside([site EXCEPT !.kept[o] = x]) /\ Aside([site EXCEPT !.running = x])
<1>1. life \in Lives /\ site \in Sites
  BY DEF LInv
<1>2. Apart(life) /\ Aside(site)
  BY DEF Apart, Aside
<1>3. \A x : Apart([life EXCEPT !.evidence = x]) /\ Apart([life EXCEPT !.intent = x])
  BY <1>1 DEF Lives, Apart
<1>4. \A x : Apart([life EXCEPT !.removed = x]) /\ Apart([life EXCEPT !.topology = x])
  BY <1>1 DEF Lives, Apart
<1>5. \A x : Apart([life EXCEPT !.published = x])
  BY <1>1 DEF Lives, Apart
<1>6. \A o, x : Apart([life EXCEPT !.created[o] = x])
  BY <1>1 DEF Lives, Apart
<1>7. \A o, x : Apart([life EXCEPT !.removed[o] = x])
  BY <1>1 DEF Lives, Apart
<1>8. \A o, x : Apart([life EXCEPT !.stops[o] = x])
  BY <1>1 DEF Lives, Apart
<1>9. \A x : Aside([site EXCEPT !.provisional = x]) /\ Aside([site EXCEPT !.state = x])
             /\ Aside([site EXCEPT !.drift = x])
  BY <1>1 DEF Sites, Aside
<1>10. \A x, y : Aside([site EXCEPT !.objects = x, !.running = y])
  BY <1>1 DEF Sites, Aside
<1>11. \A o, x : Aside([site EXCEPT !.kept[o] = x]) /\ Aside([site EXCEPT !.running = x])
  BY <1>1 DEF Sites, Aside
<1> QED BY <1>2, <1>3, <1>4, <1>5, <1>6, <1>7, <1>8, <1>9, <1>10, <1>11
----------------------------------------------------------------------------
\* Whatever moves a driver, a request leaves only one that was told to send.
LEMMA MovesSend ==
  ASSUME host \in Hosts, (\E u \in Tracks : Moves(u)) \/ Rebooted
  PROVE  \/ host'.sent = host.sent
         \/ \E u \in Tracks : /\ host.driver[u] = "told"
                              /\ host'.sent = [host.sent EXCEPT ![u] = @ + 1]
<1>1. CASE Rebooted
  BY <1>1 DEF Rebooted, Hosts
<1>2. ASSUME NEW u \in Tracks, Moves(u)
      PROVE  \/ host'.sent = host.sent
             \/ host.driver[u] = "told" /\ host'.sent = [host.sent EXCEPT ![u] = @ + 1]
  <2>1. CASE Writes(u)
    BY <2>1 DEF Writes, Untouched
  <2>2. CASE Halted(u) \/ Spawned(u) \/ Told(u) \/ Ends(u)
    BY <2>2 DEF Halted, Spawned, Told, Ends, SetDriver, Hosts
  <2>3. CASE Sends(u)
    <3>1. PICK d \in {"answered", "broken", "dead"}, n \in {0, 1} :
               host' = [host EXCEPT !.driver[u] = d, !.sent[u] = @ + n]
      BY <2>3 DEF Sends
    <3>2. host.driver[u] = "told"
      BY <2>3 DEF Sends
    <3>3. host'.sent = [host.sent EXCEPT ![u] = @ + n]
      BY <3>1 DEF Hosts
    <3>4. CASE n = 0
      BY <3>3, <3>4 DEF Hosts
    <3>5. CASE n = 1
      BY <3>2, <3>3, <3>5
    <3> QED BY <3>4, <3>5
  <2> QED BY <1>2, <2>1, <2>2, <2>3 DEF Moves
<1> QED BY <1>1, <1>2

\* Where a request may still leave, nothing is frozen and nothing gone.
LEMMA SendingIsOpen ==
  ASSUME PInv, NEW u \in Tracks, host.driver[u] = "told"
  PROVE  /\ life.freeze # "complete" /\ life.deletion # "complete" /\ Bound
         /\ host.sent[u] = 0
<1>1. /\ Rests /\ Entries /\ Truth(u) /\ host \in Hosts
  BY DEF PInv, LInv, Sound, STypeOK, Truths
<1>2. host.driver[u] \in Running
  BY DEF Running
<1>3. u \in site.objects
  BY <1>1, <1>2 DEF Rests
<1>4. Bound /\ site.profile # "absent"
  BY <1>1, <1>3 DEF Rests
<1>5. ~Quiet
  BY <1>2 DEF Quiet
<1>6. ~Begun
  BY <1>1, <1>5, NothingCopied DEF Begun
<1>7. host.sent[u] = 0
  <2>1. host.sent[u] \in {0, 1} /\ host.sent[u] # 1
    BY <1>1 DEF Hosts, Truth
  <2> QED BY <2>1
<1> QED BY <1>1, <1>4, <1>6, <1>7 DEF Entries

LEMMA SentGrows ==
  ASSUME host \in Hosts, NEW u \in Tracks, host'.sent = [host.sent EXCEPT ![u] = @ + 1],
         host.sent[u] = 0
  PROVE  u \notin Sent /\ Sent' = Sent \cup {u}
<1>1. \A t \in Tracks : host.sent[t] \in {0, 1}
  BY DEF Hosts
<1>2. host'.sent[u] = 1 /\ \A t \in Tracks : t # u => host'.sent[t] = host.sent[t]
  BY DEF Hosts
<1>3. u \notin Sent
  BY DEF Sent
<1>4. \A t \in Tracks : t \in Sent' <=> t \in Sent \cup {u}
  BY <1>1, <1>2 DEF Sent
<1>5. Sent' \subseteq Tracks /\ Sent \subseteq Tracks
  BY DEF Sent
<1> QED BY <1>3, <1>4, <1>5

LEMMA MovesAreKept ==
  ASSUME PInv, (\E u \in Tracks : Moves(u)) \/ Rebooted, life' = life, Aside(site'), Posts'
  PROVE  Kept
<1>1. host \in Hosts /\ Apart(life') /\ Entries
  BY DEF PInv, LInv, Sound, STypeOK, Apart
<1>2. CASE host'.sent = host.sent
  BY <1>1, <1>2, KeptApart
<1>3. ASSUME NEW u \in Tracks, host.driver[u] = "told",
             host'.sent = [host.sent EXCEPT ![u] = @ + 1]
      PROVE  Kept
  <2>1. /\ life.freeze # "complete" /\ life.deletion # "complete" /\ Bound
        /\ u \notin Sent /\ Sent' = Sent \cup {u}
    BY <1>1, <1>3, SendingIsOpen, SentGrows
  <2>2. Entries'
    <3>1. Bound' /\ (Up <=> Up') /\ (Accounted <=> Accounted') /\ (Begun <=> Begun')
      BY <2>1 DEF Bound, Up, Accounted, Begun
    <3> QED BY <1>1, <3>1 DEF Entries, Aside
  <2>3. Promised!Send(u)
    BY <2>1 DEF Promised!Send, Aside, Verdict
  <2>4. Promised!Next
    BY <2>3 DEF Promised!Next
  <2> QED BY <2>2, <2>4 DEF Kept
<1> QED BY <1>1, <1>2, <1>3, MovesSend

\* What is archived is over: no process runs, and no profile is left.
LEMMA NotArchived ==
  ASSUME PInv, proc.at # "off" \/ site.profile # "absent"
  PROVE  ~site.archived
BY DEF PInv, Entries, Posts

LEMMA SessionKept ==
  ASSUME PInv,
         \/ \E cmd \in {"readiness", "run"} : Use(cmd)
         \/ Program /\ UNCHANGED <<life, site>>
  PROVE  Kept
<1>1. Advanced /\ UNCHANGED <<life, site>> /\ ~site.archived
  <2>1. CASE \E cmd \in {"readiness", "run"} : Use(cmd)
    <3>1. Advanced /\ UNCHANGED <<life, site>>
      BY <2>1, BeginAdvances DEF PInv, LInv, Use
    <3>2. site.profile = "running"
      BY <2>1 DEF Use, Serving
    <3> QED BY <3>1, <3>2, NotArchived
  <2>2. CASE Program /\ UNCHANGED <<life, site>>
    BY <2>2, ProgramAdvances, ProgramPlaces, NotArchived DEF PInv, LInv
  <2> QED BY <2>1, <2>2
<1>2. Posts'
  BY <1>1, PostedInSession DEF Advanced, Landed
<1>3. Aside(site')
  BY <1>1 DEF Aside
<1> QED BY <1>1, <1>2, <1>3, MovesAreKept DEF Advanced

LEMMA WorldKept ==
  ASSUME PInv, World
  PROVE  Kept
<1>0. LInv /\ site \in Sites
  BY DEF PInv, LInv
<1>1. CASE Drivers /\ UNCHANGED <<life, site>>
  <2>1. (\E u \in Tracks : Moves(u)) /\ proc' = proc
    BY <1>0, <1>1, DriversMove DEF LInv
  <2>2. Posts'
    BY <1>1, <2>1 DEF PInv, Posts, Working, Ending, Accounted, Begun, Up, Bound
  <2> QED BY <1>1, <2>1, <2>2, MovesAreKept DEF Aside
<1>2. CASE Crash /\ UNCHANGED <<life, site>>
  <2>1. host'.sent = host.sent /\ Posts'
    BY <1>2, PostedOff DEF Crash
  <2> QED BY <1>0, <1>2, <2>1, ApartFields, KeptApart
<1>3. CASE ForeignProfileChanges
  <2>1. /\ UNCHANGED <<log, host, proc, life>> /\ site' = [site EXCEPT !.drift = TRUE]
    BY <1>3 DEF ForeignProfileChanges
  <2>2. Aside(site') /\ Apart(life')
    BY <1>0, <2>1, ApartFields
  <2>3. Posts'
    BY <2>1, <2>2 DEF PInv, Posts, Working, Ending, Accounted, Begun, Up, Bound, Aside
  <2> QED BY <2>1, <2>2, <2>3, KeptApart
<1>4. CASE Reboot
  <2>1. /\ Rebooted /\ proc' = Off /\ life' = life /\ site.profile = "running"
        /\ site' = [site EXCEPT !.profile = "stopped", !.running = {}]
    BY <1>4 DEF Reboot, Rebooted
  <2>2. /\ site'.profile = "stopped" /\ site'.public = site.public
        /\ site'.archived = site.archived
    BY <1>0, <2>1 DEF Sites
  <2>3. /\ Entries /\ host'.sent = host.sent
    BY <2>1, <1>0 DEF PInv, Rebooted, LInv, Sound, STypeOK, Hosts
  <2>4. Sent' = Sent
    BY <2>3 DEF Sent
  <2>5. Entries'
    BY <2>1, <2>2, <2>3, <2>4 DEF Entries, Bound, Accounted, Begun, Up
  <2>6. UNCHANGED Promised!vars
    BY <2>1, <2>2, <2>4 DEF Promised!vars, Verdict
  <2> QED BY <2>1, <2>5, <2>6, PostedOff DEF Kept
<1> QED BY <1>1, <1>2, <1>3, <1>4 DEF World
----------------------------------------------------------------------------
\* `up` is taken before anything failed or was deleted.
LEMMA StageKept ==
  ASSUME PInv, UNCHANGED <<log, host, site>>, life.deletion = "none", life.failure = "none",
         NEW x \in Progress \ {"none"}, Bound => x \in {"bound", "up"}, NEW next,
         Say([life EXCEPT !.stage = x], next), next = Off \/ next.at \in Building,
         ~site.archived
  PROVE  Kept
<1> DEFINE new == [life EXCEPT !.stage = x]
<1>0. life \in Lives /\ Entries
  BY DEF PInv, LInv
<1>1. /\ new.stage = x /\ new.freeze = life.freeze /\ new.leg = life.leg
      /\ new.deletion = life.deletion /\ new.failure = life.failure
      /\ new.attested = life.attested /\ new.after = life.after
  BY <1>0 DEF Lives
<1>2. /\ life' \in {life, new}
      /\ (proc' = next /\ life' = new) \/ proc' = Off
  <2> HIDE DEF new
  <2>1. Say(new, next)
    BY DEF new
  <2> QED BY <2>1, Says
<1> HIDE DEF new
<1>3. Sent' = Sent
  BY DEF Sent
<1>4. /\ life'.freeze = life.freeze /\ life'.leg = life.leg /\ life'.deletion = "none"
      /\ life'.failure = "none" /\ life'.attested = life.attested /\ life'.after = life.after
      /\ life'.stage \in {life.stage, x}
  BY <1>1, <1>2
<1>5. Posts'
  <2>1. CASE proc' = Off
    BY <2>1, PostedOff
  <2>2. CASE proc'.at \in Building
    BY <1>4, <2>2, PostedBuilding
  <2> QED BY <1>2, <2>1, <2>2
<1>6. Entries'
  <2>1. Begun' <=> Begun
    BY <1>4 DEF Begun
  <2>2. ~Bound' => ~Bound
    BY <1>4 DEF Bound
  <2> QED BY <1>0, <1>3, <1>4, <2>1, <2>2 DEF Entries
<1>7. UNCHANGED Promised!vars
  BY <1>3, <1>4 DEF Promised!vars, Verdict
<1> QED BY <1>5, <1>6, <1>7 DEF Kept

LEMMA InBuilding ==
  ASSUME PInv, proc.at \in Building
  PROVE  /\ life.deletion = "none" /\ life.failure = "none" /\ ~site.archived
         /\ LInv /\ proc \in Processes /\ life.stage = StageAt[proc.at]
<1>1. proc.at # "off"
  BY Groups
<1> QED BY <1>1, NotArchived, AtBuilding DEF PInv, Posts

LEMMA UpBeginsKept ==
  ASSUME PInv, UpBegins
  PROVE  Kept
<1>1. /\ life.stage = "none" /\ UNCHANGED <<log, host, site>>
      /\ Say([life EXCEPT !.stage = "journal"], Started("up", "up_before"))
  BY DEF UpBegins
<1>2. /\ life.deletion = "none" /\ life.failure = "none" /\ ~site.archived /\ ~Bound
  BY <1>1 DEF PInv, Entries, Bound
<1>3. Started("up", "up_before").at \in Building
  BY BuildingPlaces, StartedAt DEF Cmds
<1>4. "journal" \in Progress \ {"none"}
  BY DEF Progress
<1> QED BY <1>1, <1>2, <1>3, <1>4, StageKept

LEMMA UpEventsKept ==
  ASSUME PInv, UpEvents, UNCHANGED <<log, host, site>>
  PROVE  Kept
<1>0. /\ life.deletion = "none" /\ life.failure = "none" /\ ~site.archived
      /\ LInv /\ proc \in Processes /\ life.stage = StageAt[proc.at]
  <2>1. proc.at \in Building
    BY BuildingPlaces DEF UpEvents, At
  <2> QED BY <2>1, InBuilding
<1>1. ASSUME NEW place \in {"up_intent", "up_start", "up_bind", "up_created"}
      PROVE  To(proc, place).at \in Building
  <2>1. place \in Building /\ place \in LifePlaces
    BY BuildingPlaces
  <2>2. To(proc, place).at = place
    BY <1>0, <2>1, ToPlace
  <2> QED BY <2>1, <2>2
<1>2. /\ "before" \in Progress \ {"none"} /\ "start_intent" \in Progress \ {"none"}
      /\ "owned" \in Progress \ {"none"} /\ "bound" \in Progress \ {"none"}
      /\ "up" \in Progress \ {"none"}
  BY DEF Progress
<1>3. CASE At("up_before")
  <2>1. /\ Say([life EXCEPT !.stage = "before"], To(proc, "up_intent")) /\ ~Bound
    BY <1>0, <1>3, StageNames DEF UpEvents, At, Bound
  <2> QED BY <1>0, <1>1, <1>2, <2>1, StageKept
<1>4. CASE At("up_intent")
  <2>1. /\ Say([life EXCEPT !.stage = "start_intent"], To(proc, "up_start")) /\ ~Bound
    BY <1>0, <1>4, StageNames DEF UpEvents, At, Bound
  <2> QED BY <1>0, <1>1, <1>2, <2>1, StageKept
<1>5. CASE At("up_owned")
  <2>1. /\ Say([life EXCEPT !.stage = "owned"], To(proc, "up_bind")) /\ ~Bound
    BY <1>0, <1>5, StageNames DEF UpEvents, At, Bound
  <2> QED BY <1>0, <1>1, <1>2, <2>1, StageKept
<1>6. CASE At("up_bind")
  <2>1. Say([life EXCEPT !.stage = "bound"], Gone(proc, "up_create", Networks))
    BY <1>6 DEF UpEvents, At, Gone
  <2>2. Gone(proc, "up_create", Networks).at \in Building
    <3>1. Networks \in Objects
      BY Indices DEF Objects
    <3> QED BY <1>0, <3>1, Creates, BuildingPlaces
  <2> QED BY <1>0, <1>2, <2>1, <2>2, StageKept
<1>7. CASE At("up_create")
  <2>1. Say([life EXCEPT !.created[Here] = "pending"], To(proc, "up_created"))
    BY <1>7 DEF UpEvents, At
  <2>2. /\ Apart([life EXCEPT !.created[Here] = "pending"]) /\ Aside(site')
        /\ life.deletion = "none" /\ life.failure = "none"
    BY <1>0, ApartFields
  <2>3. proc' = To(proc, "up_created") /\ life' = [life EXCEPT !.created[Here] = "pending"]
          => Posts'
    BY <1>0, <1>1, <2>2, PostedBuilding DEF Apart
  <2> QED BY <2>1, <2>2, <2>3, SaysApart
<1>8. CASE At("up_complete")
  <2>1. Say([life EXCEPT !.stage = "up"], Off)
    BY <1>8 DEF UpEvents, At
  <2> QED BY <1>0, <1>2, <2>1, StageKept
<1> QED BY <1>3, <1>4, <1>5, <1>6, <1>7, <1>8 DEF UpEvents

LEMMA UpStartKept ==
  ASSUME PInv, UpStart
  PROVE  Kept
<1>0. /\ life.deletion = "none" /\ life.failure = "none" /\ ~site.archived
      /\ LInv /\ proc \in Processes /\ life.stage = "start_intent"
      /\ UNCHANGED <<log, host, life>> /\ site \in Sites /\ Entries
  <2>1. proc.at = "up_start"
    BY DEF UpStart, At
  <2> QED BY <2>1, BuildingPlaces, InBuilding, StageNames DEF UpStart, PInv, LInv
<1>1. site'.public = site.public /\ site'.archived = site.archived
  BY <1>0 DEF UpStart, Sites
<1>2. Sent' = Sent
  BY <1>0 DEF Sent
<1>3. Entries'
  BY <1>0, <1>1, <1>2 DEF Entries, Bound, Up, Begun
<1>4. Posts'
  <2>1. CASE proc' = Off
    BY <2>1, PostedOff
  <2>2. CASE proc' = To(proc, "up_owned")
    <3>1. proc'.at \in Building
      BY <1>0, <2>2, BuildingPlaces, ToPlace
    <3> QED BY <1>0, <1>1, <3>1, PostedBuilding
  <2> QED BY <2>1, <2>2 DEF UpStart
<1>5. UNCHANGED Promised!vars
  BY <1>0, <1>1, <1>2 DEF Promised!vars, Verdict
<1> QED BY <1>3, <1>4, <1>5 DEF Kept

LEMMA UpCreatedKept ==
  ASSUME PInv, UpCreated
  PROVE  Kept
<1> DEFINE
     next == IF Here = 1 THEN To(proc, "up_state") ELSE Gone(proc, "up_create", Here - 1)
     new == [life EXCEPT !.created[Here] = "complete"]
<1>0. /\ life.deletion = "none" /\ life.failure = "none" /\ ~site.archived
      /\ LInv /\ proc \in Processes /\ Here \in Objects /\ host'.sent = host.sent
  <2>1. proc.at = "up_created"
    BY DEF UpCreated, At
  <2> QED BY <2>1, BuildingPlaces, InBuilding, AtBuilding DEF UpCreated, Here
<1>1. Say(new, next)
  BY DEF UpCreated, Gone
<1>2. Aside(site')
  BY <1>0, ApartFields DEF UpCreated
<1>3. Apart(new)
  BY <1>0, ApartFields
<1>4. next.at \in Building
  <2>1. To(proc, "up_state").at \in Building
    BY <1>0, ToPlace, BuildingPlaces
  <2>2. ASSUME Here # 1 PROVE Gone(proc, "up_create", Here - 1).at \in Building
    <3>1. Here - 1 \in Objects
      BY <1>0, <2>2, NumTracksAssumption DEF Objects, Networks
    <3> QED BY <1>0, <3>1, Creates, BuildingPlaces
  <2> QED BY <2>1, <2>2
<1> HIDE DEF new, next
<1>5. proc' = next /\ life' = new => Posts'
  BY <1>0, <1>2, <1>3, <1>4, PostedBuilding DEF Apart, Aside
<1> QED BY <1>0, <1>1, <1>2, <1>3, <1>5, SaysApart

LEMMA UpStateKept ==
  ASSUME PInv, UpState
  PROVE  Kept
<1>0. /\ life.deletion = "none" /\ life.failure = "none" /\ ~site.archived
      /\ LInv /\ proc \in Processes /\ host'.sent = host.sent /\ life' = life
      /\ proc' = To(proc, "up_complete") /\ site' = [site EXCEPT !.state = TRUE]
  <2>1. proc.at = "up_state"
    BY DEF UpState, At
  <2> QED BY <2>1, BuildingPlaces, InBuilding DEF UpState
<1>1. Aside(site') /\ Apart(life')
  BY <1>0, ApartFields
<1>2. proc'.at \in Building
  BY <1>0, ToPlace, BuildingPlaces
<1>3. Posts'
  BY <1>0, <1>1, <1>2, PostedBuilding DEF Aside
<1> QED BY <1>0, <1>1, <1>3, KeptApart

LEMMA CollectKept ==
  ASSUME PInv, CollectBegins \/ Collect
  PROVE  Kept
<1>0. LInv
  BY DEF PInv
<1>1. CASE CollectBegins
  <2>1. /\ proc' = Started("collect", "collect") /\ UNCHANGED <<log, host, life, site>>
        /\ site.profile = "running"
    BY <1>1 DEF CollectBegins, Serving
  <2>2. proc'.at = "collect"
    BY <2>1 DEF Started, Off
  <2>3. Posts'
    BY <2>1, <2>2, NotArchived, PlacesOfPosts, PostedInSession
  <2> QED BY <1>0, <2>1, <2>3, ApartFields, KeptApart
<1>2. CASE Collect
  <2>1. /\ host' = host
        /\ \/ site' = [site EXCEPT !.provisional = "complete"]
              /\ Say([life EXCEPT !.evidence = "collected"], Off)
           \/ Silently(Off) /\ site' = site
    BY <1>2 DEF Collect, Raise
  <2>2. proc' = Off => Posts'
    BY PostedOff
  <2>3. /\ Aside([site EXCEPT !.provisional = "complete"]) /\ Aside(site) /\ Apart(life)
        /\ Apart([life EXCEPT !.evidence = "collected"])
    BY <1>0, ApartFields
  <2>4. CASE Silently(Off) /\ site' = site
    BY <2>1, <2>2, <2>3, <2>4, KeptApart DEF Silently
  <2> QED BY <2>1, <2>2, <2>3, <2>4, SaysApart
<1> QED BY <1>1, <1>2
----------------------------------------------------------------------------
LEMMA AtWork ==
  ASSUME PInv, proc.at \in Underway
  PROVE  /\ LInv /\ proc \in Processes /\ life \in Lives /\ site \in Sites
         /\ Entries /\ Working /\ (proc.told => Up)
         /\ site.profile # "absent" /\ life.deletion # "complete"
         /\ site.public = "none" /\ ~site.archived
<1>1. proc.at # "off"
  BY UnderwayPlaces
<1> QED BY <1>1, NotArchived DEF PInv, LInv, Sound, STypeOK, Standing, Entries, Posts, Working

\* Arriving where `down` goes by nothing but what it is about.
Idle == {"load"} \cup Closing \cup {"freeze", "leg", "leg_end"}

LEMMA PostedIdle ==
  ASSUME proc'.at \in Idle, proc'.told => Up', ~site'.archived
  PROVE  Posts'
<1>1. proc'.at \in Underway
  BY DEF Idle, Underway, Freezes
<1>2. /\ proc'.at # "partial" /\ proc'.at \notin {"stop_service", "stopped_service"}
      /\ proc'.at # "freeze_end" /\ proc'.at \notin {"prepare", "attest"}
      /\ proc'.at \notin {"reject", "remove", "removed"} \cup Emptied
  BY DEF Idle, Closing, Emptied
<1>3. Working'
  BY <1>2 DEF Working
<1> QED BY <1>1, <1>3, PostedWorking

LEMMA PostedPartial ==
  ASSUME proc'.at = "partial", ~proc'.told, ~Up', ~site'.archived
  PROVE  Posts'
<1>1. proc'.at \in Underway /\ proc'.at \notin {"reject", "remove", "removed"} \cup Emptied
  BY UnderwayPlaces DEF Emptied
<1>2. Working'
  BY <1>1 DEF Working
<1> QED BY <1>1, <1>2, PostedWorking

LEMMA PostedAtService ==
  ASSUME proc'.at \in {"stop_service", "stopped_service"}, proc'.told => Up', ~site'.archived,
         IF Up' THEN proc'.t = Ledgers => life'.freeze = "complete" ELSE life'.failure # "none"
  PROVE  Posts'
<1>1. proc'.at \in Underway /\ proc'.at \notin {"reject", "remove", "removed"} \cup Emptied
  BY UnderwayPlaces DEF Emptied
<1>2. proc'.at # "partial" /\ proc'.at # "freeze_end" /\ proc'.at \notin {"prepare", "attest"}
  OBVIOUS
<1>3. Working'
  BY <1>1, <1>2 DEF Working
<1> QED BY <1>1, <1>3, PostedWorking

LEMMA PostedFrozen ==
  ASSUME proc'.at \in {"prepare", "attest"}, proc'.told => Up', ~site'.archived,
         life'.freeze = "complete"
  PROVE  Posts'
<1>1. proc'.at \in Underway /\ proc'.at \notin {"reject", "remove", "removed"} \cup Emptied
  BY UnderwayPlaces DEF Emptied
<1>2. /\ proc'.at # "partial" /\ proc'.at # "freeze_end"
      /\ proc'.at \notin {"stop_service", "stopped_service"}
  OBVIOUS
<1>3. Working'
  BY <1>1, <1>2 DEF Working
<1> QED BY <1>1, <1>3, PostedWorking

LEMMA PostedClearing ==
  ASSUME proc'.at \in {"reject", "remove", "removed"} \cup Emptied, proc'.told => Up',
         ~site'.archived, Accounted'
  PROVE  Posts'
<1>1. proc'.at \in Underway
  BY PlacesOfPosts
<1>2. /\ proc'.at # "partial" /\ proc'.at # "freeze_end"
      /\ proc'.at \notin {"stop_service", "stopped_service", "prepare", "attest"}
  BY DEF Emptied
<1>3. Working'
  BY <1>2 DEF Working
<1> QED BY <1>1, <1>3, PostedWorking

LEMMA ServicesFirst ==
  ASSUME NEW p \in Processes
  PROVE  /\ Freezing(p) = Gone(p, "stop_service", Gateways)
         /\ \A s \in Services : /\ Gone(p, "stop_service", s).at = "stop_service"
                                /\ Gone(p, "stop_service", s).t = s
                                /\ Gone(p, "stop_service", s).told = p.told
<1>1. "stop_service" \in LifePlaces
  BY ClosingPlaces
<1>2. \A s \in Services : s \in Int
  BY Indices
<1>3. \A s \in Services : /\ Gone(p, "stop_service", s).at = "stop_service"
                          /\ Gone(p, "stop_service", s).t = s
                          /\ Gone(p, "stop_service", s).told = p.told
  BY <1>1, <1>2, GonePlace
<1> QED BY <1>3 DEF Freezing, Gone

LEMMA PostedQuiescing ==
  ASSUME NEW p \in Processes, p.told => Up, NEW from \in Int, proc' = Quiescing(p, from),
         Up' <=> Up, ~site'.archived
  PROVE  Posts'
<1> DEFINE after == IF Up THEN Freezing(p) ELSE To(p, "partial")
<1>1. PresentDrivers \in SUBSET Nat
  BY Indices DEF PresentDrivers
<1>2. proc' = after \/ \E u \in PresentDrivers : proc' = Gone(p, "quiesce", u)
  <2> HIDE DEF after
  <2>1. proc' = Loop(p, PresentDrivers, from, "quiesce", after)
    BY DEF Quiescing, after
  <2> QED BY <1>1, <2>1, Looping
<1>3. CASE Up /\ proc' = Freezing(p)
  <2>1. Gateways \in Services /\ Gateways # Ledgers
    BY ServiceNames
  <2>2. proc'.at = "stop_service" /\ proc'.t = Gateways
    BY <1>3, <2>1, ServicesFirst
  <2> QED BY <1>3, <2>1, <2>2, PostedAtService
<1>4. CASE ~Up /\ proc' = To(p, "partial")
  <2>1. "partial" \in LifePlaces
    BY ClosingPlaces
  <2>2. proc'.at = "partial" /\ proc'.told = p.told
    BY <1>4, <2>1, ToPlace
  <2> QED BY <1>4, <2>2, PostedPartial DEF Processes
<1>5. ASSUME NEW u \in PresentDrivers, proc' = Gone(p, "quiesce", u) PROVE Posts'
  <2>1. "quiesce" \in LifePlaces /\ "quiesce" \in Closing /\ u \in Int
    BY <1>1, ClosingPlaces
  <2>2. proc'.at = "quiesce" /\ proc'.told = p.told
    BY <1>5, <2>1, GonePlace
  <2> QED BY <2>1, <2>2, PostedIdle DEF Idle
<1> QED BY <1>2, <1>3, <1>4, <1>5

LEMMA PostedStranded ==
  ASSUME NEW p \in Processes, p.told => Up, NEW from \in Int,
         proc' = Loop(p, Pended, from, "strand", Quiescing(p, 1)), Up' <=> Up, ~site'.archived
  PROVE  Posts'
<1>1. Pended \in SUBSET Nat
  BY Indices DEF Pended
<1>2. proc' = Quiescing(p, 1) \/ \E u \in Pended : proc' = Gone(p, "strand", u)
  BY <1>1, Looping
<1>3. CASE proc' = Quiescing(p, 1)
  BY <1>3, PostedQuiescing
<1>4. ASSUME NEW u \in Pended, proc' = Gone(p, "strand", u) PROVE Posts'
  <2>1. "strand" \in LifePlaces /\ "strand" \in Closing /\ u \in Int
    BY <1>1, ClosingPlaces
  <2>2. proc'.at = "strand" /\ proc'.told = p.told
    BY <1>4, <2>1, GonePlace
  <2> QED BY <2>1, <2>2, PostedIdle DEF Idle
<1> QED BY <1>2, <1>3, <1>4

LEMMA DownBeginsKept ==
  ASSUME PInv, Down
  PROVE  Kept
<1>0. /\ LInv /\ Entries /\ site \in Sites /\ life \in Lives /\ proc.at = "off" /\ ~Off.told
      /\ Bound => Owned
  BY OffIsCalm DEF PInv, LInv, Down, DownAbsent, DownPresent, Off, Bound, Owned
<1>1. Sent' = Sent
  BY DEF Down, DownAbsent, DownPresent, Sent
<1>2. CASE DownAbsent
  <2>1. /\ Say([life EXCEPT !.deletion = "complete"], Started("redown", "after"))
        /\ site.profile = "absent" /\ ~site.archived /\ site' = site /\ life.stage # "none"
        /\ Owned => life.deletion # "none"
    BY <1>2 DEF DownAbsent
  <2>2. /\ life' \in {life, [life EXCEPT !.deletion = "complete"]}
        /\ (proc' = Started("redown", "after") /\ life' = [life EXCEPT !.deletion = "complete"])
           \/ proc' = Off
    BY <2>1, Says
  <2>3. Accounted
    BY <1>0, <2>1 DEF Entries, Accounted
  <2>4. /\ life'.stage = life.stage /\ life'.freeze = life.freeze /\ life'.leg = life.leg
        /\ life'.failure = life.failure /\ life'.attested = life.attested
        /\ life'.after = life.after /\ life'.deletion \in {life.deletion, "complete"}
        /\ proc' # Off => life'.deletion = "complete"
    BY <1>0, <2>2 DEF Lives
  <2>5. /\ (Bound <=> Bound') /\ (Up <=> Up') /\ Accounted' /\ (Begun <=> Begun')
    BY <2>3, <2>4 DEF Bound, Up, Accounted, Begun
  <2>6. Entries'
    BY <1>0, <1>1, <2>1, <2>4, <2>5 DEF Entries
  <2>7. Posts'
    <3>1. CASE proc' = Off
      BY <3>1, PostedOff
    <3>2. CASE proc' = Started("redown", "after") /\ proc' # Off
      <4>1. proc'.at = "after" /\ ~proc'.told /\ "after" \in Finals
        BY <3>2, FinalPlaces DEF Started, Off
      <4>2. Ending'
        BY <2>4, <3>2, <4>1 DEF Ending
      <4> QED BY <2>1, <4>1, <4>2, PostedEnding
    <3> QED BY <2>2, <3>1, <3>2
  <2>8. [Promised!Next]_(Promised!vars)
    <3>1. CASE life'.deletion = life.deletion
      <4>1. UNCHANGED Promised!vars
        BY <1>1, <2>1, <2>4, <3>1 DEF Promised!vars, Verdict
      <4> QED BY <4>1
    <3>2. CASE life'.deletion = "complete"
      <4>1. (life.freeze = "complete") \/ (life.failure # "none") \/ Sent = {}
        BY <1>0, <2>3 DEF Accounted, Entries
      <4>2. Promised!Remove
        BY <1>1, <2>1, <2>4, <3>2, <4>1 DEF Promised!Remove, Verdict
      <4> QED BY <4>2 DEF Promised!Next
    <3> QED BY <2>4, <3>1, <3>2
  <2> QED BY <2>6, <2>7, <2>8 DEF Kept
<1>3. CASE DownPresent
  <2>1. /\ proc' = Started("down", "load") /\ life' = life /\ site.profile # "absent"
        /\ site' = [site EXCEPT !.profile = "running"] /\ life.stage # "none"
    BY <1>3 DEF DownPresent, Owned
  <2>2. /\ site'.profile = "running" /\ site'.public = site.public
        /\ site'.archived = site.archived
    BY <1>0, <2>1 DEF Sites
  <2>3. ~site'.archived
    BY <2>1, <2>2, NotArchived
  <2>4. Posts'
    <3>1. proc'.at = "load" /\ ~proc'.told
      BY <2>1 DEF Started, Off
    <3> QED BY <2>3, <3>1, PostedIdle DEF Idle
  <2>5. Entries'
    BY <1>0, <1>1, <2>1, <2>2 DEF Entries, Bound, Up, Accounted, Begun
  <2>6. UNCHANGED Promised!vars
    BY <1>1, <2>1, <2>2 DEF Promised!vars, Verdict
  <2> QED BY <2>4, <2>5, <2>6 DEF Kept
<1> QED BY <1>2, <1>3 DEF Down
----------------------------------------------------------------------------
LEMMA PostedRemoving ==
  ASSUME NEW p \in Processes, NEW present \in SUBSET Objects, proc' = Removing(p, present),
         p.told => Up', ~site'.archived, Accounted'
  PROVE  Posts'
<1> DEFINE after == To(p, IF Up THEN "topology" ELSE "stop")
<1>1. present \in SUBSET Nat
  BY Indices
<1>2. proc' = after \/ \E u \in present : proc' = Gone(p, "remove", u)
  <2> HIDE DEF after
  <2>1. proc' = Loop(p, present, 1, "remove", after)
    BY DEF Removing, after
  <2> QED BY <1>1, <2>1, Looping
<1>3. ASSUME NEW place \in {"topology", "stop"}, proc' = To(p, place) PROVE Posts'
  <2>1. place \in LifePlaces /\ place \in Emptied
    BY FinalPlaces
  <2>2. proc'.at = place /\ proc'.told = p.told
    BY <1>3, <2>1, ToPlace
  <2> QED BY <2>1, <2>2, PostedClearing
<1>4. ASSUME NEW u \in present, proc' = Gone(p, "remove", u) PROVE Posts'
  <2>1. "remove" \in LifePlaces /\ u \in Int
    BY <1>1, ClosingPlaces
  <2>2. proc'.at = "remove" /\ proc'.told = p.told
    BY <1>4, <2>1, GonePlace
  <2> QED BY <2>2, PostedClearing
<1> QED BY <1>2, <1>3, <1>4

\* What no promise is about leaves what is counted on as it was.
LEMMA ApartKeeps ==
  ASSUME Apart(life')
  PROVE  (Bound <=> Bound') /\ (Up <=> Up') /\ (Accounted <=> Accounted') /\ (Begun <=> Begun')
BY DEF Apart, Bound, Up, Accounted, Begun

LEMMA LoadKept ==
  ASSUME PInv, Load
  PROVE  Kept
<1>0. /\ LInv /\ proc \in Processes /\ (proc.told => Up) /\ ~site.archived /\ Entries
      /\ UNCHANGED <<log, host, site>> /\ Apart(life) /\ Aside(site)
  BY AtWork, UnderwayPlaces, ApartFields DEF Load, At
<1>1. CASE Raise
  <2>1. proc' = Off /\ life' = life
    BY <1>1 DEF Raise, Silently
  <2> QED BY <1>0, <2>1, PostedOff, KeptApart
<1>2. CASE ~Bound /\ Silently(To(proc, "stop"))
  <2>1. proc' = To(proc, "stop") /\ life' = life
    BY <1>2 DEF Silently
  <2>2. "stop" \in Emptied /\ "stop" \in LifePlaces
    BY FinalPlaces
  <2>3. proc'.at = "stop" /\ proc'.told = proc.told
    BY <1>0, <2>1, <2>2, ToPlace
  <2>4. Posts'
    BY <1>0, <1>2, <2>1, <2>2, <2>3, PostedClearing DEF Accounted, Bound, Up
  <2> QED BY <1>0, <2>1, <2>4, KeptApart
<1>3. ASSUME NEW f, Say([life EXCEPT !.removed = f],
                        Loop(proc, Pended, 1, "strand", Quiescing(proc, 1)))
      PROVE  Kept
  <2>1. Apart([life EXCEPT !.removed = f])
    BY <1>0, ApartFields
  <2>2. ASSUME proc' = Loop(proc, Pended, 1, "strand", Quiescing(proc, 1)),
               life' = [life EXCEPT !.removed = f]
        PROVE  Posts'
    <3>1. Up' <=> Up
      BY <2>1, <2>2 DEF Apart, Up
    <3> QED BY <1>0, <2>2, <3>1, PostedStranded
  <2> QED BY <1>0, <1>3, <2>1, <2>2, SaysApart
<1> QED BY <1>1, <1>2, <1>3 DEF Load

LEMMA ClosingKept ==
  ASSUME PInv, Strand \/ Quiesce \/ Quiesced
  PROVE  Kept
<1>0. /\ LInv /\ proc \in Processes /\ (proc.told => Up) /\ ~site.archived
      /\ UNCHANGED <<life, site>> /\ Apart(life) /\ Aside(site) /\ host \in Hosts
      /\ proc.at \in Closing /\ proc.t \in Tracks
  <2>1. proc.at \in Closing
    <3>1. proc.at \in {"strand", "quiesce", "quiesced"}
      BY DEF Strand, Quiesce, Quiesced, At
    <3> QED BY <3>1, ClosingPlaces
  <2>2. proc.at \in Underway
    BY <2>1 DEF Underway
  <2>3. proc.t \in Tracks /\ host \in Hosts
    BY <2>1 DEF PInv, LInv, Sound, STypeOK
  <2>4. UNCHANGED <<life, site>>
    <3>1. CASE Strand
      BY <3>1 DEF Strand
    <3>2. CASE Quiesce
      BY <3>2 DEF Quiesce
    <3>3. CASE Quiesced
      BY <3>3 DEF Quiesced
    <3> QED BY <3>1, <3>2, <3>3
  <2> QED BY <2>1, <2>2, <2>3, <2>4, AtWork, ApartFields
<1>1. Here \in Int /\ Here + 1 \in Int /\ (Up' <=> Up)
  <2>1. proc.t \in Tracks /\ life' = life
    BY <1>0
  <2>2. \A t \in Tracks : t \in Int /\ t + 1 \in Int
    BY DEF Tracks
  <2> QED BY <2>1, <2>2 DEF Here, Up
<1>2. ASSUME NEW from \in Int, proc' = Quiescing(proc, from) PROVE Posts'
  BY <1>0, <1>1, <1>2, PostedQuiescing
<1>3. CASE Strand
  <2>1. host'.sent = host.sent
    BY <1>0, <1>3 DEF Strand, ControlFailure, Hosts
  <2>2. proc' = Off \/ proc' = Loop(proc, Pended, Here + 1, "strand", Quiescing(proc, 1))
    BY <1>3 DEF Strand, ControlFailure, Append, Onward
  <2>3. Posts'
    BY <1>0, <1>1, <2>2, PostedOff, PostedStranded
  <2> QED BY <1>0, <2>1, <2>3, KeptApart
<1>4. ASSUME proc' = To(proc, "quiesced") PROVE Posts'
  <2>1. "quiesced" \in LifePlaces /\ "quiesced" \in Closing
    BY ClosingPlaces
  <2>2. proc'.at = "quiesced" /\ proc'.told = proc.told
    BY <1>0, <1>4, <2>1, ToPlace
  <2> QED BY <1>0, <1>1, <2>1, <2>2, PostedIdle DEF Idle
<1>5. CASE Quiesce
  <2>1. proc' \in {Off, Quiescing(proc, Here + 1), To(proc, "quiesced")}
    BY <1>5 DEF Quiesce, AppendDriver, Append
  <2>2. host' = host
    BY <1>5 DEF Quiesce
  <2>3. Posts'
    BY <1>1, <1>2, <1>4, <2>1, PostedOff
  <2> QED BY <1>0, <2>2, <2>3, KeptApart
<1>6. CASE Quiesced
  <2>1. proc' \in {Off, Quiescing(proc, Here + 1)}
    BY <1>6 DEF Quiesced, AppendDriver, Append
  <2>2. host' \in {host, SetDriver(Here, "dead")}
    BY <1>6 DEF Quiesced
  <2>3. host'.sent = host.sent
    BY <1>0, <2>2 DEF SetDriver, Hosts
  <2>4. Posts'
    BY <1>1, <1>2, <2>1, PostedOff
  <2> QED BY <1>0, <2>3, <2>4, KeptApart
<1> QED BY <1>3, <1>5, <1>6

LEMMA PartialUpKept ==
  ASSUME PInv, PartialUp
  PROVE  Kept
<1> DEFINE new == [life EXCEPT !.failure = "intent"]
<1>0. /\ LInv /\ proc \in Processes /\ ~site.archived /\ life \in Lives /\ site.public = "none"
      /\ UNCHANGED <<log, host, site>> /\ Apart(life) /\ Aside(site) /\ ~Up /\ ~proc.told
      /\ Entries /\ site.profile # "absent"
  <2>1. proc.at = "partial"
    BY DEF PartialUp, At
  <2>2. /\ LInv /\ proc \in Processes /\ ~site.archived /\ life \in Lives /\ Entries
        /\ site.public = "none" /\ Working /\ (proc.told => Up) /\ site.profile # "absent"
    BY <2>1, UnderwayPlaces, AtWork
  <2> QED BY <2>1, <2>2, ApartFields DEF PartialUp, Working
<1>1. ASSUME proc' = Freezing(proc), ~Up', life'.failure # "none" PROVE Posts'
  <2>1. Gateways \in Services
    BY ServiceNames
  <2>2. proc'.at = "stop_service" /\ proc'.told = proc.told
    BY <1>0, <1>1, <2>1, ServicesFirst
  <2> QED BY <1>0, <1>1, <2>2, PostedAtService
<1>2. CASE life.failure # "none" /\ Silently(Freezing(proc))
  <2>1. Posts'
    BY <1>0, <1>1, <1>2 DEF Silently, Up
  <2> QED BY <1>0, <1>2, <2>1, KeptApart DEF Silently
<1>3. CASE life.failure = "none" /\ Say(new, Freezing(proc))
  <2>1. /\ new.stage = life.stage /\ new.freeze = life.freeze /\ new.leg = life.leg
        /\ new.failure = "intent" /\ new.attested = life.attested
        /\ new.after = life.after /\ new.deletion = life.deletion
    BY <1>0 DEF Lives
  <2>2. /\ life' \in {life, new}
        /\ (proc' = Freezing(proc) /\ life' = new) \/ proc' = Off
    <3> HIDE DEF new
    <3> QED BY <1>3, Says
  <2> HIDE DEF new
  <2>3. CASE life' = life
    <3>1. proc' = Off \/ life = new
      BY <2>2, <2>3
    <3>2. new # life
      BY <1>3, <2>1
    <3>3. proc' = Off
      BY <3>1, <3>2
    <3> QED BY <1>0, <2>3, <3>3, PostedOff, KeptApart
  <2>4. CASE life' = new
    <3>1. Sent' = Sent
      BY <1>0 DEF Sent
    <3>2. (Bound <=> Bound') /\ (Up <=> Up') /\ Accounted' /\ (Begun <=> Begun')
      BY <2>1, <2>4 DEF Bound, Up, Accounted, Begun
    <3>3. Posts'
      BY <1>0, <1>1, <2>1, <2>2, <2>4, <3>2, PostedOff
    <3>4. Entries'
      BY <1>0, <2>1, <2>4, <3>1, <3>2 DEF Entries, Up
    <3>5. Promised!Lose
      BY <1>0, <2>1, <2>4, <3>1 DEF Promised!Lose, Verdict
    <3>6. Promised!Next
      BY <3>5 DEF Promised!Next
    <3> QED BY <3>3, <3>4, <3>6 DEF Kept
  <2> QED BY <2>2, <2>3, <2>4
<1> QED BY <1>2, <1>3 DEF PartialUp
----------------------------------------------------------------------------
\* Where `down` is with the services, and what comes after one of them.
LEMMA AtServices ==
  ASSUME PInv, proc.at \in {"stop_service", "stopped_service"}
  PROVE  /\ LInv /\ proc \in Processes /\ life \in Lives /\ site \in Sites
         /\ (proc.told => Up) /\ ~site.archived /\ proc.t \in Services
         /\ IF Up THEN proc.t = Ledgers => life.freeze = "complete"
                  ELSE life.failure # "none"
<1>1. proc.at \in Underway
  BY UnderwayPlaces
<1>2. /\ LInv /\ proc \in Processes /\ life \in Lives /\ site \in Sites /\ Working
      /\ (proc.told => Up) /\ ~site.archived
  BY <1>1, AtWork
<1>3. proc.t \in Services
  BY <1>2, AtService
<1> QED BY <1>2, <1>3 DEF Working

LEMMA PostedAfterService ==
  ASSUME PInv, proc.at \in {"stop_service", "stopped_service"}, proc' = AfterService(proc),
         Apart(life'), Aside(site')
  PROVE  Posts'
<1>0. /\ proc \in Processes /\ site \in Sites /\ (proc.told => Up) /\ ~site'.archived
      /\ proc.t \in Services /\ (Up' <=> Up) /\ (Accounted' <=> Accounted)
      /\ IF Up THEN proc.t = Ledgers => life.freeze = "complete" ELSE life.failure # "none"
  BY AtServices, ApartKeeps DEF Aside
<1>1. CASE proc.t = Gateways /\ Up
  <2>1. proc' = To(proc, "freeze")
    BY <1>1, ServiceNames DEF AfterService, Here
  <2>2. "freeze" \in LifePlaces
    BY ClosingPlaces
  <2>3. proc'.at = "freeze" /\ proc'.told = proc.told
    BY <1>0, <2>1, <2>2, ToPlace
  <2> QED BY <1>0, <2>3, PostedIdle DEF Idle
<1>2. CASE proc.t = Gateways /\ ~Up
  <2>1. proc' = Gone(proc, "stop_service", Ledgers)
    BY <1>2, ServiceNames DEF AfterService, Here, Gone
  <2>2. proc'.at = "stop_service" /\ proc'.told = proc.told
    BY <1>0, <2>1, ServiceNames, ServicesFirst
  <2>3. life'.failure # "none"
    BY <1>0, <1>2 DEF Apart
  <2> QED BY <1>0, <1>2, <2>2, <2>3, PostedAtService
<1>3. CASE proc.t = Ledgers /\ Up
  <2>1. proc' = To(proc, "prepare")
    BY <1>3, ServiceNames DEF AfterService, Here
  <2>2. "prepare" \in LifePlaces
    BY ClosingPlaces
  <2>3. proc'.at = "prepare" /\ proc'.told = proc.told
    BY <1>0, <2>1, <2>2, ToPlace
  <2>4. life'.freeze = "complete"
    BY <1>0, <1>3 DEF Apart
  <2> QED BY <1>0, <2>3, <2>4, PostedFrozen
<1>4. CASE proc.t = Ledgers /\ ~Up
  <2>1. proc' = Removing([proc EXCEPT !.bad = TRUE], site.objects)
    BY <1>4, ServiceNames DEF AfterService, Here
  <2>2. /\ [proc EXCEPT !.bad = TRUE] \in Processes /\ site.objects \in SUBSET Objects
        /\ [proc EXCEPT !.bad = TRUE].told = proc.told
    BY <1>0, MarkedBad DEF Sites, Processes
  <2>3. Accounted'
    BY <1>0, <1>4 DEF Accounted
  <2> QED BY <1>0, <2>1, <2>2, <2>3, PostedRemoving
<1> QED BY <1>0, <1>1, <1>2, <1>3, <1>4, ServiceNames

LEMMA ServicesKept ==
  ASSUME PInv, StopService \/ StoppedService
  PROVE  Kept
<1>0. /\ LInv /\ proc \in Processes /\ (proc.told => Up) /\ ~site.archived
      /\ proc.at \in {"stop_service", "stopped_service"} /\ host'.sent = host.sent
      /\ IF Up THEN proc.t = Ledgers => life.freeze = "complete" ELSE life.failure # "none"
  <2>1. proc.at \in {"stop_service", "stopped_service"} /\ host'.sent = host.sent
    BY DEF StopService, StoppedService, At
  <2> QED BY <2>1, AtServices
<1>1. ASSUME proc' = To(proc, "stopped_service"), Apart(life'), Aside(site') PROVE Posts'
  <2>1. "stopped_service" \in LifePlaces
    BY ClosingPlaces
  <2>2. /\ proc'.at = "stopped_service" /\ proc'.told = proc.told /\ proc'.t = proc.t
    BY <1>0, <1>1, <2>1, ToPlace
  <2>3. /\ (Up' <=> Up) /\ life'.failure = life.failure /\ life'.freeze = life.freeze
        /\ ~site'.archived
    BY <1>0, <1>1 DEF Apart, Aside, Up
  <2> QED BY <1>0, <2>2, <2>3, PostedAtService
<1>2. /\ \A x : Apart([life EXCEPT !.stops[Here] = x])
      /\ Apart(life) /\ Aside(site) /\ \A x : Aside([site EXCEPT !.running = x])
  BY <1>0, ApartFields
<1>3. CASE StopService
  <2>1. site' = site
    BY <1>3 DEF StopService
  <2>2. CASE Say([life EXCEPT !.stops[Here] = "pending"], To(proc, "stopped_service"))
    BY <1>0, <1>1, <1>2, <2>1, <2>2, SaysApart
  <2>3. CASE Silently(To(proc, "stopped_service"))
    BY <1>0, <1>1, <1>2, <2>1, <2>3, KeptApart DEF Silently
  <2>4. CASE Silently(AfterService(proc))
    BY <1>0, <1>2, <2>1, <2>4, PostedAfterService, KeptApart DEF Silently
  <2> QED BY <1>3, <2>2, <2>3, <2>4 DEF StopService
<1>4. CASE StoppedService
  <2>1. Aside(site')
    BY <1>2, <1>4 DEF StoppedService
  <2>2. Say([life EXCEPT !.stops[Here] = "complete"], AfterService(proc))
    BY <1>4 DEF StoppedService
  <2> QED BY <1>0, <1>2, <2>1, <2>2, PostedAfterService, SaysApart
<1> QED BY <1>3, <1>4
----------------------------------------------------------------------------
LEMMA AtFreeze ==
  ASSUME PInv, proc.at \in Freezes \cup {"prepare", "attest"}
  PROVE  /\ LInv /\ proc \in Processes /\ life \in Lives /\ site \in Sites /\ Entries /\ Up
         /\ ~site.archived /\ Working /\ site.profile # "absent"
         /\ life.deletion # "complete" /\ site.public = "none" /\ life.stage = "up"
<1>1. proc.at \in Underway
  BY DEF Underway, Objected
<1>2. Up
  BY DEF PInv, LInv, Fits
<1> QED BY <1>1, <1>2, AtWork DEF Up

LEMMA PostedAtLedgers ==
  ASSUME proc \in Processes, proc' = Gone(proc, "stop_service", Ledgers),
         Up', ~site'.archived, life'.freeze = "complete"
  PROVE  Posts'
<1>1. proc'.at = "stop_service"
  BY ServiceNames, ServicesFirst
<1> QED BY <1>1, PostedAtService

LEMMA PostedLegs ==
  ASSUME NEW p \in Processes, NEW from \in Int, ~site'.archived, Up',
         proc' = Loop(p, Unfinished, from, "leg", To(p, "freeze_end")),
         Begun' \/ (from = 1 /\ life'.leg = life.leg)
  PROVE  Posts'
<1> DEFINE after == To(p, "freeze_end")
<1>1. Unfinished \in SUBSET Nat
  BY Indices DEF Unfinished
<1>2. \/ proc' = after /\ \A v \in Unfinished : v < from
      \/ \E u \in Unfinished : proc' = Gone(p, "leg", u)
  <2> HIDE DEF after
  <2>1. proc' = Loop(p, Unfinished, from, "leg", after)
    BY DEF after
  <2>2. \/ /\ Loop(p, Unfinished, from, "leg", after) = after
           /\ \A v \in Unfinished : v < from
        \/ \E u \in Unfinished : /\ Loop(p, Unfinished, from, "leg", after) = Gone(p, "leg", u)
                                 /\ from <= u
                                 /\ \A v \in Unfinished : from <= v => u <= v
    BY <1>1, Looping
  <2> QED BY <2>1, <2>2
<1>3. CASE proc' = after /\ \A v \in Unfinished : v < from
  <2>1. "freeze_end" \in LifePlaces
    BY ClosingPlaces
  <2>2. proc'.at = "freeze_end"
    BY <1>3, <2>1, ToPlace
  <2>3. Begun'
    <3>1. CASE from = 1 /\ life'.leg = life.leg
      <4>1. Gateways \in Services /\ ~(Gateways < 1)
        BY NumTracksAssumption DEF Services, Gateways
      <4>2. Gateways \notin Unfinished
        BY <1>3, <3>1, <4>1
      <4>3. life.leg[Gateways] # "none"
        BY <4>1, <4>2 DEF Unfinished
      <4> QED BY <3>1, <4>1, <4>3 DEF Begun
    <3> QED BY <3>1
  <2>4. proc'.at \in Underway /\ proc'.at \notin {"reject", "remove", "removed"} \cup Emptied
    BY <2>2, UnderwayPlaces DEF Emptied
  <2>5. Working'
    BY <2>2, <2>3, <2>4 DEF Working
  <2> QED BY <2>4, <2>5, PostedWorking
<1>4. ASSUME NEW u \in Unfinished, proc' = Gone(p, "leg", u) PROVE Posts'
  <2>1. "leg" \in LifePlaces /\ u \in Int
    BY <1>1, ClosingPlaces
  <2>2. proc'.at = "leg"
    BY <1>4, <2>1, GonePlace
  <2> QED BY <2>2, PostedIdle DEF Idle
<1> QED BY <1>2, <1>3, <1>4

\* Whatever the copying of the sources records, it may make them frozen.
LEMMA CopyingKept ==
  ASSUME PInv, Aside(site'), host'.sent = host.sent, Posts', life.deletion # "complete",
         life'.stage = life.stage, life'.deletion = life.deletion,
         life'.failure = life.failure, life'.attested = life.attested,
         life'.after = life.after, life.freeze = "complete" => life'.freeze = "complete",
         life'.freeze = "complete" => Begun'
  PROVE  Kept
<1>1. Sent' = Sent
  BY DEF Sent
<1>2. (Bound' <=> Bound) /\ (Up' <=> Up) /\ (Accounted => Accounted')
  BY DEF Bound, Up, Accounted
<1>3. Entries'
  BY <1>1, <1>2 DEF PInv, Entries, Aside
<1>4. [Promised!Next]_(Promised!vars)
  <2>1. CASE life'.freeze = "complete"
    <3>1. Promised!Freeze
      BY <1>1, <2>1 DEF Promised!Freeze, Verdict, Aside
    <3> QED BY <3>1 DEF Promised!Next
  <2>2. CASE life'.freeze # "complete" /\ life.freeze # "complete"
    <3>1. UNCHANGED Promised!vars
      BY <1>1, <2>2 DEF Promised!vars, Verdict, Aside
    <3> QED BY <3>1
  <2> QED BY <2>1, <2>2
<1> QED BY <1>3, <1>4 DEF Kept

LEMMA FreezeKept ==
  ASSUME PInv, Freeze
  PROVE  Kept
<1> DEFINE new == [life EXCEPT !.freeze = "started"]
<1>0. /\ LInv /\ proc \in Processes /\ life \in Lives /\ Up /\ ~site.archived /\ Entries
      /\ UNCHANGED <<log, host, site>> /\ life.deletion # "complete"
      /\ Apart(life) /\ Aside(site)
  <2>1. proc.at \in Freezes
    BY ClosingPlaces DEF Freeze, At
  <2> QED BY <2>1, AtFreeze, ApartFields DEF Freeze
<1>1. CASE Raise
  BY <1>0, <1>1, PostedOff, KeptApart DEF Raise, Silently
<1>2. CASE life.freeze = "complete" /\ Silently(Gone(proc, "stop_service", Ledgers))
  <2>1. /\ proc' = Gone(proc, "stop_service", Ledgers) /\ life' = life
        /\ Up' /\ ~site'.archived /\ life'.freeze = "complete"
    BY <1>0, <1>2 DEF Silently, Up
  <2> QED BY <1>0, <2>1, PostedAtLedgers, KeptApart
<1>3. CASE life.freeze # "complete" /\ Say(new, Legs(proc))
  <2>1. /\ new.stage = life.stage /\ new.leg = life.leg /\ new.failure = life.failure
        /\ new.deletion = life.deletion /\ new.attested = life.attested
        /\ new.after = life.after /\ new.freeze # "complete"
    BY <1>0 DEF Lives
  <2> HIDE DEF new
  <2>2. /\ life' \in {life, new}
        /\ (proc' = Legs(proc) /\ life' = new) \/ proc' = Off
    BY <1>3, Says
  <2>3. /\ life'.stage = life.stage /\ life'.leg = life.leg /\ life'.failure = life.failure
        /\ life'.deletion = life.deletion /\ life'.attested = life.attested
        /\ life'.after = life.after /\ life'.freeze # "complete"
    BY <1>3, <2>1, <2>2
  <2>4. Posts'
    <3>1. CASE proc' = Legs(proc)
      <4>1. proc' = Loop(proc, Unfinished, 1, "leg", To(proc, "freeze_end"))
        BY <3>1 DEF Legs
      <4>2. ~site'.archived /\ Up' /\ life'.leg = life.leg
        BY <1>0, <2>3 DEF Up
      <4> QED BY <1>0, <4>1, <4>2, PostedLegs
    <3> QED BY <2>2, <3>1, PostedOff
  <2> QED BY <1>0, <1>3, <2>3, <2>4, CopyingKept
<1> QED BY <1>1, <1>2, <1>3 DEF Freeze, Gone

LEMMA LegApart ==
  ASSUME life \in Lives, NEW s \in Services, NEW x \in {"bytes", "copied", "uncopied"},
         life' = [life EXCEPT !.leg[s] = x]
  PROVE  /\ life'.stage = life.stage /\ life'.deletion = life.deletion
         /\ life'.failure = life.failure /\ life'.attested = life.attested
         /\ life'.after = life.after /\ life'.freeze = life.freeze
         /\ Begun'
<1>1. life'.leg[s] = x
  BY DEF Lives
<1>2. Begun'
  BY <1>1 DEF Begun
<1> QED BY <1>2 DEF Lives

LEMMA PostedLegEnd ==
  ASSUME proc \in Processes, proc' = To(proc, "leg_end"), Up', ~site'.archived
  PROVE  Posts'
<1>1. "leg_end" \in LifePlaces
  BY ClosingPlaces
<1>2. proc'.at = "leg_end"
  BY <1>1, ToPlace
<1> QED BY <1>2, PostedIdle DEF Idle

LEMMA LegKept ==
  ASSUME PInv, Leg
  PROVE  Kept
<1>0. /\ LInv /\ proc \in Processes /\ life \in Lives /\ site \in Sites /\ Up
      /\ ~site.archived /\ Entries /\ host' = host /\ life.deletion # "complete"
      /\ Apart(life) /\ Aside(site) /\ \A o, x : Aside([site EXCEPT !.kept[o] = x])
      /\ proc.t \in Services /\ proc.t \in Int
  <2>1. proc.at = "leg"
    BY DEF Leg, At
  <2>2. proc.at \in Freezes
    BY <2>1, ClosingPlaces
  <2> QED BY <2>1, <2>2, AtFreeze, ApartFields, AtService DEF Leg
<1>1. CASE /\ site' = [site EXCEPT !.kept[proc.t] = Sent]
           /\ Say([life EXCEPT !.leg[proc.t] = "bytes"], To(proc, "leg_end"))
  <2>1. /\ life' \in {life, [life EXCEPT !.leg[proc.t] = "bytes"]}
        /\ (proc' = To(proc, "leg_end") /\ life' = [life EXCEPT !.leg[proc.t] = "bytes"])
           \/ proc' = Off
    BY <1>1, Says
  <2>2. Aside(site')
    BY <1>0, <1>1
  <2>3. CASE life' = [life EXCEPT !.leg[proc.t] = "bytes"]
    <3>1. /\ life'.stage = life.stage /\ life'.deletion = life.deletion
          /\ life'.failure = life.failure /\ life'.attested = life.attested
          /\ life'.after = life.after /\ life'.freeze = life.freeze /\ Begun'
      BY <1>0, <2>3, LegApart
    <3>2. Up' /\ ~site'.archived
      BY <1>0, <2>2, <3>1 DEF Up, Aside
    <3>3. Posts'
      BY <1>0, <2>1, <3>2, PostedLegEnd, PostedOff
    <3> QED BY <1>0, <2>2, <3>1, <3>3, CopyingKept
  <2>4. CASE life' = life
    <3>1. Up' /\ ~site'.archived
      BY <1>0, <2>2, <2>4 DEF Up, Aside
    <3>2. Posts'
      BY <1>0, <2>1, <3>1, PostedLegEnd, PostedOff
    <3> QED BY <1>0, <2>2, <2>4, <3>2, KeptApart
  <2> QED BY <2>1, <2>3, <2>4
<1>2. CASE /\ life' = [life EXCEPT !.leg[proc.t] = "uncopied"] /\ site' = site
           /\ proc' = Onward(proc, Unfinished, "leg", To(proc, "freeze_end"))
  <2>1. /\ life'.stage = life.stage /\ life'.deletion = life.deletion
        /\ life'.failure = life.failure /\ life'.attested = life.attested
        /\ life'.after = life.after /\ life'.freeze = life.freeze /\ Begun'
    BY <1>0, <1>2, LegApart
  <2>2. proc' = Loop(proc, Unfinished, proc.t + 1, "leg", To(proc, "freeze_end"))
    BY <1>2 DEF Onward, Here
  <2>3. Up' /\ ~site'.archived /\ proc.t + 1 \in Int /\ proc \in Processes
    BY <1>0, <1>2, <2>1 DEF Up
  <2>4. Posts'
    BY <2>1, <2>2, <2>3, PostedLegs
  <2> QED BY <1>0, <1>2, <2>1, <2>4, CopyingKept
<1>3. CASE Silently(To(proc, "leg_end")) /\ site' = site
  <2>1. proc' = To(proc, "leg_end") /\ life' = life /\ Up' /\ ~site'.archived
    BY <1>0, <1>3 DEF Silently, Up
  <2>2. Posts'
    BY <1>0, <2>1, PostedLegEnd
  <2> QED BY <1>0, <1>3, <2>1, <2>2, KeptApart
<1> QED BY <1>1, <1>2, <1>3 DEF Leg, Here

LEMMA LegEndKept ==
  ASSUME PInv, LegEnd
  PROVE  Kept
<1>0. /\ LInv /\ proc \in Processes /\ life \in Lives /\ Up /\ ~site.archived /\ Entries
      /\ UNCHANGED <<log, host, site>> /\ life.deletion # "complete"
      /\ Apart(life) /\ Aside(site) /\ proc.t \in Services /\ proc.t \in Int
  <2>1. proc.at = "leg_end"
    BY DEF LegEnd, At
  <2>2. proc.at \in Freezes
    BY <2>1, ClosingPlaces
  <2> QED BY <2>1, <2>2, AtFreeze, ApartFields, AtService DEF LegEnd
<1> DEFINE new == [life EXCEPT !.leg[proc.t] = "copied"]
           next == Loop(proc, Unfinished, proc.t + 1, "leg", To(proc, "freeze_end"))
<1>1. Say(new, next)
  BY DEF LegEnd, Onward, Here
<1>2. life' \in {life, new} /\ ((proc' = next /\ life' = new) \/ proc' = Off)
  <2> HIDE DEF new, next
  <2> QED BY <1>1, Says
<1>3. CASE life' = new
  <2>1. /\ life'.stage = life.stage /\ life'.deletion = life.deletion
        /\ life'.failure = life.failure /\ life'.attested = life.attested
        /\ life'.after = life.after /\ life'.freeze = life.freeze /\ Begun'
    BY <1>0, <1>3, LegApart
  <2>2. Up' /\ ~site'.archived /\ proc.t + 1 \in Int /\ proc \in Processes
    BY <1>0, <2>1 DEF Up
  <2>3. CASE proc' = next
    <3>1. proc' = Loop(proc, Unfinished, proc.t + 1, "leg", To(proc, "freeze_end"))
      BY <2>3
    <3> HIDE DEF next
    <3>2. Posts'
      BY <2>1, <2>2, <3>1, PostedLegs
    <3> HIDE DEF new
    <3> QED BY <1>0, <2>1, <3>2, CopyingKept
  <2>4. CASE proc' = Off
    BY <1>0, <2>1, <2>4, PostedOff, CopyingKept
  <2> QED BY <1>2, <2>3, <2>4
<1>4. CASE life' = life /\ proc' = Off
  BY <1>0, <1>4, PostedOff, KeptApart
<1>5. CASE life' = life /\ proc' = next /\ life' = new
  BY <1>3, <1>5
<1> QED BY <1>2, <1>3, <1>4, <1>5

LEMMA FreezeEndKept ==
  ASSUME PInv, FreezeEnd
  PROVE  Kept
<1> DEFINE new == [life EXCEPT !.freeze = "complete"]
           next == Gone(proc, "stop_service", Ledgers)
<1>0. /\ LInv /\ proc \in Processes /\ life \in Lives /\ Up /\ ~site.archived /\ Entries
      /\ UNCHANGED <<log, host, site>> /\ life.deletion # "complete"
      /\ Apart(life) /\ Aside(site) /\ Begun
  <2>1. proc.at = "freeze_end"
    BY DEF FreezeEnd, At
  <2>2. proc.at \in Freezes
    BY <2>1, ClosingPlaces
  <2> QED BY <2>1, <2>2, AtFreeze, ApartFields DEF FreezeEnd, Working
<1>1. Say(new, next)
  BY DEF FreezeEnd, Gone
<1>2. /\ new.stage = life.stage /\ new.leg = life.leg /\ new.failure = life.failure
      /\ new.deletion = life.deletion /\ new.attested = life.attested
      /\ new.after = life.after /\ new.freeze = "complete"
  BY <1>0 DEF Lives
<1>3. life' \in {life, new} /\ ((proc' = next /\ life' = new) \/ proc' = Off)
  <2> HIDE DEF new, next
  <2> QED BY <1>1, Says
<1>4. CASE life' = new
  <2> HIDE DEF new
  <2>1. /\ life'.stage = life.stage /\ life'.deletion = life.deletion
        /\ life'.failure = life.failure /\ life'.attested = life.attested
        /\ life'.after = life.after /\ life'.freeze = "complete" /\ Begun'
    BY <1>0, <1>2, <1>4 DEF Begun
  <2>2. Up' /\ ~site'.archived
    BY <1>0, <2>1 DEF Up
  <2>3. Posts'
    BY <1>0, <1>3, <2>1, <2>2, PostedOff, PostedAtLedgers
  <2> QED BY <1>0, <2>1, <2>3, CopyingKept
<1>5. CASE life' = life /\ proc' = Off
  BY <1>0, <1>5, PostedOff, KeptApart
<1> QED BY <1>3, <1>4, <1>5
----------------------------------------------------------------------------
\* Where objects are being removed, and after it.
Clearing == {"reject", "remove", "removed"} \cup Emptied

LEMMA AtClearing ==
  ASSUME PInv, proc.at \in Clearing
  PROVE  /\ LInv /\ proc \in Processes /\ life \in Lives /\ site \in Sites /\ Entries
         /\ (proc.told => Up) /\ Accounted /\ site.profile # "absent"
         /\ life.deletion # "complete" /\ site.public = "none" /\ ~site.archived
         /\ Apart(life) /\ Aside(site)
<1>1. proc.at \in Underway
  BY PlacesOfPosts DEF Clearing
<1>2. Working => Accounted
  BY DEF Working, Clearing
<1> QED BY <1>1, <1>2, AtWork, ApartFields

LEMMA PostedThere ==
  ASSUME proc \in Processes, proc.told => Up, Accounted, ~site.archived, Apart(life'),
         Aside(site'), NEW place \in {"reject", "removed", "stop", "delete"},
         proc' = To(proc, place)
  PROVE  Posts'
<1>1. place \in LifePlaces /\ place \in Clearing
  BY ClosingPlaces, FinalPlaces DEF Clearing
<1>2. proc'.at = place /\ proc'.told = proc.told
  BY <1>1, ToPlace
<1>3. Accounted' /\ Up' = Up /\ ~site'.archived
  BY ApartKeeps DEF Aside, Up, Apart
<1> QED BY <1>1, <1>2, <1>3, PostedClearing DEF Clearing

LEMMA PrepareKept ==
  ASSUME PInv, Prepare
  PROVE  Kept
<1> DEFINE next == [proc EXCEPT !.at = "attest", !.told = AllCompleted /\ Copied]
<1>0. /\ LInv /\ proc \in Processes /\ Up /\ ~site.archived /\ life.freeze = "complete"
      /\ host' = host /\ Apart(life) /\ Aside(site)
      /\ \A x : Apart([life EXCEPT !.evidence = x])
      /\ \A x : Aside([site EXCEPT !.provisional = x])
  <2>1. proc.at = "prepare"
    BY DEF Prepare, At
  <2> QED BY <2>1, AtFreeze, ApartFields DEF Prepare, Working
<1>1. Apart(life') /\ Aside(site')
  <2>1. Apart(life')
    BY <1>0 DEF Prepare, AppendLife, Silently
  <2>2. Aside(site')
    BY <1>0 DEF Prepare
  <2> QED BY <2>1, <2>2
<1>2. proc' = Off \/ proc' = To(proc, "reject") \/ proc' = next
  BY DEF Prepare, AppendLife, Silently
<1>3. Posts'
  <2>1. CASE proc' = To(proc, "reject")
    BY <1>0, <1>1, <2>1, PostedThere DEF Accounted
  <2>2. CASE proc' = next
    <3>1. proc'.at = "attest"
      BY <1>0, <2>2 DEF Processes
    <3>2. Up' /\ ~site'.archived /\ life'.freeze = "complete"
      BY <1>0, <1>1 DEF Up, Apart, Aside
    <3> QED BY <3>1, <3>2, PostedFrozen
  <2> QED BY <1>2, <2>1, <2>2, PostedOff
<1> QED BY <1>0, <1>1, <1>3, KeptApart

LEMMA AttestKept ==
  ASSUME PInv, Attest
  PROVE  Kept
<1> DEFINE new == [life EXCEPT !.attested = IF proc.told THEN "full" ELSE "empty"]
<1>0. /\ LInv /\ proc \in Processes /\ life \in Lives /\ site \in Sites /\ Up /\ Entries
      /\ ~site.archived /\ life.freeze = "complete" /\ UNCHANGED <<log, host, site>>
  <2>1. proc.at = "attest"
    BY DEF Attest, At
  <2> QED BY <2>1, AtFreeze DEF Attest, Working
<1>1. /\ life' \in {life, new}
      /\ proc' = Off \/ proc' = To(proc, "reject") \/ proc' = Removing(proc, site.objects)
  BY DEF Attest, AppendLife
<1>2. /\ life'.stage = life.stage /\ life'.freeze = life.freeze /\ life'.leg = life.leg
      /\ life'.deletion = life.deletion /\ life'.failure = life.failure
      /\ life'.after = life.after
  BY <1>0, <1>1 DEF Lives
<1>3. /\ Accounted' /\ Up' /\ (Bound' <=> Bound) /\ (Begun' <=> Begun) /\ ~site'.archived
      /\ Sent' = Sent
  BY <1>0, <1>2 DEF Accounted, Up, Bound, Begun, Sent
<1>4. Posts'
  <2>1. CASE proc' = To(proc, "reject")
    <3>1. "reject" \in LifePlaces
      BY ClosingPlaces
    <3>2. proc'.at = "reject"
      BY <1>0, <2>1, <3>1, ToPlace
    <3> QED BY <1>3, <3>2, PostedClearing
  <2>2. CASE proc' = Removing(proc, site.objects)
    <3>1. site.objects \in SUBSET Objects
      BY <1>0 DEF Sites
    <3> QED BY <1>0, <1>3, <2>2, <3>1, PostedRemoving
  <2> QED BY <1>1, <2>1, <2>2, PostedOff
<1>5. Entries'
  BY <1>0, <1>2, <1>3 DEF Entries, Accounted
<1>6. UNCHANGED Promised!vars
  BY <1>0, <1>2, <1>3 DEF Promised!vars, Verdict
<1> QED BY <1>4, <1>5, <1>6 DEF Kept

LEMMA RejectKept ==
  ASSUME PInv, Reject
  PROVE  Kept
<1> DEFINE p == [proc EXCEPT !.bad = TRUE, !.told = FALSE]
<1>0. /\ LInv /\ proc \in Processes /\ site \in Sites /\ Accounted /\ ~site.archived
      /\ UNCHANGED <<log, host, site, life>> /\ Apart(life) /\ Aside(site)
  <2>1. proc.at \in Clearing
    BY DEF Reject, At, Clearing
  <2> QED BY <2>1, AtClearing DEF Reject, Silently
<1>1. p \in Processes /\ ~p.told /\ site.objects \in SUBSET Objects
  BY <1>0, MarkedBad DEF Processes, Sites
<1>2. proc' = Removing(p, site.objects)
  BY DEF Reject, Silently
<1>3. Accounted' /\ ~site'.archived
  BY <1>0, ApartKeeps
<1> HIDE DEF p
<1>4. Posts'
  BY <1>1, <1>2, <1>3, PostedRemoving
<1> QED BY <1>0, <1>4, KeptApart

LEMMA RemoveKept ==
  ASSUME PInv, Remove
  PROVE  Kept
<1>0. /\ LInv /\ proc \in Processes /\ (proc.told => Up) /\ Accounted /\ ~site.archived
      /\ UNCHANGED <<log, host, site>> /\ Apart(life) /\ Aside(site)
      /\ \A o, x : Apart([life EXCEPT !.removed[o] = x])
  <2>1. proc.at \in Clearing
    BY DEF Remove, At, Clearing
  <2> QED BY <2>1, AtClearing, ApartFields DEF Remove
<1>1. ASSUME proc' = To(proc, "removed"), Apart(life') PROVE Posts'
  BY <1>0, <1>1, PostedThere
<1>2. CASE Say([life EXCEPT !.removed[Here] = "pending"], To(proc, "removed"))
  BY <1>0, <1>1, <1>2, SaysApart
<1>3. CASE Silently(To(proc, "removed"))
  BY <1>0, <1>1, <1>3, KeptApart DEF Silently
<1> QED BY <1>2, <1>3 DEF Remove

LEMMA RemovedKept ==
  ASSUME PInv, Removed
  PROVE  Kept
<1> DEFINE present == site.objects \ {Here}
           new == [life EXCEPT !.removed[Here] = "complete"]
<1>0. /\ LInv /\ proc \in Processes /\ site \in Sites /\ (proc.told => Up) /\ Accounted
      /\ ~site.archived /\ host' = host
      /\ Apart(new) /\ \A x, y : Aside([site EXCEPT !.objects = x, !.running = y])
  <2>1. proc.at \in Clearing
    BY DEF Removed, At, Clearing
  <2> QED BY <2>1, AtClearing, ApartFields DEF Removed
<1>1. present \in SUBSET Objects /\ Aside(site') /\ Say(new, Removing(proc, present))
  BY <1>0 DEF Removed, Sites
<1> HIDE DEF present, new
<1>2. ASSUME proc' = Removing(proc, present), life' = new PROVE Posts'
  <2>1. Accounted' /\ Up' = Up /\ ~site'.archived
    BY <1>0, <1>1, <1>2, ApartKeeps DEF Up, Apart, Aside
  <2> QED BY <1>0, <1>1, <1>2, <2>1, PostedRemoving
<1> QED BY <1>0, <1>1, <1>2, SaysApart

LEMMA TopologyKept ==
  ASSUME PInv, Topology
  PROVE  Kept
<1>0. /\ LInv /\ proc \in Processes /\ (proc.told => Up) /\ Accounted /\ ~site.archived
      /\ UNCHANGED <<log, host, site>> /\ Apart(life) /\ Aside(site)
      /\ Apart([life EXCEPT !.topology = TRUE])
  <2>1. proc.at \in Clearing
    BY FinalPlaces DEF Topology, At, Clearing
  <2> QED BY <2>1, AtClearing, ApartFields DEF Topology
<1>1. CASE Say([life EXCEPT !.topology = TRUE], To(proc, "stop"))
  <2>1. ASSUME proc' = To(proc, "stop"), life' = [life EXCEPT !.topology = TRUE] PROVE Posts'
    BY <1>0, <2>1, PostedThere
  <2> QED BY <1>0, <1>1, <2>1, SaysApart
<1>2. CASE Raise
  BY <1>0, <1>2, PostedOff, KeptApart DEF Raise, Silently
<1> QED BY <1>1, <1>2 DEF Topology

LEMMA DeletionField ==
  ASSUME life \in Lives, NEW x, life' \in {life, [life EXCEPT !.deletion = x]}
  PROVE  /\ life'.stage = life.stage /\ life'.freeze = life.freeze /\ life'.leg = life.leg
         /\ life'.failure = life.failure /\ life'.attested = life.attested
         /\ life'.after = life.after /\ life'.deletion \in {life.deletion, x}
         /\ life' = [life EXCEPT !.deletion = x] => life'.deletion = x
<1>1. CASE life' = [life EXCEPT !.deletion = x]
  BY <1>1 DEF Lives
<1>2. CASE life' = life
  <2>1. life' = [life EXCEPT !.deletion = x] => life'.deletion = x
    BY DEF Lives
  <2> QED BY <1>2, <2>1
<1> QED BY <1>1, <1>2

\* The profile goes between an intent and a completion, and what there is to know
\* of the requests is known by then.
LEMMA DeletionKept ==
  ASSUME PInv, Stop \/ Delete
  PROVE  Kept
<1>0. /\ LInv /\ proc \in Processes /\ life \in Lives /\ site \in Sites /\ Entries
      /\ (proc.told => Up) /\ Accounted /\ site.profile # "absent"
      /\ life.deletion # "complete" /\ site.public = "none" /\ ~site.archived
      /\ host' = host /\ life.stage # "none"
  <2>1. proc.at \in Clearing
    BY FinalPlaces DEF Stop, Delete, At, Clearing
  <2>2. host' = host
    BY DEF Stop, Delete
  <2> QED BY <2>1, <2>2, AtClearing DEF Entries
<1>1. /\ Sent' = Sent /\ (life.failure # "none" => ~Up) /\ (~Bound => Sent = {})
      /\ life.freeze = "complete" => Begun
      /\ life.attested = "full" => life.freeze = "complete"
  BY <1>0 DEF Sent, Entries
<1>2. CASE Stop
  <2>1. /\ site' = [site EXCEPT !.profile = "stopped", !.running = {}]
        /\ Say([life EXCEPT !.deletion = "intent"], To(proc, "delete"))
    BY <1>2 DEF Stop
  <2>2. /\ site'.profile = "stopped" /\ site'.public = site.public
        /\ site'.archived = site.archived /\ ~site'.archived
    BY <1>0, <2>1 DEF Sites
  <2>3. /\ life' \in {life, [life EXCEPT !.deletion = "intent"]}
        /\ proc' \in {Off, To(proc, "delete")}
    BY <2>1, Says
  <2>4. /\ life'.stage = life.stage /\ life'.freeze = life.freeze /\ life'.leg = life.leg
        /\ life'.failure = life.failure /\ life'.attested = life.attested
        /\ life'.after = life.after /\ life'.deletion # "complete"
    <3>1. life' \in {life, [life EXCEPT !.deletion = "intent"]}
      BY <2>3
    <3> QED BY <1>0, <2>3, <3>1, DeletionField
  <2>5. Accounted' /\ (Up' <=> Up) /\ (Bound' <=> Bound) /\ (Begun' <=> Begun)
    BY <1>0, <2>4 DEF Accounted, Up, Bound, Begun
  <2>6. Posts'
    <3>1. CASE proc' = To(proc, "delete")
      <4>1. "delete" \in LifePlaces /\ "delete" \in Emptied
        BY FinalPlaces
      <4>2. proc'.at = "delete" /\ proc'.told = proc.told
        BY <1>0, <3>1, <4>1, ToPlace
      <4> QED BY <1>0, <2>2, <2>5, <4>1, <4>2, PostedClearing
    <3> QED BY <2>3, <3>1, PostedOff
  <2>7. Entries'
    <3>1. /\ life'.stage # "none" /\ life'.deletion # "complete"
          /\ site'.public = "none" /\ ~site'.archived
      BY <1>0, <2>2, <2>4
    <3>2. /\ ~Bound' => Sent' = {}
          /\ life'.freeze = "complete" => Begun'
      BY <1>1, <2>4, <2>5
    <3>3. /\ life'.attested = "full" => life'.freeze = "complete"
          /\ life'.failure # "none" => ~Up'
      BY <1>1, <2>4, <2>5
    <3> QED BY <2>5, <3>1, <3>2, <3>3 DEF Entries
  <2>8. UNCHANGED Promised!vars
    BY <1>0, <1>1, <2>2, <2>4 DEF Promised!vars, Verdict
  <2> QED BY <2>6, <2>7, <2>8 DEF Kept
<1>3. CASE Delete
  <2>1. /\ site' = [site EXCEPT !.profile = "absent"]
        /\ Say([life EXCEPT !.deletion = "complete"], To(proc, "after"))
    BY <1>3 DEF Delete
  <2>2. site'.profile = "absent" /\ site'.public = site.public /\ ~site'.archived
        /\ site'.archived = site.archived
    BY <1>0, <2>1 DEF Sites
  <2>3. /\ life' \in {life, [life EXCEPT !.deletion = "complete"]}
        /\ (proc' = To(proc, "after") /\ life' = [life EXCEPT !.deletion = "complete"])
           \/ proc' = Off
    BY <2>1, Says
  <2>4. /\ life'.stage = life.stage /\ life'.freeze = life.freeze /\ life'.leg = life.leg
        /\ life'.failure = life.failure /\ life'.attested = life.attested
        /\ life'.after = life.after /\ life'.deletion \in {life.deletion, "complete"}
        /\ proc' # Off => life'.deletion = "complete"
    <3>1. life' \in {life, [life EXCEPT !.deletion = "complete"]}
      BY <2>3
    <3> QED BY <1>0, <2>3, <3>1, DeletionField
  <2>5. Accounted' /\ (Up' <=> Up) /\ (Bound' <=> Bound) /\ (Begun' <=> Begun)
    BY <1>0, <2>4 DEF Accounted, Up, Bound, Begun
  <2>6. Posts'
    <3>1. CASE proc' = To(proc, "after") /\ proc' # Off
      <4>1. "after" \in LifePlaces /\ "after" \in Finals
        BY FinalPlaces
      <4>2. proc'.at = "after" /\ proc'.told = proc.told
        BY <1>0, <3>1, <4>1, ToPlace
      <4>3. proc'.told => life'.failure = "none"
        BY <1>0, <2>4, <4>2 DEF Entries
      <4>4. Ending'
        BY <2>4, <3>1, <4>2, <4>3 DEF Ending
      <4> QED BY <2>2, <4>1, <4>2, <4>4, PostedEnding
    <3> QED BY <2>3, <3>1, PostedOff
  <2>7. Entries'
    BY <1>0, <1>1, <2>2, <2>4, <2>5 DEF Entries
  <2>8. CASE life'.deletion = "complete"
    <3>1. life.freeze = "complete" \/ life.failure # "none" \/ Sent = {}
      BY <1>0 DEF Accounted, Entries
    <3>2. Promised!Remove
      BY <1>1, <2>2, <2>4, <2>8, <3>1 DEF Promised!Remove, Verdict
    <3>3. Promised!Next
      BY <3>2 DEF Promised!Next
    <3> QED BY <2>6, <2>7, <3>3 DEF Kept
  <2>9. CASE life'.deletion = life.deletion
    <3>1. UNCHANGED Promised!vars
      BY <1>1, <2>2, <2>4, <2>9 DEF Promised!vars, Verdict
    <3> QED BY <2>6, <2>7, <3>1 DEF Kept
  <2> QED BY <2>4, <2>8, <2>9
<1> QED BY <1>2, <1>3
----------------------------------------------------------------------------
\* When the profile is gone.
LEMMA AtFinals ==
  ASSUME PInv, proc.at \in Finals
  PROVE  /\ LInv /\ proc \in Processes /\ life \in Lives /\ site \in Sites /\ Entries
         /\ ~site.archived /\ life.deletion = "complete" /\ (proc.told => life.failure = "none")
         /\ (proc.at # "after" => life.after # "none") /\ Ending
         /\ Apart(life) /\ Aside(site)
<1>1. proc.at # "off" /\ LInv /\ Entries /\ Ending
  BY PlacesOfPosts DEF PInv, Posts, AtSession, Finals
<1>2. life.deletion = "complete" /\ (proc.told => life.failure = "none")
  BY <1>1 DEF Ending
<1>3. proc.at # "after" => life.after # "none"
  BY <1>1 DEF Ending
<1>4. ~site.archived
  BY <1>1, NotArchived
<1>5. proc \in Processes /\ life \in Lives /\ site \in Sites
  BY <1>1 DEF LInv, Sound, STypeOK
<1> QED BY <1>1, <1>2, <1>3, <1>4, <1>5, ApartFields

LEMMA PostedFinal ==
  ASSUME NEW p \in Processes, NEW place \in Finals, proc' = To(p, place),
         life'.deletion = "complete", p.told => life'.failure = "none", life'.after # "none",
         ~site'.archived,
         place \in {"fail_intent", "fail_prepare", "intend", "finalize"} => site'.public = "none",
         place \in {"fail_intent", "fail_prepare"} => ~p.told,
         place \in {"intend", "finalize"} /\ ~p.told => life'.failure # "none" \/ life'.after = "same",
         place \in {"publish", "recheck", "archive"} /\ Bound' => site'.public # "none"
  PROVE  Posts'
<1>1. place \in LifePlaces
  BY FinalPlaces
<1>2. proc'.at = place /\ proc'.told = p.told
  BY <1>1, ToPlace
<1>3. Ending'
  BY <1>2 DEF Ending
<1> QED BY <1>2, <1>3, PostedEnding

LEMMA FinalNames ==
  /\ "after" \in Finals /\ "judge" \in Finals /\ "fail_intent" \in Finals
  /\ "fail_prepare" \in Finals /\ "intend" \in Finals /\ "finalize" \in Finals
  /\ "publish" \in Finals /\ "quarantine" \in Finals /\ "recheck" \in Finals
  /\ "archive" \in Finals
BY DEF Finals

LEMMA AfterKept ==
  ASSUME PInv, After
  PROVE  Kept
<1>0. /\ LInv /\ proc \in Processes /\ life \in Lives /\ site \in Sites /\ Entries
      /\ ~site.archived /\ life.deletion = "complete" /\ (proc.told => life.failure = "none")
      /\ UNCHANGED <<log, host, site>> /\ Apart(life) /\ Aside(site)
  <2>1. proc.at \in Finals
    BY FinalNames DEF After, At
  <2> QED BY <2>1, AtFinals DEF After
<1>1. CASE Raise
  BY <1>0, <1>1, PostedOff, KeptApart DEF Raise, Silently
<1>2. ASSUME proc' = To(proc, "judge"), life'.after # "none", life'.failure = life.failure,
             life'.deletion = life.deletion
      PROVE  Posts'
  BY <1>0, <1>2, FinalNames, PostedFinal
<1>3. CASE life.after # "none" /\ Silently(To(proc, "judge"))
  <2>1. life' = life /\ Posts'
    BY <1>2, <1>3 DEF Silently
  <2> QED BY <1>0, <2>1, KeptApart
<1>4. ASSUME life.after = "none", NEW x \in {"same", "drift"},
             Say([life EXCEPT !.after = x], To(proc, "judge"))
      PROVE  Kept
  <2> DEFINE new == [life EXCEPT !.after = x]
  <2>1. /\ new.stage = life.stage /\ new.freeze = life.freeze /\ new.leg = life.leg
        /\ new.failure = life.failure /\ new.attested = life.attested
        /\ new.deletion = life.deletion /\ new.after = x
    BY <1>0 DEF Lives
  <2>2. /\ life' \in {life, new}
        /\ (proc' = To(proc, "judge") /\ life' = new) \/ proc' = Off
    BY <1>4, Says
  <2> HIDE DEF new
  <2>3. CASE life' = new
    <3>1. Posts'
      BY <1>2, <2>1, <2>2, <2>3, PostedOff
    <3>2. Sent' = Sent
      BY <1>0 DEF Sent
    <3>3. /\ (Accounted' <=> Accounted) /\ (Up' <=> Up) /\ (Bound' <=> Bound)
          /\ (Begun' <=> Begun)
      BY <2>1, <2>3 DEF Accounted, Up, Bound, Begun
    <3>4. Entries'
      BY <1>0, <2>1, <2>3, <3>2, <3>3 DEF Entries
    <3>5. Promised!Compare
      <4>1. Verdict = "none" /\ Verdict' \in {"same", "changed"}
        BY <1>4, <2>1, <2>3 DEF Verdict
      <4> QED BY <1>0, <2>1, <2>3, <3>2, <4>1 DEF Promised!Compare
    <3>6. Promised!Next
      BY <3>5 DEF Promised!Next
    <3> QED BY <3>1, <3>4, <3>6 DEF Kept
  <2>4. CASE life' = life /\ proc' = Off
    BY <1>0, <2>4, PostedOff, KeptApart
  <2> QED BY <2>2, <2>3, <2>4
<1>5. CASE life.after = "none" /\ Say([life EXCEPT !.after = IF site.drift THEN "drift" ELSE "same"],
                                      To(proc, "judge"))
  <2>1. (IF site.drift THEN "drift" ELSE "same") \in {"same", "drift"}
    OBVIOUS
  <2> QED BY <1>4, <1>5, <2>1
<1> QED BY <1>1, <1>3, <1>5 DEF After

LEMMA JudgeKept ==
  ASSUME PInv, Judge
  PROVE  Kept
<1>0. /\ LInv /\ proc \in Processes /\ life \in Lives /\ ~site.archived
      /\ life.deletion = "complete" /\ (proc.told => life.failure = "none")
      /\ life.after # "none"
      /\ UNCHANGED <<log, host, life, site>> /\ Apart(life) /\ Aside(site)
  <2>1. proc.at = "judge"
    BY DEF Judge, At
  <2>2. UNCHANGED <<log, host, life, site>>
    BY DEF Judge, Silently, Raise
  <2> QED BY <2>1, <2>2, FinalNames, AtFinals
<1>1. /\ life'.deletion = "complete" /\ life'.after # "none" /\ ~site'.archived
      /\ life'.failure = life.failure /\ site'.public = site.public
      /\ (Bound' <=> Bound) /\ life'.after = life.after
  BY <1>0 DEF Bound
<1>2. Posts'
  <2>1. CASE proc' = Off
    BY <2>1, PostedOff
  <2>2. CASE ~Bound /\ proc' = To(proc, "archive")
    BY <1>0, <1>1, <2>2, FinalNames, PostedFinal
  <2>3. CASE site.public # "none" /\ proc' = To(proc, "recheck")
    BY <1>0, <1>1, <2>3, FinalNames, PostedFinal
  <2>4. ASSUME site.public = "none", life.after = "same", NEW class,
               class => life.failure = "none",
               proc' = [proc EXCEPT !.at = "intend", !.told = class]
        PROVE  Posts'
    <3>1. proc'.at = "intend" /\ proc'.told = class
      BY <1>0, <2>4 DEF Processes
    <3>2. Ending'
      BY <1>1, <2>4, <3>1 DEF Ending
    <3> QED BY <1>1, <3>1, <3>2, FinalNames, PostedEnding
  <2>5. ASSUME site.public = "none", NEW place \in {"fail_intent", "fail_prepare", "intend"},
               place = "intend" => life.failure # "none",
               proc' = [proc EXCEPT !.told = FALSE, !.at = place]
        PROVE  Posts'
    <3>1. proc'.at = place /\ ~proc'.told
      BY <1>0, <2>5 DEF Processes
    <3>2. Ending'
      BY <1>1, <2>5, <3>1 DEF Ending
    <3> QED BY <1>1, <3>1, <3>2, FinalNames, PostedEnding
  <2>6. CASE site.public = "none" /\ InHand /\ life.after = "same"
             /\ proc' = [proc EXCEPT !.at = "intend",
                           !.told = IF proc.cmd = "down" THEN proc.told ELSE RecordedComplete]
    <3> DEFINE class == IF proc.cmd = "down" THEN proc.told ELSE RecordedComplete
    <3>1. class => life.failure = "none"
      BY <1>0, <2>6 DEF InHand
    <3>2. proc' = [proc EXCEPT !.at = "intend", !.told = class]
      BY <2>6
    <3> HIDE DEF class
    <3> QED BY <2>4, <2>6, <3>1, <3>2
  <2>7. CASE site.public = "none"
             /\ proc' = [proc EXCEPT !.told = FALSE,
                           !.at = CASE life.failure = "none"     -> "fail_intent"
                                    [] life.failure = "prepared" -> "intend"
                                    [] OTHER                     -> "fail_prepare"]
    <3> DEFINE place == CASE life.failure = "none"     -> "fail_intent"
                          [] life.failure = "prepared" -> "intend"
                          [] OTHER                     -> "fail_prepare"
    <3>1. place \in {"fail_intent", "fail_prepare", "intend"}
      OBVIOUS
    <3>2. place = "intend" => life.failure # "none"
      OBVIOUS
    <3>3. proc' = [proc EXCEPT !.told = FALSE, !.at = place]
      BY <2>7
    <3> HIDE DEF place
    <3> QED BY <2>5, <2>7, <3>1, <3>2, <3>3
  <2>8. CASE ~Bound
    BY <2>2, <2>8 DEF Judge, Silently
  <2>9. CASE Bound /\ Up /\ ~life.topology
    BY <2>1, <2>9 DEF Judge, Silently, Raise
  <2>10. CASE Bound /\ ~(Up /\ ~life.topology) /\ site.public # "none"
    BY <2>3, <2>10 DEF Judge, Silently
  <2>11. CASE Bound /\ ~(Up /\ ~life.topology) /\ site.public = "none"
    <3>1. CASE InHand /\ life.after = "same"
      <4>1. proc' = [proc EXCEPT !.at = "intend",
                       !.told = IF proc.cmd = "down" THEN proc.told ELSE RecordedComplete]
        BY <2>11, <3>1 DEF Judge, Silently
      <4> QED BY <2>6, <2>11, <3>1, <4>1
    <3>2. CASE ~(InHand /\ life.after = "same")
      <4>1. proc' = [proc EXCEPT !.told = FALSE,
                       !.at = CASE life.failure = "none"     -> "fail_intent"
                                [] life.failure = "prepared" -> "intend"
                                [] OTHER                     -> "fail_prepare"]
        BY <2>11, <3>2 DEF Judge, Silently
      <4> QED BY <2>7, <2>11, <4>1
    <3> QED BY <3>1, <3>2
  <2> QED BY <2>8, <2>9, <2>10, <2>11
<1> QED BY <1>0, <1>2, KeptApart

\* A lifecycle is declared a failure before anything of it is public.
LEMMA LosingKept ==
  ASSUME PInv, Aside(site'), host'.sent = host.sent, Posts', life.deletion = "complete",
         site.public = "none", ~site.archived,
         NEW x \in {"intent", "prepared"}, life' = [life EXCEPT !.failure = x]
  PROVE  Kept
<1>0. life \in Lives /\ Entries
  BY DEF PInv, LInv
<1>1. /\ life'.stage = life.stage /\ life'.freeze = life.freeze /\ life'.leg = life.leg
      /\ life'.deletion = life.deletion /\ life'.attested = life.attested
      /\ life'.after = life.after /\ life'.failure # "none"
  BY <1>0 DEF Lives
<1>2. /\ Accounted' /\ (Up' <=> Up) /\ (Bound' <=> Bound) /\ (Begun' <=> Begun)
      /\ Sent' = Sent
  BY <1>1 DEF Accounted, Up, Bound, Begun, Sent
<1>3. Entries'
  BY <1>0, <1>1, <1>2 DEF Entries, Aside
<1>4. Promised!Lose
  BY <1>1, <1>2 DEF Promised!Lose, Verdict, Aside
<1>5. Promised!Next
  BY <1>4 DEF Promised!Next
<1> QED BY <1>3, <1>5 DEF Kept

LEMMA FailingKept ==
  ASSUME PInv, FailIntent \/ FailPrepare
  PROVE  Kept
<1>0. /\ LInv /\ proc \in Processes /\ life \in Lives /\ site \in Sites /\ ~site.archived
      /\ life.deletion = "complete" /\ life.after # "none" /\ ~proc.told
      /\ site.public = "none" /\ host' = host /\ Apart(life) /\ Aside(site)
      /\ \A x : Aside([site EXCEPT !.provisional = x])
  <2>1. proc.at \in {"fail_intent", "fail_prepare"} /\ host' = host
    BY DEF FailIntent, FailPrepare, At
  <2>2. proc.at \in Finals
    BY <2>1, FinalNames
  <2>3. ~proc.told /\ site.public = "none"
    BY <2>1, <2>2, AtFinals DEF Ending
  <2> QED BY <2>1, <2>2, <2>3, AtFinals, ApartFields
<1>1. ASSUME NEW x \in {"intent", "prepared"}, NEW place \in {"fail_prepare", "intend"},
             Aside(site'), Say([life EXCEPT !.failure = x], To(proc, place))
      PROVE  Kept
  <2>1. /\ life' \in {life, [life EXCEPT !.failure = x]}
        /\ (proc' = To(proc, place) /\ life' = [life EXCEPT !.failure = x]) \/ proc' = Off
    BY <1>1, Says
  <2>2. /\ site'.public = "none" /\ ~site'.archived
    BY <1>0, <1>1 DEF Aside
  <2>3. CASE life' = [life EXCEPT !.failure = x]
    <3>1. /\ life'.deletion = "complete" /\ life'.after # "none" /\ life'.failure # "none"
      BY <1>0, <2>3 DEF Lives
    <3>2. Posts'
      <4>1. CASE proc' = To(proc, place)
        <5>1. place \in Finals /\ place \notin {"publish", "recheck", "archive"}
          BY FinalNames
        <5> QED BY <1>0, <2>2, <3>1, <4>1, <5>1, PostedFinal
      <4> QED BY <2>1, <4>1, PostedOff
    <3> QED BY <1>0, <1>1, <2>3, <3>2, LosingKept
  <2>4. CASE life' = life /\ proc' = Off
    BY <1>0, <1>1, <2>4, PostedOff, KeptApart
  <2> QED BY <2>1, <2>3, <2>4
<1>2. CASE FailIntent
  <2>1. site' = site /\ Say([life EXCEPT !.failure = "intent"], To(proc, "fail_prepare"))
    BY <1>2 DEF FailIntent
  <2> QED BY <1>0, <1>1, <2>1
<1>3. CASE FailPrepare
  <2>1. CASE site' = site /\ Raise
    BY <1>0, <2>1, PostedOff, KeptApart DEF Raise, Silently
  <2>2. CASE /\ site' = [site EXCEPT !.provisional = "incomplete"]
             /\ Say([life EXCEPT !.failure = "prepared"], To(proc, "intend"))
    <3>1. Aside(site')
      BY <1>0, <2>2
    <3> QED BY <1>1, <2>2, <3>1
  <2> QED BY <1>3, <2>1, <2>2 DEF FailPrepare
<1> QED BY <1>2, <1>3

LEMMA IntendKept ==
  ASSUME PInv, Intend
  PROVE  Kept
<1>0. /\ LInv /\ proc \in Processes /\ ~site.archived
      /\ life.deletion = "complete" /\ life.after # "none"
      /\ (proc.told => life.failure = "none") /\ site.public = "none"
      /\ ~proc.told => life.failure # "none" \/ life.after = "same"
      /\ UNCHANGED <<log, host, site>> /\ Apart(life) /\ Aside(site)
      /\ \A x : Apart([life EXCEPT !.intent = x])
  <2>1. proc.at = "intend"
    BY DEF Intend, At
  <2>2. site.public = "none" /\ (~proc.told => life.failure # "none" \/ life.after = "same")
    BY <2>1, FinalNames, AtFinals DEF Ending
  <2> QED BY <2>1, <2>2, FinalNames, AtFinals, ApartFields DEF Intend
<1>1. CASE Raise
  BY <1>0, <1>1, PostedOff, KeptApart DEF Raise, Silently
<1>2. ASSUME proc' = To(proc, "finalize"), Apart(life') PROVE Posts'
  BY <1>0, <1>2, FinalNames, PostedFinal DEF Apart
<1>3. CASE Silently(To(proc, "finalize"))
  BY <1>0, <1>2, <1>3, KeptApart DEF Silently
<1>4. CASE Say([life EXCEPT !.intent = Class(proc.told)], To(proc, "finalize"))
  <2> DEFINE new == [life EXCEPT !.intent = Class(proc.told)]
  <2>1. Apart(new)
    BY <1>0
  <2>2. Say(new, To(proc, "finalize"))
    BY <1>4
  <2> HIDE DEF new
  <2> QED BY <1>0, <1>2, <2>1, <2>2, SaysApart
<1> QED BY <1>1, <1>3, <1>4 DEF Intend

LEMMA AttestedIsWhole ==
  ASSUME PInv, life.attested = "full"
  PROVE  life.freeze = "complete" /\ Sent = Tracks
<1>1. Rests /\ Entries
  BY DEF PInv, LInv
<1>2. Gateways \in Services
  BY ServiceNames
<1>3. life.leg[Gateways] = "copied" /\ site.kept[Gateways] = Tracks
  BY <1>1, <1>2 DEF Rests, Whole, Copied
<1>4. site.kept[Gateways] = Sent
  BY <1>1, <1>2, <1>3 DEF Rests
<1> QED BY <1>1, <1>3, <1>4 DEF Entries

\* What becomes public is of the class that the evidence has earned.
LEMMA FinalizeKept ==
  ASSUME PInv, Finalize
  PROVE  Kept
<1> DEFINE class == Class(proc.told)
<1>0. /\ LInv /\ proc \in Processes /\ life \in Lives /\ site \in Sites /\ Entries
      /\ ~site.archived /\ life.deletion = "complete" /\ life.after # "none"
      /\ (proc.told => life.failure = "none") /\ site.public = "none"
      /\ ~proc.told => life.failure # "none" \/ life.after = "same"
      /\ host' = host /\ Apart(life) /\ Aside(site)
  <2>1. proc.at = "finalize"
    BY DEF Finalize, At
  <2>2. site.public = "none" /\ (~proc.told => life.failure # "none" \/ life.after = "same")
    BY <2>1, FinalNames, AtFinals DEF Ending
  <2> QED BY <2>1, <2>2, FinalNames, AtFinals DEF Finalize
<1>1. CASE site' = site /\ Raise
  BY <1>0, <1>1, PostedOff, KeptApart DEF Raise, Silently
<1>2. CASE Publishable /\ site' = [site EXCEPT !.public = class]
           /\ Silently(To(proc, "publish"))
  <2>1. /\ class \in {"complete", "incomplete"} /\ (class = "complete" <=> proc.told)
    BY DEF Class
  <2>2. /\ site'.public = class /\ site'.archived = site.archived
        /\ site'.profile = site.profile /\ life' = life
        /\ proc' = To(proc, "publish")
    BY <1>0, <1>2 DEF Sites, Silently
  <2>3. /\ life'.deletion = "complete" /\ life'.after # "none" /\ ~site'.archived
        /\ site'.public # "none" /\ life'.failure = life.failure
    BY <1>0, <2>1, <2>2
  <2>4. Posts'
    BY <1>0, <2>2, <2>3, FinalNames, PostedFinal
  <2>5. Sent' = Sent /\ Verdict' = Verdict
    BY <1>0, <2>2 DEF Sent, Verdict
  <2>6. Entries'
    <3>1. /\ (Accounted' <=> Accounted) /\ (Up' <=> Up) /\ (Bound' <=> Bound)
          /\ (Begun' <=> Begun)
      BY <2>2 DEF Accounted, Up, Bound, Begun
    <3> QED BY <1>0, <2>2, <2>3, <2>5, <3>1 DEF Entries
  <2>7. Promised!Publish(class)
    <3>1. Verdict # "none" /\ (life.after = "same" => Verdict = "same")
      BY <1>0 DEF Verdict
    <3>2. proc.told => /\ life.freeze = "complete" /\ life.failure = "none"
                       /\ Verdict = "same" /\ Sent = Tracks
      BY <1>0, <1>2, <3>1, AttestedIsWhole DEF Publishable
    <3>3. ~proc.told => life.failure # "none" \/ Verdict = "same"
      BY <1>0, <3>1
    <3> HIDE DEF class
    <3> QED BY <1>0, <2>1, <2>2, <2>5, <3>1, <3>2, <3>3 DEF Promised!Publish
  <2>8. Promised!Next
    BY <2>1, <2>7 DEF Promised!Next
  <2> QED BY <2>4, <2>6, <2>8 DEF Kept
<1> QED BY <1>1, <1>2 DEF Finalize

LEMMA PublishKept ==
  ASSUME PInv, Publish
  PROVE  Kept
<1>0. /\ LInv /\ proc \in Processes /\ ~site.archived
      /\ life.deletion = "complete" /\ life.after # "none"
      /\ (proc.told => life.failure = "none")
      /\ (Bound => site.public # "none")
      /\ UNCHANGED <<log, host, site>> /\ Apart(life) /\ Aside(site)
      /\ Apart([life EXCEPT !.published = TRUE])
  <2>1. proc.at = "publish"
    BY DEF Publish, At
  <2>2. Bound => site.public # "none"
    BY <2>1, FinalNames, AtFinals DEF Ending
  <2> QED BY <2>1, <2>2, FinalNames, AtFinals, ApartFields DEF Publish
<1>1. /\ life' \in {life, [life EXCEPT !.published = TRUE]}
      /\ \/ proc' = Off
         \/ \E place \in {"archive", "recheck", "quarantine"} : proc' = To(proc, place)
  BY DEF Publish, AppendLife
<1>2. Apart(life')
  BY <1>0, <1>1
<1>3. ASSUME NEW place \in {"archive", "recheck", "quarantine"}, proc' = To(proc, place)
      PROVE  Posts'
  <2>1. /\ life'.deletion = "complete" /\ life'.after # "none" /\ ~site'.archived
        /\ life'.failure = life.failure /\ (Bound' => site'.public # "none")
    BY <1>0, <1>2, ApartKeeps DEF Apart
  <2>2. /\ place \in Finals
        /\ place \notin {"fail_intent", "fail_prepare", "intend", "finalize"}
    BY FinalNames
  <2> QED BY <1>0, <1>3, <2>1, <2>2, PostedFinal
<1>4. Posts'
  BY <1>1, <1>3, PostedOff
<1> QED BY <1>0, <1>2, <1>4, KeptApart

LEMMA QuarantineKept ==
  ASSUME PInv, Quarantine
  PROVE  Kept
<1>0. /\ LInv /\ site \in Sites /\ Entries /\ ~site.archived
      /\ UNCHANGED <<log, host, life>> /\ Apart(life) /\ Aside(site) /\ proc' = Off
  <2>1. proc.at = "quarantine"
    BY DEF Quarantine, At
  <2> QED BY <2>1, FinalNames, AtFinals DEF Quarantine
<1>1. CASE site' = site
  BY <1>0, <1>1, PostedOff, KeptApart
<1>2. CASE site' = [site EXCEPT !.public = "none"]
  <2>1. /\ site'.public = "none" /\ site'.archived = site.archived
        /\ site'.profile = site.profile
    BY <1>0, <1>2 DEF Sites
  <2>2. Sent' = Sent /\ Verdict' = Verdict
    BY <1>0 DEF Sent, Verdict
  <2>3. Entries'
    <3>1. /\ (Accounted' <=> Accounted) /\ (Up' <=> Up) /\ (Bound' <=> Bound)
          /\ (Begun' <=> Begun)
      BY <1>0 DEF Accounted, Up, Bound, Begun
    <3> QED BY <1>0, <2>1, <2>2, <3>1 DEF Entries
  <2>4. Promised!Withdraw
    BY <1>0, <2>1, <2>2 DEF Promised!Withdraw
  <2>5. Promised!Next
    BY <2>4 DEF Promised!Next
  <2> QED BY <1>0, <2>3, <2>5, PostedOff DEF Kept
<1> QED BY <1>1, <1>2 DEF Quarantine

LEMMA RecheckKept ==
  ASSUME PInv, Recheck
  PROVE  Kept
<1>0. /\ LInv /\ proc \in Processes /\ ~site.archived
      /\ life.deletion = "complete" /\ life.after # "none"
      /\ (proc.told => life.failure = "none") /\ (Bound => site.public # "none")
      /\ UNCHANGED <<log, host, site>> /\ Apart(life) /\ Aside(site)
      /\ Apart([life EXCEPT !.published = TRUE])
  <2>1. proc.at = "recheck"
    BY DEF Recheck, At
  <2>2. Bound => site.public # "none"
    BY <2>1, FinalNames, AtFinals DEF Ending
  <2> QED BY <2>1, <2>2, FinalNames, AtFinals, ApartFields DEF Recheck
<1>1. CASE Raise
  BY <1>0, <1>1, PostedOff, KeptApart DEF Raise, Silently
<1>2. ASSUME proc' = To(proc, "archive"), life' = [life EXCEPT !.published = TRUE]
      PROVE  Posts'
  <2>1. /\ life'.deletion = "complete" /\ life'.after # "none" /\ ~site'.archived
        /\ life'.failure = life.failure /\ (Bound' => site'.public # "none")
    BY <1>0, <1>2, ApartKeeps DEF Apart
  <2> QED BY <1>0, <1>2, <2>1, FinalNames, PostedFinal
<1>3. CASE Say([life EXCEPT !.published = TRUE], To(proc, "archive"))
  BY <1>0, <1>2, <1>3, SaysApart
<1> QED BY <1>1, <1>3 DEF Recheck

LEMMA ArchiveKept ==
  ASSUME PInv, Archive
  PROVE  Kept
<1>0. /\ LInv /\ proc \in Processes /\ site \in Sites /\ Entries /\ ~site.archived
      /\ life.deletion = "complete" /\ life.after # "none"
      /\ (proc.told => life.failure = "none") /\ (Bound => site.public # "none")
      /\ UNCHANGED <<log, host, life>> /\ Apart(life)
      /\ \A x : Aside([site EXCEPT !.state = x])
  <2>1. proc.at = "archive"
    BY DEF Archive, At
  <2>2. Bound => site.public # "none"
    BY <2>1, FinalNames, AtFinals DEF Ending
  <2> QED BY <2>1, <2>2, FinalNames, AtFinals, ApartFields DEF Archive
<1>1. CASE site' = [site EXCEPT !.archived = TRUE, !.state = FALSE] /\ proc' = Off
  <2>1. /\ site'.archived = TRUE /\ site'.public = site.public
        /\ site'.profile = site.profile
    BY <1>0, <1>1 DEF Sites
  <2>2. Sent' = Sent /\ Verdict' = Verdict
    BY <1>0 DEF Sent, Verdict
  <2>3. Entries'
    <3>1. /\ (Accounted' <=> Accounted) /\ (Up' <=> Up) /\ (Bound' <=> Bound)
          /\ (Begun' <=> Begun)
      BY <1>0 DEF Accounted, Up, Bound, Begun
    <3> QED BY <1>0, <2>1, <2>2, <3>1 DEF Entries
  <2>4. Promised!Archive
    <3>1. Verdict # "none"
      BY <1>0 DEF Verdict
    <3>2. site.public # "none" \/ Sent = {}
      BY <1>0 DEF Entries
    <3> QED BY <1>0, <2>1, <2>2, <3>1, <3>2 DEF Promised!Archive
  <2>5. Promised!Next
    BY <2>4 DEF Promised!Next
  <2> QED BY <1>1, <2>3, <2>5, PostedOff DEF Kept
<1>2. CASE /\ site' = [site EXCEPT !.state = FALSE]
           /\ proc' = Off \/ proc' = To(proc, "quarantine")
  <2>1. Aside(site')
    BY <1>0, <1>2
  <2>2. CASE proc' = To(proc, "quarantine")
    <3>1. /\ life'.deletion = "complete" /\ life'.after # "none" /\ ~site'.archived
          /\ life'.failure = life.failure
      BY <1>0, <2>1 DEF Aside
    <3>2. Posts'
      BY <1>0, <2>2, <3>1, FinalNames, PostedFinal
    <3> QED BY <1>0, <2>1, <3>2, KeptApart
  <2> QED BY <1>0, <1>2, <2>1, <2>2, PostedOff, KeptApart
<1> QED BY <1>1, <1>2 DEF Archive
----------------------------------------------------------------------------
LEMMA KeptFromTheStart ==
  ASSUME LifeInit
  PROVE  Entries /\ Posts /\ Promised!Init
<1>1. /\ life.stage = "none" /\ life.freeze = "none" /\ life.attested = "none"
      /\ life.failure = "none" /\ life.deletion = "none" /\ life.after = "none"
      /\ site.profile = "absent" /\ site.public = "none" /\ site.archived = FALSE
  BY DEF LifeInit
<1>2. proc.at = "off"
  BY OffIsCalm DEF LifeInit, Init
<1>3. Sent = {}
  <2>1. \A t \in Tracks : host.sent[t] = 0
    BY DEF LifeInit, Init
  <2> QED BY <2>1 DEF Sent
<1>4. Entries
  BY <1>1, <1>3 DEF Entries
<1>5. Posts
  <2>1. "off" \notin Building /\ "off" \notin Underway /\ "off" \notin Finals
    BY PlacesOfPosts
  <2>2. /\ "off" \notin {"partial", "stop_service", "stopped_service", "freeze_end"}
        /\ "off" \notin {"prepare", "attest"}
        /\ "off" \notin {"reject", "remove", "removed"} \cup Emptied
    BY <2>1, PlacesOfPosts
  <2>3. Working
    BY <1>2, <2>1, <2>2 DEF Working
  <2>4. /\ "off" \notin {"fail_intent", "fail_prepare", "intend", "finalize"}
        /\ "off" \notin {"publish", "recheck", "archive"}
    OBVIOUS
  <2>5. Ending
    BY <1>2, <2>1, <2>4 DEF Ending
  <2> QED BY <1>2, <2>1, <2>3, <2>5 DEF Posts
<1>6. Promised!Init
  BY <1>1, <1>3 DEF Promised!Init, Verdict
<1> QED BY <1>4, <1>5, <1>6

LEMMA StillKept ==
  ASSUME PInv, UNCHANGED lifecycle
  PROVE  Kept
<1>1. UNCHANGED <<log, host, proc, life, site>>
  BY DEF lifecycle
<1>2. Apart(life') /\ Aside(site')
  BY <1>1 DEF Apart, Aside
<1>3. Posts'
  BY <1>1 DEF PInv, Posts, Working, Ending, Accounted, Begun, Up, Bound
<1> QED BY <1>1, <1>2, <1>3, KeptApart

LEMMA UpKept ==
  ASSUME PInv, UpProgram
  PROVE  Kept
BY UpStartKept, UpCreatedKept, UpStateKept, UpEventsKept DEF UpProgram

LEMMA DownKept ==
  ASSUME PInv, DownProgram
  PROVE  Kept
<1>1. CASE Load \/ Strand \/ Quiesce \/ Quiesced
  BY <1>1, LoadKept, ClosingKept
<1>2. CASE PartialUp \/ StopService \/ StoppedService
  BY <1>2, PartialUpKept, ServicesKept
<1>3. CASE Freeze \/ Leg \/ LegEnd \/ FreezeEnd
  BY <1>3, FreezeKept, LegKept, LegEndKept, FreezeEndKept
<1>4. CASE Prepare \/ Attest \/ Reject
  BY <1>4, PrepareKept, AttestKept, RejectKept
<1>5. CASE Remove \/ Removed \/ Topology \/ Stop \/ Delete
  BY <1>5, RemoveKept, RemovedKept, TopologyKept, DeletionKept
<1>6. CASE After \/ Judge \/ FailIntent \/ FailPrepare \/ Intend
  BY <1>6, AfterKept, JudgeKept, FailingKept, IntendKept
<1>7. CASE Finalize \/ Publish \/ Quarantine \/ Recheck \/ Archive
  BY <1>7, FinalizeKept, PublishKept, QuarantineKept, RecheckKept, ArchiveKept
<1> QED BY <1>1, <1>2, <1>3, <1>4, <1>5, <1>6, <1>7 DEF DownProgram

LEMMA EveryStepKept ==
  ASSUME PInv, [LifeNext]_lifecycle
  PROVE  Kept
<1>1. CASE UpBegins \/ CollectBegins \/ Down
  BY <1>1, UpBeginsKept, CollectKept, DownBeginsKept
<1>2. CASE (\E cmd \in {"readiness", "run"} : Use(cmd))
           \/ (Program /\ UNCHANGED <<life, site>>)
  BY <1>2, SessionKept
<1>3. CASE UpProgram \/ Collect \/ DownProgram
  BY <1>3, UpKept, CollectKept, DownKept
<1>4. CASE World
  BY <1>4, WorldKept
<1>5. CASE UNCHANGED lifecycle
  BY <1>5, StillKept
<1> QED BY <1>1, <1>2, <1>3, <1>4, <1>5 DEF LifeNext, Step

\* Every lifecycle, whatever dies in it and however often `down` is repeated, is
\* one that LocalLifecycle allows: no request leaves behind the freeze or the
\* deletion, what sent something goes only frozen or given up for lost, and what
\* is published is of the class its evidence earned (down, finalize_publication).
THEOREM LifecycleKeepsPromises == LifeSpec => PromisesKept
<1>1. LifeInit => PInv /\ Promised!Init
  BY LifeInitInv, KeptFromTheStart DEF PInv, LifeInv
<1>2. PInv /\ [LifeNext]_lifecycle => PInv' /\ [Promised!Next]_(Promised!vars)
  <2> SUFFICES ASSUME PInv, [LifeNext]_lifecycle
               PROVE  PInv' /\ [Promised!Next]_(Promised!vars)
    OBVIOUS
  <2>1. LInv' /\ Standing'
    BY LifeNextInv DEF PInv, LifeInv
  <2>2. Entries' /\ Posts' /\ [Promised!Next]_(Promised!vars)
    BY EveryStepKept DEF Kept
  <2> QED BY <2>1, <2>2 DEF PInv
<1> QED BY <1>1, <1>2, PTL DEF LifeSpec, PromisesKept, Promised!Spec
----------------------------------------------------------------------------
\* What LocalLifecycle promises a reader, carried over to the controller.
LEMMA PromisedStart ==
  ASSUME Promised!Init
  PROVE  Promised!Accountable
BY DEF Promised!Init, Promised!Accountable

LEMMA PromisedStep ==
  ASSUME Promised!Accountable, [Promised!Next]_(Promised!vars)
  PROVE  /\ Promised!Accountable'
         /\ site.public # "none" \/ site.archived =>
              /\ Sent' = Sent
              /\ (life.freeze = "complete")' = (life.freeze = "complete")
              /\ (life.failure # "none")' = (life.failure # "none")
              /\ (life.deletion = "complete")' = (life.deletion = "complete")
              /\ Verdict' = Verdict
         /\ site.archived => site'.public = site.public /\ site'.archived = site.archived
<1> USE DEF Promised!Accountable
<1>1. ASSUME NEW t \in Tracks, Promised!Send(t)
      PROVE  Promised!Accountable' /\ site.public = "none" /\ ~site.archived
  BY <1>1 DEF Promised!Send
<1>2. CASE Promised!Freeze
  BY <1>2 DEF Promised!Freeze
<1>3. CASE Promised!Lose
  BY <1>3 DEF Promised!Lose
<1>4. CASE Promised!Remove
  BY <1>4 DEF Promised!Remove
<1>5. CASE Promised!Compare
  BY <1>5 DEF Promised!Compare
<1>6. ASSUME NEW class \in {"complete", "incomplete"}, Promised!Publish(class)
      PROVE  Promised!Accountable' /\ site.public = "none" /\ ~site.archived
  BY <1>6 DEF Promised!Publish
<1>7. CASE Promised!Withdraw
  BY <1>7 DEF Promised!Withdraw
<1>8. CASE Promised!Archive
  BY <1>8 DEF Promised!Archive
<1>9. CASE UNCHANGED Promised!vars
  BY <1>9 DEF Promised!vars
<1> QED
  BY <1>1, <1>2, <1>3, <1>4, <1>5, <1>6, <1>7, <1>8, <1>9 DEF Promised!Next

\* What is public tells of a lifecycle of which nothing is left, what is archived
\* has its bundle or sent nothing, and a complete bundle is of a lifecycle that
\* was never known to fail (down, finalize_publication).
THEOREM BundlesAreAccountable == LifeSpec => []Promised!Accountable
<1>1. Promised!Init => Promised!Accountable
  BY PromisedStart
<1>2. Promised!Accountable /\ [Promised!Next]_(Promised!vars) => Promised!Accountable'
  BY PromisedStep
<1> QED BY <1>1, <1>2, LifecycleKeepsPromises, PTL DEF PromisesKept, Promised!Spec

\* What a public bundle tells of stays true, and an archived lifecycle is over:
\* no later `down` changes anything of either (down, cleanup_completed_publication).
THEOREM SettledForGood == LifeSpec => Promised!SettledIsFinal
<1>1. Promised!Accountable /\ [Promised!Next]_(Promised!vars) =>
        [/\ site.public # "none" \/ site.archived =>
              UNCHANGED <<Sent, life.freeze = "complete", life.failure # "none",
                          life.deletion = "complete", Verdict>>
         /\ site.archived => UNCHANGED <<site.public, site.archived>>]_(Promised!vars)
  BY PromisedStep
<1> QED BY <1>1, LifecycleKeepsPromises, BundlesAreAccountable, PTL
        DEF PromisesKept, Promised!Spec, Promised!SettledIsFinal
=============================================================================
