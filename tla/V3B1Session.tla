---------------------------- MODULE V3B1Session ----------------------------
(***************************************************************************)
(* The request sessions of the V3B-1 controller (tools/v3b1_local_envoy.py,*)
(* tools/v3b1_driver_transport.py) and the one-shot drivers it commands    *)
(* (src/kil/v3b1_request_driver.py).                                       *)
(*                                                                         *)
(* One controller process runs at a time: `readiness`, which starts every  *)
(* driver and cancels it unused, or `run`, which starts every driver and   *)
(* then has them send their one request, track after track.  Everything    *)
(* it does is surrounded by events of a journal that a later process       *)
(* trusts, each appended by a rewrite of the file that may fail, may be    *)
(* durable although it failed, and may be the last thing the process does. *)
(*                                                                         *)
(* `faults` counts what goes wrong outside the program: a failed append or *)
(* file write, a command that fails with or without its effect, a driver   *)
(* that breaks, a deadline that passes, a process that dies.               *)
(*                                                                         *)
(* Abstracted: nonces, digests and identities (a record in the journal is  *)
(* about the container it names); the readiness poison files, which repeat *)
(* what the journal says of a session; the second try of their writer.     *)
(***************************************************************************)
EXTENDS Integers, FiniteSets

CONSTANTS
  NumTracks,   \* the tracks are 1..NumTracks, in the order of _TRACKS
  MaxFaults    \* how much may go wrong

ASSUME NumTracksAssumption == NumTracks \in Nat \ {0}
ASSUME MaxFaultsAssumption == MaxFaults \in Nat

VARIABLES
  log,      \* what the journal's events and requests say
  host,     \* driver containers, what they have sent, the private files
  proc,     \* the controller process
  faults    \* how often the environment has failed so far

session == <<log, host, proc, faults>>

Tracks == 1..NumTracks

Sessions == {"none", "open", "ready", "diagnostic", "poisoned"}
DriverStates ==
  {"unstarted", "start_intent", "started", "ready", "cancel_intent", "cancelled",
   "stop_intent", "stop_complete", "stop_failed",
   "cleanup_intent", "cleaned", "cleanup_failed"}
Stops == {"unstarted", "pending", "complete", "failed"}
RequestStages ==
  {"not_attempted", "request_intent", "instruction_intent", "result_persisted",
   "request_persisted", "completed", "failed"}
\* What a request_send_failed says: nothing yet, the driver's own report of a
\* failed transport, or the controller's, that bytes may or cannot have been sent.
Provenances == {"none", "transport", "maybe_sent", "unsent"}
\* A container: created, waiting for an instruction, told one, ended by EOF,
\* with a complete or a broken result, or without any.
Containers == {"created", "waiting", "told", "cancelled", "answered", "broken", "dead"}
Running == {"waiting", "told"}
Pending == {"request_intent", "instruction_intent", "result_persisted",
            "request_persisted"}

----------------------------------------------------------------------------
(***************************************************************************)
(* The journal: which event _validate_lifecycle_history admits, and what   *)
(* the history says after it.                                              *)
(***************************************************************************)
DriverRules ==
  [start_intent       |-> [from |-> {"unstarted"},           to |-> "start_intent"],
   start_complete     |-> [from |-> {"start_intent"},        to |-> "started"],
   readiness_complete |-> [from |-> {"started"},             to |-> "ready"],
   cancel_intent      |-> [from |-> {"started", "ready"},    to |-> "cancel_intent"],
   cancel_complete    |-> [from |-> {"cancel_intent"},       to |-> "cancelled"],
   stop_intent        |-> [from |-> {"start_intent", "started", "ready",
                                     "cancel_intent", "cancelled", "stop_failed",
                                     "cleaned", "cleanup_failed"},
                           to   |-> "stop_intent"],
   stop_complete      |-> [from |-> {"stop_intent"},         to |-> "stop_complete"],
   stop_failed        |-> [from |-> {"stop_intent"},         to |-> "stop_failed"],
   cleanup_intent     |-> [from |-> {"start_intent", "started", "ready",
                                     "cancel_intent", "cancelled", "stop_intent",
                                     "stop_complete", "stop_failed"},
                           to   |-> "cleanup_intent"],
   cleaned            |-> [from |-> {"cleanup_intent"},      to |-> "cleaned"],
   cleanup_failed     |-> [from |-> {"cleanup_intent"},      to |-> "cleanup_failed"]]

\* Once poisoned, a session takes no event of its way forward any more.
Forward == {"start_intent", "start_complete", "readiness_complete",
            "cancel_intent", "cancel_complete"}

DriverMay(t, e) ==
  /\ log.session # "none"
  /\ e \in Forward => log.session # "poisoned"
  /\ log.driver[t] \in DriverRules[e].from

\* _driver_stop_transition replays the stops alone, whatever is between them.
StopAfter(e, old) ==
  CASE e = "stop_intent"   -> "pending"
    [] e = "stop_complete" -> "complete"
    [] e = "stop_failed"   -> "failed"
    [] OTHER               -> old

DriverEvent(t, e) ==
  [log EXCEPT !.driver[t] = DriverRules[e].to,
              !.stops[t] = StopAfter(e, @),
              !.cancelled = IF e = "cancel_complete" THEN @ \cup {t} ELSE @]

\* readiness_session_started: the programs open one session in a lifecycle.
SessionMayStart == log.session = "none"

AllDrivers(state) == \A t \in Tracks : log.driver[t] = state

RequestMay(t, stage) ==
  CASE stage = "request_intent" ->
         log.session = "ready" /\ log.request[t] = "not_attempted"
    [] stage = "instruction_intent" ->
         /\ log.session = "ready" /\ log.driver[t] = "ready"
         /\ log.request[t] = "request_intent"
    [] stage = "result_persisted" ->
         log.driver[t] = "ready" /\ log.request[t] = "instruction_intent"
    [] stage = "request_persisted" -> log.request[t] = "result_persisted"
    [] stage = "completed" ->
         log.request[t] \in {"request_intent", "request_persisted"}
    [] stage = "failed" -> log.request[t] \in Pending
    [] OTHER -> FALSE

RequestEvent(t, stage) == [log EXCEPT !.request[t] = stage]
FailedEvent(t, why) == [log EXCEPT !.request[t] = "failed", !.failure[t] = why]

TrustedTerminal(t) ==
  log.request[t] = "completed" \/ log.failure[t] = "transport" \/ t \in log.cancelled

\* Mutant: the intent to stop a driver counts as its end.
Authority_IntentIsEnough(t) ==
  IF log.driver[t] = "unstarted" THEN "pre_start"
  ELSE IF TrustedTerminal(t) THEN "trusted_terminal"
  ELSE IF log.stops[t] \in {"pending", "complete"} THEN "teardown_quiesced"
  ELSE "ambiguous"

\* _driver_recovery_authority: what a later process may expect of a container.
Authority(t) ==
  IF log.driver[t] = "unstarted" THEN "pre_start"
  ELSE IF TrustedTerminal(t) THEN "trusted_terminal"
  ELSE IF log.stops[t] = "complete" THEN "teardown_quiesced"
  ELSE "ambiguous"

\* Its request_eligible: a cancelled or stopped driver counts for nothing.
Eligible(t) ==
  \/ log.driver[t] = "unstarted"
  \/ log.request[t] = "completed"
  \/ log.failure[t] = "transport"

----------------------------------------------------------------------------
(***************************************************************************)
(* The process.                                                            *)
(***************************************************************************)
Off == [cmd |-> "none", at |-> "off", t |-> 1, held |-> {}, closed |-> {},
        asked |-> {}, tried |-> {}, bad |-> FALSE, told |-> FALSE]

At(place) == proc.at = place
Here == proc.t
Fault == faults < MaxFaults /\ faults' = faults + 1
NoFault == faults' = faults

\* journal_event: an event that is refused or whose file cannot be written
\* raises; the file may be new all the same, and the process may die at it.
Append(new, may, next, raised) ==
  \/ may /\ log' = new /\ proc' = next /\ NoFault
  \/ ~may /\ log' = log /\ proc' = raised /\ NoFault
  \/ may /\ log' \in {log, new} /\ proc' = raised /\ Fault
  \/ may /\ log' = log /\ proc' = Off /\ Fault

AppendDriver(e, next, raised) ==
  Append(DriverEvent(Here, e), DriverMay(Here, e), next, raised)
AppendRequest(stage, next, raised) ==
  Append(RequestEvent(Here, stage), RequestMay(Here, stage), next, raised)

Least(S) == CHOOSE t \in S : \A u \in S : t <= u
\* A loop over S in track order, from track `from`, and what follows it.
Loop(p, S, from, place, after) ==
  LET left == {u \in S : u >= from}
  IN IF left = {} THEN after ELSE [p EXCEPT !.at = place, !.t = Least(left)]
Onward(p, S, place, after) == Loop(p, S, Here + 1, place, after)

To(p, place) == [p EXCEPT !.at = place]

----------------------------------------------------------------------------
(***************************************************************************)
(* The drivers: execute_driver in its container.                           *)
(***************************************************************************)
SetDriver(t, state) == [host EXCEPT !.driver[t] = state]

\* An instruction is carried out once; what is reported of it may be a
\* failure, or nothing, whether or not the request left.
DriverSends(t) ==
  /\ host.driver[t] = "told"
  /\ \/ host' = [host EXCEPT !.driver[t] = "answered", !.sent[t] = @ + 1] /\ NoFault
     \/ /\ host' \in {[host EXCEPT !.driver[t] = d, !.sent[t] = @ + n] :
                        d \in {"broken", "dead"}, n \in {0, 1}}
        /\ Fault
  /\ UNCHANGED <<log, proc>>

\* Standard input closed before an instruction: exit 0.
DriverReadsEof(t) ==
  /\ host.driver[t] = "waiting"
  /\ t \notin proc.held \ proc.closed
  /\ host' = SetDriver(t, "cancelled")
  /\ UNCHANGED <<log, proc, faults>>

DriverBreaks(t) ==
  /\ host.driver[t] = "waiting"
  /\ host' = SetDriver(t, "dead")
  /\ Fault
  /\ UNCHANGED <<log, proc>>

----------------------------------------------------------------------------
(***************************************************************************)
(* readiness and _start_ready_driver_set: start every driver, then read    *)
(* every readiness record, then say that the set is ready.                 *)
(***************************************************************************)
\* The guards of readiness and run on the journal and on requests.jsonl.
NeverStarted ==
  /\ \A t \in Tracks : log.driver[t] = "unstarted" /\ log.request[t] = "not_attempted"
  /\ host.records = {}

Begin(cmd) ==
  /\ proc = Off
  /\ NeverStarted
  /\ Append([log EXCEPT !.session = "open"], SessionMayStart,
            [Off EXCEPT !.cmd = cmd, !.at = "start_intent"], Off)
  /\ UNCHANGED host

ReadinessFails(p) == Loop(p, p.held \ p.asked, 1, "fail_cancel",
                       Loop(p, p.held \ p.tried, 1, "fail_exit",
                         Loop(p, p.held, 1, "fail_stop", To(p, "fail_record"))))

StartIntent ==
  /\ At("start_intent")
  /\ AppendDriver("start_intent", To(proc, "spawn"), ReadinessFails(proc))
  /\ UNCHANGED host

\* start_attached_driver: docker start runs whatever is not running.
Spawn ==
  LET started == IF host.driver[Here] \in Running THEN host ELSE SetDriver(Here, "waiting")
  IN /\ At("spawn")
     /\ \/ /\ host' = started
           /\ proc' = [proc EXCEPT !.at = "start_complete", !.held = @ \cup {Here}]
           /\ NoFault
        \/ host' \in {host, started} /\ proc' = ReadinessFails(proc) /\ Fault
     /\ UNCHANGED log

StartComplete ==
  /\ At("start_complete")
  /\ AppendDriver("start_complete",
       Onward(proc, Tracks, "start_intent", Loop(proc, Tracks, 1, "read_ready", proc)),
       ReadinessFails(proc))
  /\ UNCHANGED host

\* read_readiness_record: a bad record is remembered, the others still read.
ReadReady ==
  LET next(p) == Onward(p, Tracks, "read_ready",
                        IF p.bad THEN ReadinessFails(p) ELSE To(p, "set_complete"))
  IN /\ At("read_ready")
     /\ \/ /\ host.driver[Here] = "waiting"
           /\ AppendDriver("readiness_complete", next(proc), ReadinessFails(proc))
        \/ /\ proc' = next([proc EXCEPT !.bad = TRUE])
           /\ IF host.driver[Here] = "waiting" THEN Fault ELSE NoFault
           /\ UNCHANGED log
     /\ UNCHANGED host

SetComplete ==
  /\ At("set_complete")
  /\ Append([log EXCEPT !.session = "ready"], log.session # "none" /\ AllDrivers("ready"),
            Loop(proc, Tracks, 1,
                 IF proc.cmd = "readiness" THEN "cancel" ELSE "claim", proc),
            ReadinessFails(proc))
  /\ UNCHANGED host

----------------------------------------------------------------------------
(***************************************************************************)
(* readiness: cancel every driver by end of file, unused.                  *)
(***************************************************************************)
Asked(p) == [p EXCEPT !.asked = @ \cup {Here}]
Closed(p) == [p EXCEPT !.closed = @ \cup {Here}]
Tried(p) == [p EXCEPT !.tried = @ \cup {Here}]
Bad(p) == [p EXCEPT !.bad = TRUE]

Cancel ==
  LET next(p) == Onward(p, Tracks, "cancel", Loop(p, Tracks, 1, "cancel_exit", p))
  IN /\ At("cancel")
     /\ \/ AppendDriver("cancel_intent", next(Closed(Asked(proc))), ReadinessFails(proc))
        \/ /\ DriverMay(Here, "cancel_intent")       \* the stream does not close
           /\ log' = DriverEvent(Here, "cancel_intent")
           /\ proc' = next(Bad(Asked(proc)))
           /\ Fault
     /\ UNCHANGED host

\* attest_cancelled_exit waits for an exit that a closed stream brings about.
CancelAttested == host.driver[Here] = "cancelled"
NoCancelComes == host.driver[Here] # "cancelled"
                 /\ ~(host.driver[Here] = "waiting" /\ Here \in proc.closed)
AttestFails == IF NoCancelComes THEN NoFault ELSE Fault

CancelExit ==
  LET next(p) == Onward(p, Tracks, "cancel_exit",
                        IF p.bad THEN ReadinessFails(p) ELSE To(p, "diagnostic"))
  IN /\ At("cancel_exit")
     /\ \/ /\ CancelAttested
           /\ AppendDriver("cancel_complete", next(Tried(proc)),
                           ReadinessFails(Tried(proc)))
        \/ proc' = next(Bad(Tried(proc))) /\ AttestFails /\ UNCHANGED log
     /\ UNCHANGED host

DiagnosticComplete ==
  /\ At("diagnostic")
  /\ Append([log EXCEPT !.session = "diagnostic"],
            log.session = "ready" /\ AllDrivers("cancelled"), Off, ReadinessFails(proc))
  /\ UNCHANGED host

----------------------------------------------------------------------------
(***************************************************************************)
(* _fail_driver_readiness_sessions: cancel what is not cancelled, then for *)
(* each driver stop its container if it runs and end its process, saying   *)
(* so before and after; then poison the session.                           *)
(***************************************************************************)
FailCancel ==
  LET next(p) == Onward(p, p.held \ p.asked, "fail_cancel",
                   Loop(p, p.held \ p.tried, 1, "fail_exit",
                     Loop(p, p.held, 1, "fail_stop", To(p, "fail_record"))))
  IN /\ At("fail_cancel")
     /\ \/ AppendDriver("cancel_intent", next(Closed(Asked(proc))), next(Closed(proc)))
        \/ /\ DriverMay(Here, "cancel_intent")
           /\ log' = DriverEvent(Here, "cancel_intent")
           /\ proc' = next(Asked(proc))
           /\ Fault
     /\ UNCHANGED host

FailExit ==
  LET next == Onward(Tried(proc), proc.held \ proc.tried, "fail_exit",
                Loop(Tried(proc), proc.held, 1, "fail_stop", To(proc, "fail_record")))
  IN /\ At("fail_exit")
     /\ \/ /\ CancelAttested /\ Here \in proc.asked
           /\ AppendDriver("cancel_complete", next, next)
        \/ /\ proc' = next /\ UNCHANGED log
           /\ IF CancelAttested /\ Here \notin proc.asked THEN NoFault ELSE AttestFails
     /\ UNCHANGED host

\* _inspect_driver_cleanup_running, then the intent to stop what runs.
FailStop ==
  LET cleanup(bad) == [proc EXCEPT !.at = "fail_cleanup", !.bad = bad]
  IN /\ At("fail_stop")
     /\ \/ /\ host.driver[Here] \in Running
           /\ AppendDriver("stop_intent", To(proc, "fail_stopped"), cleanup(TRUE))
        \/ /\ host.driver[Here] \notin Running
           /\ proc' = cleanup(FALSE) /\ NoFault /\ UNCHANGED log
        \/ proc' = cleanup(TRUE) /\ Fault /\ UNCHANGED log
     /\ UNCHANGED host

FailStopped ==
  LET cleanup(bad) == [proc EXCEPT !.at = "fail_cleanup", !.bad = bad]
      stopped == IF host.driver[Here] \in Running THEN SetDriver(Here, "dead") ELSE host
  IN /\ At("fail_stopped")
     /\ \/ /\ host' = stopped
           /\ AppendDriver("stop_complete", cleanup(FALSE), cleanup(TRUE))
        \/ /\ host' \in {host, stopped}
           /\ log' = DriverEvent(Here, "stop_failed")
           /\ proc' = cleanup(TRUE)
           /\ Fault

FailNext(p) == Onward(p, p.held, "fail_stop", To(p, "fail_record"))

\* Without its intent the process is still ended, but nothing is said of it.
FailCleanup ==
  /\ At("fail_cleanup")
  /\ AppendDriver("cleanup_intent", To(Closed(proc), "fail_cleaned"), FailNext(Closed(proc)))
  /\ UNCHANGED host

FailCleaned ==
  /\ At("fail_cleaned")
  /\ \/ AppendDriver(IF proc.bad THEN "cleanup_failed" ELSE "cleaned",
                     FailNext(proc), FailNext(proc))
     \/ log' = DriverEvent(Here, "cleanup_failed") /\ proc' = FailNext(proc) /\ Fault
  /\ UNCHANGED host

FailRecord ==
  /\ At("fail_record")
  /\ Append([log EXCEPT !.session = "poisoned"], log.session # "none", Off, Off)
  /\ UNCHANGED host

----------------------------------------------------------------------------
(***************************************************************************)
(* run: for each track claim the request, say that the instruction is      *)
(* about to be written, write it, read the result, keep it, record it and  *)
(* close the request, and only then go on to the next track.               *)
(***************************************************************************)
RunFails(p) == To(p, "run_close")

\* Mutant: the claim counts as the intent to write the instruction.
Claim_Instructs ==
  /\ At("claim")
  /\ AppendRequest("request_intent", To(proc, "deliver"), RunFails(proc))
  /\ UNCHANGED host

Claim ==
  /\ At("claim")
  /\ AppendRequest("request_intent", To(proc, "instruct"), RunFails(proc))
  /\ UNCHANGED host

Instruct ==
  /\ At("instruct")
  /\ AppendRequest("instruction_intent", [proc EXCEPT !.at = "deliver", !.told = TRUE],
                   RunFails(proc))
  /\ UNCHANGED host

\* write_instruction: a write that raises may have reached the driver, in part.
Deliver ==
  LET delivered == IF host.driver[Here] = "waiting" THEN SetDriver(Here, "told") ELSE host
  IN /\ At("deliver")
     /\ \/ host' = delivered /\ proc' = To(Closed(proc), "read_result") /\ NoFault
        \/ host' \in {host, delivered} /\ proc' = RunFails(Closed(proc)) /\ Fault
     /\ UNCHANGED log

\* Mutant: a missing result does not end the run.
ReadResult_GoesOn ==
  /\ At("read_result")
  /\ \/ host.driver[Here] \in {"answered", "broken"}
        /\ proc' = To(proc, "save_result") /\ NoFault
     \/ /\ proc' = Onward([proc EXCEPT !.told = FALSE], Tracks, "claim", To(proc, "collect"))
        /\ Fault
  /\ UNCHANGED <<log, host>>

\* read_driver_result, attest_driver_result_exit and the end of its process.
ReadResult ==
  LET result == host.driver[Here] \in {"answered", "broken"}
      noneComes == host.driver[Here] \in {"created", "cancelled", "dead"}
  IN /\ At("read_result")
     /\ \/ result /\ proc' = To(proc, "save_result") /\ NoFault
        \/ proc' = RunFails(proc) /\ IF noneComes THEN NoFault ELSE Fault
     /\ UNCHANGED <<log, host>>

SaveResult ==
  LET saved == [host EXCEPT !.result[Here] = "driver"]
  IN /\ At("save_result")
     /\ \/ host' = saved /\ proc' = To(proc, "result") /\ NoFault
        \/ host' \in {host, saved} /\ proc' = RunFails(proc) /\ Fault
     /\ UNCHANGED log

\* A driver that reports a failed transport ends the run with its own words.
Result ==
  /\ At("result")
  /\ AppendRequest("result_persisted",
       IF host.driver[Here] = "broken" THEN RunFails(Bad(proc)) ELSE To(proc, "save_record"),
       RunFails(proc))
  /\ UNCHANGED host

\* The response has to have the expected status before its record is kept.
SaveRecord ==
  LET saved == [host EXCEPT !.records = @ \cup {Here}]
  IN /\ At("save_record")
     /\ \/ host' = saved /\ proc' = To(proc, "record") /\ NoFault
        \/ host' \in {host, saved} /\ proc' = RunFails(proc) /\ Fault
     /\ UNCHANGED log

Record ==
  /\ At("record")
  /\ AppendRequest("request_persisted", To(proc, "complete"), RunFails(proc))
  /\ UNCHANGED host

Complete ==
  /\ At("complete")
  /\ AppendRequest("completed",
       Onward([proc EXCEPT !.told = FALSE], Tracks, "claim", To(proc, "collect")),
       RunFails(proc))
  /\ UNCHANGED host

Return ==
  /\ At("collect")
  /\ proc' = Off
  /\ UNCHANGED <<log, host, faults>>

----------------------------------------------------------------------------
(***************************************************************************)
(* run, when anything has failed: close the request that was claimed, then *)
(* cancel every driver that has not been told to send.                     *)
(***************************************************************************)
\* _record_driver_control_failure writes a result of its own, then the event;
\* that the file could not be written is ignored, and it may be an older one then.
ControlFailure(t, told, next, raised) ==
  LET why == IF told THEN "maybe_sent" ELSE "unsent"
  IN \/ /\ host' = [host EXCEPT !.result[t] = "control"]
        /\ Append(FailedEvent(t, why), RequestMay(t, "failed"), next, raised)
     \/ /\ host' = [host EXCEPT !.result[t] = IF @ = "none" THEN "none" ELSE "stale"]
        /\ RequestMay(t, "failed") /\ log' = FailedEvent(t, why)
        /\ proc' = next
        /\ Fault

\* The drivers from here on, without the one that was told, are cancelled.
CancelRest ==
  LET first == IF proc.told THEN Here + 1 ELSE Here
      rest == [proc EXCEPT !.held = {u \in @ : u >= first}, !.told = FALSE]
  IN Loop(rest, rest.held, 1, "run_cancel", Off)

RunClose ==
  /\ At("run_close")
  /\ \/ /\ log.request[Here] \notin Pending
        /\ proc' = CancelRest /\ NoFault /\ UNCHANGED <<log, host>>
     \/ /\ log.request[Here] \in Pending /\ proc.bad
        /\ Append(FailedEvent(Here, "transport"), TRUE, CancelRest, CancelRest)
        /\ UNCHANGED host
     \/ /\ log.request[Here] \in Pending /\ ~proc.bad
        /\ ControlFailure(Here, proc.told, CancelRest, CancelRest)

RunCancel ==
  LET next(p) == Onward(p, p.held, "run_cancel", Loop(p, p.held, 1, "run_exit", Off))
  IN /\ At("run_cancel")
     /\ \/ AppendDriver("cancel_intent", next(Closed(Asked(proc))), next(Closed(proc)))
        \/ /\ DriverMay(Here, "cancel_intent")
           /\ log' = DriverEvent(Here, "cancel_intent")
           /\ proc' = next(proc)
           /\ Fault
     /\ UNCHANGED host

RunNext(p) == Onward([p EXCEPT !.bad = FALSE], p.held, "run_exit", Off)
Recover(bad) == [proc EXCEPT !.at = "run_recover", !.bad = bad]

\* A clean cancellation is attested, recorded, and its process ended.
RunExit ==
  /\ At("run_exit")
  /\ \/ /\ Here \notin proc.asked
        /\ proc' = Recover(FALSE) /\ NoFault /\ UNCHANGED log
     \/ /\ Here \in proc.asked /\ CancelAttested
        /\ AppendDriver("cancel_complete", RunNext(proc), Recover(FALSE))
     \/ /\ Here \in proc.asked /\ CancelAttested     \* its process does not end
        /\ log' = DriverEvent(Here, "cancel_complete")
        /\ proc' = Recover(TRUE)
        /\ Fault
     \/ /\ Here \in proc.asked
        /\ proc' = Recover(FALSE) /\ AttestFails /\ UNCHANGED log
  /\ UNCHANGED host

\* _recover_uncommanded_driver: end the process, with the intent tried twice.
RunRecover ==
  /\ At("run_recover")
  /\ AppendDriver("cleanup_intent", To(Closed(proc), "run_cleaned"),
                  To(Closed(proc), "run_again"))
  /\ UNCHANGED host

RunAgain ==
  /\ At("run_again")
  /\ AppendDriver("cleanup_intent", To(proc, "run_cleaned"), RunNext(proc))
  /\ UNCHANGED host

RunCleaned ==
  /\ At("run_cleaned")
  /\ \/ AppendDriver(IF proc.bad THEN "cleanup_failed" ELSE "cleaned",
                     RunNext(proc), To(proc, "run_fallback"))
     \/ log' = DriverEvent(Here, "cleanup_failed") /\ proc' = RunNext(proc) /\ Fault
  /\ UNCHANGED host

RunFallback ==
  /\ At("run_fallback")
  /\ AppendDriver("cleanup_failed", RunNext(proc), RunNext(proc))
  /\ UNCHANGED host

----------------------------------------------------------------------------
Crash ==
  /\ proc # Off
  /\ proc' = Off
  /\ Fault
  /\ UNCHANGED <<log, host>>

Readiness == StartIntent \/ Spawn \/ StartComplete \/ ReadReady \/ SetComplete
             \/ Cancel \/ CancelExit \/ DiagnosticComplete
ReadinessFailing == FailCancel \/ FailExit \/ FailStop \/ FailStopped
                    \/ FailCleanup \/ FailCleaned \/ FailRecord
Requests == Claim \/ Instruct \/ Deliver \/ ReadResult \/ SaveResult \/ Result
            \/ SaveRecord \/ Record \/ Complete
RunFailing == RunClose \/ RunCancel \/ RunExit \/ RunRecover \/ RunAgain
              \/ RunCleaned \/ RunFallback

Program == Readiness \/ ReadinessFailing \/ Requests \/ RunFailing
Drivers == \E t \in Tracks : DriverSends(t) \/ DriverReadsEof(t) \/ DriverBreaks(t)

Init ==
  /\ log = [session |-> "none", driver |-> [t \in Tracks |-> "unstarted"],
            stops |-> [t \in Tracks |-> "unstarted"], cancelled |-> {},
            request |-> [t \in Tracks |-> "not_attempted"],
            failure |-> [t \in Tracks |-> "none"]]
  /\ host = [driver |-> [t \in Tracks |-> "created"], sent |-> [t \in Tracks |-> 0],
             result |-> [t \in Tracks |-> "none"], records |-> {}]
  /\ proc = Off
  /\ faults = 0

Next == (\E cmd \in {"readiness", "run"} : Begin(cmd)) \/ Program \/ Return \/ Crash \/ Drivers

Spec == Init /\ [][Next]_session
----------------------------------------------------------------------------
(***************************************************************************)
(* What the sessions promise.                                              *)
(***************************************************************************)
\* A request leaves at most once, and never without the durable intent to write
\* its instruction; a journal that says nothing can have been sent is right
\* (claim_request_attempt, driver_instruction_write_intent and the provenance
\* of request_send_failed, across failed appends, crashes and restarts).
SentIsRecorded ==
  \A t \in Tracks : host.sent[t] > 0 =>
    /\ host.sent[t] = 1
    /\ log.request[t] \notin {"not_attempted", "request_intent"}
    /\ log.failure[t] # "unsent"

\* What the journal lets a later process expect of a container is what that
\* process will find (the allowed_states of _driver_recovery_authority).
AuthorityIsTrue ==
  \A t \in Tracks :
    /\ Authority(t) = "pre_start" => host.driver[t] = "created"
    /\ Authority(t) = "trusted_terminal" => host.driver[t] \notin Running \cup {"created"}
    /\ Authority(t) = "teardown_quiesced" => host.driver[t] \notin Running

\* A container that has run is not started a second time, and a driver is told
\* to send only when every earlier request is completed: the first failure
\* ends the run for the tracks after it (readiness and run, whichever of the
\* two is called again after a crash).
StartedAndToldOnce ==
  [][\A t \in Tracks :
       /\ host'.driver[t] = "waiting" => host.driver[t] \in {"created", "waiting"}
       /\ host'.driver[t] = "told" /\ host.driver[t] # "told" =>
            \A u \in 1..(t - 1) : log.request[u] = "completed"]_session
=============================================================================
