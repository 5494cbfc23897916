---------------------------- MODULE RequestPath ----------------------------
(***************************************************************************)
(* One track of the request path: the one-shot driver                      *)
(* (src/kil/v3b1_request_driver.py), Envoy as src/kil/v3b_envoy.py         *)
(* configures it, the authorization service (src/kil/ext_authz_http.py),   *)
(* the target (TargetLedger), and the evidence read from all four          *)
(* afterwards (capture_source and adapt_producer_sources in                *)
(* src/kil/v3b2_evidence.py).                                              *)
(*                                                                         *)
(* Envoy gives up on a slow authorization service or target, and the       *)
(* driver on a slow Envoy; the threads they leave behind go on.  Every     *)
(* call carries the same request: the driver's is one of them, the others  *)
(* are whatever else reaches the gateway.  No container is restarted: the  *)
(* capture would notice the new container ID.                              *)
(*                                                                         *)
(* Abstracted: the decision itself (any outcome), the digests and headers  *)
(* of a record (they join when the records are of the same call), and the  *)
(* sizes.  Statuses other than 200 and 403 matter only by being neither.   *)
(***************************************************************************)
EXTENDS TargetLedger

CONSTANTS
  Driver,   \* the driver's call
  Request   \* the request ID of all calls

ASSUME RequestAssumption == Driver \in Calls /\ Request \in Ids

VARIABLES
  authz,      \* the authorization service's thread of each call
  decisions,  \* the chunks of its ledger
  gate,       \* Envoy's side of each call
  accesses,   \* Envoy's access log
  driver,     \* "idle", "waiting", "failed" or "complete", and its status
  listener,   \* "open", "refusing" or, proved quiescent, "quiet"
  captured    \* the sources read so far: driver, decisions, accesses, file

path == <<ledger, authz, decisions, gate, accesses, driver, listener, captured>>

----------------------------------------------------------------------------
Outcomes == {"permit", "deny", "error"}
Recording == [at : {"recording", "answered"}, outcome : Outcomes]
Entry(c, o, w) == [call |-> c, outcome |-> o, whole |-> w]
Access(c, s, u) == [call |-> c, status |-> s, upstream |-> u]
Result(at, s) == [at |-> at, status |-> s]
Busy == \E c \in Calls : gate[c] \in {"checking", "forwarding"}
Reached(c) == call[c] # Unborn

PathInit ==
  /\ Init
  /\ authz = [c \in Calls |-> [at |-> "none"]]
  /\ decisions = <<>>
  /\ gate = [c \in Calls |-> "none"]
  /\ accesses = <<>>
  /\ driver = Result("idle", 0)
  /\ listener = "open"
  /\ captured = <<>>

----------------------------------------------------------------------------
\* A call reaches Envoy, which asks the authorization service about it.  The
\* driver sends on the connection it opened before its readiness record.
Send(c) ==
  /\ gate[c] = "none" /\ listener = "open"
  /\ gate' = [gate EXCEPT ![c] = "checking"]
  /\ authz' = [authz EXCEPT ![c] = [at |-> "deciding"]]
  /\ driver' = IF c = Driver THEN Result("waiting", 0) ELSE driver
  /\ UNCHANGED <<ledger, decisions, accesses, listener, captured>>

\* Any response, or none within the two seconds of the connection's timeout.
\* Only a response with a decision digest completes the driver: the target's,
\* to which Envoy adds it, or a denial's.
DriverReads ==
  /\ driver.at = "waiting"
  /\ \E i \in 1..Len(accesses) :
       /\ accesses[i].call = Driver
       /\ driver' = IF accesses[i].upstream \/ accesses[i].status = 403
                    THEN Result("complete", accesses[i].status)
                    ELSE Result("failed", 0)
  /\ UNCHANGED <<ledger, authz, decisions, gate, accesses, listener, captured>>

DriverGivesUp ==
  /\ driver.at = "waiting"
  /\ driver' = Result("failed", 0)
  /\ UNCHANGED <<ledger, authz, decisions, gate, accesses, listener, captured>>

----------------------------------------------------------------------------
\* evaluate, or an exception before it came to a decision.
Decide(c, o) ==
  /\ authz[c].at = "deciding"
  /\ authz' = [authz EXCEPT ![c] = [at |-> "recording", outcome |-> o]]
  /\ UNCHANGED <<ledger, decisions, gate, accesses, driver, listener, captured>>

\* _commit: the record is in the ledger before the answer is given.
Record(c) ==
  /\ authz[c].at = "recording"
  /\ decisions' = Append(decisions, Entry(c, authz[c].outcome, TRUE))
  /\ authz' = [authz EXCEPT ![c].at = "answered"]
  /\ UNCHANGED <<ledger, gate, accesses, driver, listener, captured>>

\* _commit raises, with nothing, a part or all of the line written; an error
\* record is tried instead, and if that fails the error is answered without.
RecordFails(c) ==
  /\ authz[c].at = "recording" /\ Fault
  /\ \/ UNCHANGED decisions
     \/ \E w \in BOOLEAN :
          decisions' = Append(decisions, Entry(c, authz[c].outcome, w))
  /\ authz' = [authz EXCEPT ![c] =
       [at |-> IF authz[c].outcome = "error" THEN "answered" ELSE "recording",
        outcome |-> "error"]]
  /\ UNCHANGED <<file, known, invalid, up, call, gate, accesses, driver,
                 listener, captured>>

----------------------------------------------------------------------------
Logged(c, s, u) ==
  /\ accesses' = Append(accesses, Access(c, s, u))
  /\ gate' = [gate EXCEPT ![c] = "done"]

\* Envoy learns the decision: only a 200 lets the request through.
Checked(c) ==
  /\ gate[c] = "checking" /\ authz[c].at = "answered"
  /\ CASE authz[c].outcome = "permit" ->
            gate' = [gate EXCEPT ![c] = "forwarding"] /\ UNCHANGED accesses
       [] authz[c].outcome = "deny" -> Logged(c, 403, FALSE)
       [] OTHER -> Logged(c, 503, FALSE)
  /\ UNCHANGED <<ledger, authz, decisions, driver, listener, captured>>

\* Mutant: failure_mode_allow.
CheckFails_Open(c) ==
  /\ gate[c] = "checking"
  /\ gate' = [gate EXCEPT ![c] = "forwarding"]
  /\ UNCHANGED <<ledger, authz, decisions, accesses, driver, listener, captured>>

\* No answer within 0.250s, or the client left: failure_mode_allow is off.
CheckFails(c) ==
  /\ gate[c] = "checking"
  /\ Logged(c, 503, FALSE)
  /\ UNCHANGED <<ledger, authz, decisions, driver, listener, captured>>

Forward(c) ==
  /\ gate[c] = "forwarding"
  /\ Receive(c, Request)
  /\ UNCHANGED <<authz, decisions, gate, accesses, driver, listener, captured>>

TargetServes ==
  /\ Serve
  /\ UNCHANGED <<authz, decisions, gate, accesses, driver, listener, captured>>

Forwarded(c) ==
  /\ gate[c] = "forwarding" /\ call[c].at = "done"
  /\ Logged(c, call[c].status, TRUE)
  /\ UNCHANGED <<ledger, authz, decisions, driver, listener, captured>>

\* The connection failed, the target was too slow, or the client left.
ForwardFails(c) ==
  /\ gate[c] = "forwarding"
  /\ Logged(c, 503, TRUE)
  /\ UNCHANGED <<ledger, authz, decisions, driver, listener, captured>>

----------------------------------------------------------------------------
(***************************************************************************)
(* The controller: drain the listener, see that Envoy has nothing active,  *)
(* then read the four sources one after the other.                         *)
(***************************************************************************)
Drain ==
  /\ listener = "open" /\ driver.at \in {"failed", "complete"}
  /\ listener' = "refusing"
  /\ UNCHANGED <<ledger, authz, decisions, gate, accesses, driver, captured>>

\* Mutant: the gauges are not looked at.
Inspect_NoGauges ==
  /\ listener = "refusing"
  /\ listener' = "quiet"
  /\ UNCHANGED <<ledger, authz, decisions, gate, accesses, driver, captured>>

\* _quiesce and _quiescence: the listener refuses and every gauge is zero.
Inspect ==
  /\ listener = "refusing" /\ ~Busy
  /\ listener' = "quiet"
  /\ UNCHANGED <<ledger, authz, decisions, gate, accesses, driver, captured>>

Sources == <<driver, decisions, accesses, file>>

\* A source that is not made of whole distinct records stops the capture.
Parses(i) ==
  CASE i = 2 -> \A j \in 1..Len(decisions) : decisions[j].whole
    [] i = 4 -> ~Torn /\ ~Repeated
    [] OTHER -> TRUE

Capture ==
  /\ listener = "quiet" /\ Len(captured) < 4
  /\ Parses(Len(captured) + 1)
  /\ captured' = Append(captured, Sources[Len(captured) + 1])
  /\ UNCHANGED <<ledger, authz, decisions, gate, accesses, driver, listener>>

Single(s) == Len(s) = 1

\* adapt_producer_sources: one record of each kind, all of the same outcome.
Joins(outcome) ==
  /\ Len(captured) = 4
  /\ Single(captured[2]) /\ Single(captured[3])
  /\ captured[2][1].outcome = outcome
  /\ captured[1] = Result("complete", captured[3][1].status)
  /\ captured[1].status = (IF outcome = "permit" THEN 200 ELSE 403)
  /\ captured[3][1].upstream = (outcome = "permit")
  /\ Len(captured[4]) = (IF outcome = "permit" THEN 1 ELSE 0)

PathNext ==
  \/ \E c \in Calls :
       \/ Send(c) \/ (\E o \in Outcomes : Decide(c, o))
       \/ Record(c) \/ RecordFails(c)
       \/ Checked(c) \/ CheckFails(c)
       \/ Forward(c) \/ Forwarded(c) \/ ForwardFails(c)
  \/ TargetServes
  \/ DriverReads \/ DriverGivesUp
  \/ Drain \/ Inspect \/ Capture

PathSpec == PathInit /\ [][PathNext]_path

----------------------------------------------------------------------------
\* Nothing reaches the target but a call whose permit is already written in
\* the decision ledger, however slow, broken or abandoned the authorization
\* was (handle, lines 379-467; failure_mode_allow in v3b_envoy.py).
ReachedIsPermitted ==
  \A c \in Calls : Reached(c) =>
    \E i \in 1..Len(decisions) : decisions[i] = Entry(c, "permit", TRUE)

\* What the driver was told is backed by the ledgers: behind a 200 both the
\* permit and the marker are written, behind a 403 the denial, and the call
\* never reached the target (perform_one_request, lines 179-253).
ToldIsBacked ==
  /\ driver.status = 200 =>
       /\ \E i \in 1..Len(decisions) : decisions[i] = Entry(Driver, "permit", TRUE)
       /\ Request \in Recorded
  /\ driver.status = 403 =>
       /\ \E i \in 1..Len(decisions) : decisions[i] = Entry(Driver, "deny", TRUE)
       /\ ~Reached(Driver)

\* Evidence that joins is true, then and ever after: a joined permit means one
\* call reached the target, the driver's, and was acknowledged; a joined denial
\* means that nothing reached or will reach it, whatever threads Envoy or the
\* driver left running (adapt_producer_sources, lines 402-497).
JoinsTrue ==
  /\ Joins("permit") =>
       /\ {c \in Calls : Reached(c)} = {Driver}
       /\ call[Driver].status = 200
  /\ Joins("deny") => \A c \in Calls : ~Reached(c)
=============================================================================
