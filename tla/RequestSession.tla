--------------------------- MODULE RequestSession ---------------------------
(***************************************************************************)
(* The request path in either lab.  In V3B-2 the driver is told to call by *)
(* a command of its own and the controller captures the evidence           *)
(* (RequestPath as it stands); in V3B-1 it is told over the channel of an  *)
(* attached session (DriverChannel), and what the session holds in the end *)
(* is what run believes of the call.                                       *)
(***************************************************************************)
EXTENDS RequestPath, DriverChannel

VARIABLE lab   \* "v3b1" or "v3b2"

session == <<path, channel, lab>>

SessionInit == PathInit /\ ChannelInit /\ lab \in {"v3b1", "v3b2"}

----------------------------------------------------------------------------
\* Envoy, the authorization service and the target about any call, and the
\* calls of others.
Service ==
  /\ \/ \E c \in Calls :
          \/ (c # Driver /\ Send(c)) \/ (\E o \in Outcomes : Decide(c, o))
          \/ Record(c) \/ RecordFails(c)
          \/ Checked(c) \/ CheckFails(c)
          \/ Forward(c) \/ Forwarded(c) \/ ForwardFails(c)
     \/ TargetServes
  /\ UNCHANGED channel

\* The driver sends once it is instructed, on the connection it kept.
DriverSends ==
  /\ container.at = "calling" /\ driver.at = "idle"
  /\ Send(Driver)
  /\ UNCHANGED channel

\* The connection breaks before the request is at Envoy.
CallBreaks ==
  /\ container.at = "calling" /\ driver.at = "idle"
  /\ Break
  /\ driver' = Result("failed", 0)
  /\ UNCHANGED <<ledger, authz, decisions, gate, accesses, listener, captured>>
  /\ UNCHANGED <<host, client, stdin, stdout, pending, noisy, container, late>>

\* A driver whose container was stopped reads nothing any more.
DriverHears ==
  /\ container.at = "calling"
  /\ DriverReads \/ DriverGivesUp
  /\ UNCHANGED channel

DriverReturns ==
  /\ driver.at \in {"complete", "failed"}
  /\ Returns(IF driver.at = "complete" THEN "complete" ELSE "failure")
  /\ UNCHANGED path

Attached ==
  /\ Connect \/ WriteRecord \/ ReadInstruction \/ Docker \/ Expire \/ Session
  /\ UNCHANGED path

\* In V3B-1, MaxBreaks bounds all that fails, on the path and the channel.
AttachedNext ==
  /\ \/ Service \/ Attached
     \/ DriverSends \/ CallBreaks \/ DriverHears \/ DriverReturns
  /\ faults' + breaks' <= MaxBreaks

SessionNext ==
  /\ \/ lab = "v3b2" /\ PathNext /\ UNCHANGED channel
     \/ lab = "v3b1" /\ AttachedNext
  /\ UNCHANGED lab

\* Every process goes on, and the driver's connection has a timeout.  Neither
\* the deadline nor a fault has to come.
InV3B1(Step) == lab = "v3b1" /\ Step /\ UNCHANGED lab

SessionFairness ==
  /\ WF_session(InV3B1(Attached /\ ~Expire /\ Sound))
  /\ WF_session(InV3B1(DriverSends))
  /\ WF_session(InV3B1(DriverHears))
  /\ WF_session(InV3B1(DriverReturns))

SessionSpec == SessionInit /\ [][SessionNext]_session /\ SessionFairness

----------------------------------------------------------------------------
\* What is believed of the call is so.  A driver the controller did not begin
\* to tell never sends, now or later, whatever becomes of pipes, client and
\* container (request_bytes_may_have_been_sent in run, line 14876); a result
\* it attested is the driver's own, which read the answer whole; and what the
\* driver read is in the ledgers (ToldIsBacked).
BeliefIsBacked ==
  /\ ToldIsBacked
  /\ lab = "v3b1" =>
       /\ ~host.told => gate[Driver] = "none"
       /\ host.at = "attested" /\ host.held = "complete" =>
            driver.at = "complete" /\ container.code = 0

\* No exchange needs its deadline: each side ends what the other waits for.
EndsInTime == lab = "v3b1" => <>(host.at \in Finished \/ late)
=============================================================================
