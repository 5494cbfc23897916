--------------------------- MODULE DriverChannel ---------------------------
(***************************************************************************)
(* One attached request driver of V3B-1: the controller's session          *)
(* (tools/v3b1_driver_transport.py, as readiness and run of                *)
(* tools/v3b1_local_envoy.py use it), the attached docker client, its      *)
(* pipes, and execute_driver in the container                              *)
(* (src/kil/v3b1_request_driver.py).                                       *)
(*                                                                         *)
(* A record is written in pieces, the last of which ends its line; the     *)
(* controller reads what there is and cuts at the first line end.  The     *)
(* driver reads its instruction up to the end of the stream, and parses    *)
(* nothing but a whole one.  The controller's deadline may pass at any     *)
(* time (`late`); ending the client does not end the container, and what   *)
(* becomes of the container's input then is docker's affair (StdinOnce is  *)
(* not set by the project): it may end, without its last bytes, or never.  *)
(*                                                                         *)
(* `breaks` counts what fails; MaxBreaks bounds it.  Abstracted: the       *)
(* content of instruction and records, byte limits, the thread that reads  *)
(* a stream without a descriptor.                                          *)
(***************************************************************************)
EXTENDS Naturals, Sequences

CONSTANT MaxBreaks

ASSUME BreaksAssumption == MaxBreaks \in Nat

VARIABLES
  host,       \* the session: [at, held, told, open]
  client,     \* the docker client: <<its exit code>>, or <<>> while it runs
  stdin,      \* what the container may read: [bytes, eof]
  stdout,     \* pieces on their way to the session
  pending,    \* pending_stdout
  noisy,      \* something was written to stderr
  container,  \* the driver: [at, says, wrote, code]
  late,       \* the deadline has passed
  breaks

channel == <<host, client, stdin, stdout, pending, noisy, container, late, breaks>>

----------------------------------------------------------------------------
Broken == 137   \* any exit code but 0 and 1
Running == client = <<>>
Break == breaks < MaxBreaks /\ breaks' = breaks + 1
Sound == breaks' = breaks
Piece(kind, last) == [kind |-> kind, last |-> last]

HostStep == UNCHANGED <<container, late>>
ContainerStep == UNCHANGED <<host, client, pending, noisy, late>>

Exited(code) == [container EXCEPT !.at = "exited", !.code = code]

\* Bytes that were on their way may be lost with the client.
Arrive == IF container.at \in {"connecting", "announcing", "waiting"}
            THEN [none |-> {"none"}, part |-> {"none", "part"},
                  whole |-> {"none", "part", "whole"}][stdin.bytes]
            ELSE {stdin.bytes}

ChannelInit ==
  /\ host = [at |-> "readiness", held |-> "none", told |-> FALSE, open |-> TRUE]
  /\ client = <<>>
  /\ stdin = [bytes |-> "none", eof |-> FALSE]
  /\ stdout = <<>> /\ pending = <<>>
  /\ noisy = FALSE
  /\ container = [at |-> "connecting", says |-> "ready", wrote |-> 0, code |-> 0]
  /\ late = FALSE
  /\ breaks = 0

----------------------------------------------------------------------------
(***************************************************************************)
(* The driver in its container (execute_driver).                           *)
(***************************************************************************)
Connect ==
  /\ container.at = "connecting"
  /\ \/ container' = [container EXCEPT !.at = "announcing"] /\ Sound
     \/ container' = Exited(1) /\ Break
  /\ UNCHANGED <<stdin, stdout>> /\ ContainerStep

\* write_canonical_record: legal short writes, one piece or both.
WriteRecord ==
  /\ container.at \in {"announcing", "telling"}
  /\ \/ \E n \in 1..(2 - container.wrote) :
          LET wrote == container.wrote + n
              written == [container EXCEPT !.wrote = wrote]
          IN /\ stdout' = stdout \o [i \in 1..n |->
                             Piece(container.says, container.wrote + i = 2)]
             /\ container' =
                  IF wrote < 2 THEN written
                  ELSE IF container.says = "ready"
                    THEN [written EXCEPT !.at = "waiting"]
                    ELSE [written EXCEPT !.at = "exited",
                            !.code = IF container.says = "complete" THEN 0 ELSE 1]
             /\ Sound
     \/ container' = Exited(1) /\ Break /\ UNCHANGED stdout
  /\ UNCHANGED stdin /\ ContainerStep

\* read_bounded_single_line and parse_instruction.
ReadInstruction ==
  /\ container.at = "waiting" /\ stdin.eof
  /\ container' = IF stdin.bytes = "whole" THEN [container EXCEPT !.at = "calling"]
                  ELSE IF stdin.bytes = "none" THEN Exited(0) ELSE Exited(1)
  /\ Sound /\ UNCHANGED <<stdin, stdout>> /\ ContainerStep

\* perform_one_request returned its record.
Returns(kind) ==
  /\ container.at = "calling"
  /\ container' = [container EXCEPT !.at = "telling", !.says = kind, !.wrote = 0]
  /\ Sound /\ UNCHANGED <<stdin, stdout>> /\ ContainerStep

----------------------------------------------------------------------------
(***************************************************************************)
(* The docker client and the clock.                                        *)
(***************************************************************************)
ClientEnds ==
  /\ Running /\ container.at = "exited"
  /\ client' = <<container.code>>
  /\ Sound
  /\ UNCHANGED <<host, stdin, stdout, pending, noisy, container, late>>

\* The client loses the daemon, or says something on stderr.
ClientBreaks ==
  /\ Running /\ Break
  /\ \/ client' = <<1>> /\ \E b \in Arrive : stdin' = [stdin EXCEPT !.bytes = b]
     \/ UNCHANGED <<client, stdin>>
  /\ noisy' = TRUE
  /\ UNCHANGED <<host, stdout, pending, container, late>>

\* The container's input ends with the client that fed it.
Detach ==
  /\ ~Running /\ ~stdin.eof
  /\ stdin' = [stdin EXCEPT !.eof = TRUE]
  /\ Sound
  /\ UNCHANGED <<host, client, stdout, pending, noisy, container, late>>

Finished == {"cancelled", "attested", "reaped", "unreaped"}

Expire ==
  /\ ~late /\ host.at \notin Finished
  /\ late' = TRUE
  /\ Sound
  /\ UNCHANGED <<host, client, stdin, stdout, pending, noisy, container>>

----------------------------------------------------------------------------
(***************************************************************************)
(* The session.                                                            *)
(***************************************************************************)
To(at) == host' = [host EXCEPT !.at = at]
Silent == UNCHANGED <<client, stdin, stdout, noisy>>

\* A driver that was not told is cancelled; one that was is cleaned up.
Fails == To(IF host.told THEN "cleanup" ELSE "failing")

Ends(pieces) == {i \in 1..Len(pieces) : pieces[i].last}
LineEnd == CHOOSE i \in Ends(pending) : \A j \in Ends(pending) : i <= j

\* _readline_with_selector, one chunk at a time.
ReadMore ==
  /\ host.at \in {"readiness", "result"}
  /\ Ends(pending) = {}
  /\ \/ /\ ~late /\ stdout # <<>>
        /\ \E n \in 1..Len(stdout) :
             /\ pending' = pending \o SubSeq(stdout, 1, n)
             /\ stdout' = SubSeq(stdout, n + 1, Len(stdout))
        /\ UNCHANGED host
     \/ /\ late \/ (stdout = <<>> /\ ~Running)
        /\ Fails /\ UNCHANGED <<pending, stdout>>
  /\ Sound /\ UNCHANGED <<client, stdin, noisy>> /\ HostStep

\* parse_result and the schema the session waits for.
Expected(kind) ==
  IF host.at = "readiness" THEN kind = "ready" ELSE kind \in {"complete", "failure"}

\* read_readiness_record and read_driver_result.
ReadLine ==
  /\ host.at \in {"readiness", "result"}
  /\ Ends(pending) # {}
  /\ LET kind == pending[LineEnd].kind IN
       /\ pending' = SubSeq(pending, LineEnd + 1, Len(pending))
       /\ IF late \/ ~Expected(kind) THEN Fails
          ELSE IF host.at = "readiness" THEN To("ready")
          ELSE host' = [host EXCEPT !.at = "exiting", !.held = kind]
  /\ Sound /\ Silent /\ HostStep

\* Another track failed, or readiness was all that was asked; or a step
\* before has failed: cancel (close_instruction_stream).
Cancel ==
  /\ host.at \in {"ready", "failing"}
  /\ \/ host' = [host EXCEPT !.at = "cancelling", !.open = FALSE]
        /\ stdin' = [stdin EXCEPT !.eof = TRUE] /\ Sound
     \/ To("cleanup") /\ Break /\ UNCHANGED stdin
  /\ UNCHANGED <<client, stdout, pending, noisy>> /\ HostStep

\* A write that raises, or is short, may have reached the container.
Written(noted, unnoted) ==
  \/ (late \/ ~Running) /\ unnoted /\ Sound /\ UNCHANGED stdin
  \/ /\ ~late /\ Running /\ Sound
     /\ host' = [noted EXCEPT !.at = "closing"]
     /\ stdin' = [stdin EXCEPT !.bytes = "whole"]
  \/ /\ ~late /\ unnoted /\ Break
     /\ \E b \in {"none", "part", "whole"} : stdin' = [stdin EXCEPT !.bytes = b]

\* Mutant: that it was told is noted once the write has returned.
Deliver_NotedLater ==
  /\ host.at = "ready"
  /\ Written([host EXCEPT !.told = TRUE], host' = [host EXCEPT !.at = "failing"])
  /\ UNCHANGED <<client, stdout, pending, noisy>> /\ HostStep

\* instruction_delivery_started, then write_instruction.
Deliver ==
  /\ host.at = "ready"
  /\ LET noted == [host EXCEPT !.told = TRUE] IN
       Written(noted, host' = [noted EXCEPT !.at = "cleanup"])
  /\ UNCHANGED <<client, stdout, pending, noisy>> /\ HostStep

\* Mutant: the stream stays open behind the instruction.
CloseBehind_Open ==
  /\ host.at = "closing"
  /\ IF late THEN Fails ELSE To("result")
  /\ Sound /\ UNCHANGED pending /\ Silent /\ HostStep

\* The stream is closed behind the instruction, if there is still time.
CloseBehind ==
  /\ host.at = "closing"
  /\ \/ late /\ Fails /\ Sound /\ UNCHANGED stdin
     \/ /\ ~late /\ Sound
        /\ host' = [host EXCEPT !.at = "result", !.open = FALSE]
        /\ stdin' = [stdin EXCEPT !.eof = TRUE]
     \/ ~late /\ Fails /\ Break /\ UNCHANGED stdin
  /\ UNCHANGED <<client, stdout, pending, noisy>> /\ HostStep

\* attest_driver_result_exit and attest_cancelled_exit: the exit status is
\* the one expected, and nothing more was said.
Attest ==
  /\ host.at \in {"exiting", "cancelling"}
  /\ LET code == IF host.held = "failure" THEN 1 ELSE 0
         clean == client = <<code>> /\ pending = <<>> /\ stdout = <<>> /\ ~noisy
     IN \/ /\ ~late /\ ~Running /\ Sound
           /\ To(IF ~clean THEN "cleanup"
                 ELSE IF host.at = "exiting" THEN "attested" ELSE "cancelled")
        \/ late /\ To("cleanup") /\ Sound
        \/ ~late /\ To("cleanup") /\ Break
  /\ UNCHANGED pending /\ Silent /\ HostStep

\* cleanup_driver_process: close, terminate or kill, and reap the client.  In
\* readiness the container of a driver that was not told is stopped before.
CleanUp ==
  /\ host.at = "cleanup"
  /\ \/ To("reaped") /\ Sound
        /\ client' = IF Running THEN <<Broken>> ELSE client
     \/ To("unreaped") /\ Break
        /\ client' \in {client, IF Running THEN <<Broken>> ELSE client}
  /\ \/ /\ \E b \in Arrive, eof \in {stdin.eof, TRUE} :
             stdin' = [bytes |-> b, eof |-> eof]
        /\ UNCHANGED container
     \/ /\ ~host.told /\ container.at # "exited"
        /\ container' = Exited(Broken)
        /\ UNCHANGED stdin
  /\ UNCHANGED <<stdout, pending, noisy, late>>

Session ==
  \/ ReadMore \/ ReadLine \/ Cancel \/ Deliver \/ CloseBehind
  \/ Attest \/ CleanUp

Docker == ClientEnds \/ ClientBreaks \/ Detach
=============================================================================
