---------------------------- MODULE TargetLedger ----------------------------
(***************************************************************************)
(* The harmless target of one track (src/kil/target_http.py): threads that *)
(* append one marker each to a shared JSONL ledger, under one lock, and a  *)
(* process that may die and be started again over the file it left.        *)
(*                                                                         *)
(* The ledger file is a sequence of chunks, one for each append: a whole   *)
(* line, or the part of a line an append left when it failed.  A chunk     *)
(* after a part continues its line, so neither can be read.                *)
(*                                                                         *)
(* `faults` counts appends that fail and processes that die; MaxFaults     *)
(* bounds it.  Abstracted: the record's fields other than the request ID,  *)
(* the byte limits and the file's mode, and the loss of data that was not  *)
(* synced, which takes more than the death of a process.                   *)
(***************************************************************************)
EXTENDS Naturals, Sequences, FiniteSets

CONSTANTS
  Calls,       \* HTTP requests that may reach the target
  Ids,         \* request IDs
  MaxRecords,  \* MAX_RECORDS
  MaxFaults    \* how many appends fail or processes die

ASSUME LimitsAssumption == MaxRecords \in Nat /\ MaxFaults \in Nat

VARIABLES
  file,     \* the chunks of the ledger file
  known,    \* _request_ids, and the IDs of _records
  invalid,  \* _invalid
  up,       \* the process is serving
  call,     \* the thread of each request
  faults

ledger == <<file, known, invalid, up, call, faults>>

----------------------------------------------------------------------------
Unborn == [at |-> "none", id |-> "none", status |-> 0]
Line(id) == [id |-> id, whole |-> TRUE]
Part(id) == [id |-> id, whole |-> FALSE]
Lines(id) == {i \in 1..Len(file) : file[i] = Line(id)}
Recorded == {id \in Ids : Lines(id) # {}}

Torn == \E i \in 1..Len(file) : ~file[i].whole
Repeated == \E id \in Ids : Cardinality(Lines(id)) > 1

\* The lock is held from the first byte written to the end of the sync.
Locked == \E c \in Calls : call[c].at = "syncing"
Turn(c) == up /\ call[c].at = "waiting" /\ ~Locked

Full == Cardinality(known) >= MaxRecords

\* The thread whose append is next.
Appends(c) == Turn(c) /\ call[c].id \notin known /\ ~Full

Fault == faults < MaxFaults /\ faults' = faults + 1
Answer(c, s) == call' = [call EXCEPT ![c].at = "done", ![c].status = s]

----------------------------------------------------------------------------
Init ==
  /\ file = <<>>
  /\ known = {} /\ invalid = FALSE /\ up = TRUE
  /\ call = [c \in Calls |-> Unborn]
  /\ faults = 0

\* A request on a known route with a proper join reaches the ledger.
Receive(c, id) ==
  /\ up /\ call[c] = Unborn
  /\ call' = [call EXCEPT ![c] = [at |-> "waiting", id |-> id, status |-> 0]]
  /\ UNCHANGED <<file, known, invalid, up, faults>>

\* Any other request is answered without it.
Refuse(c) ==
  /\ up /\ call[c] = Unborn
  /\ Answer(c, 400)
  /\ UNCHANGED <<file, known, invalid, up, faults>>

\* A duplicate, or one record too many, invalidates the ledger.
Conflict(c) ==
  /\ Turn(c)
  /\ call[c].id \in known
  /\ invalid' = TRUE
  /\ Answer(c, 409)
  /\ UNCHANGED <<file, known, up, faults>>

Overflow(c) ==
  /\ Turn(c)
  /\ call[c].id \notin known /\ Full
  /\ invalid' = TRUE
  /\ Answer(c, 503)
  /\ UNCHANGED <<file, known, up, faults>>

Write(c) ==
  /\ Appends(c)
  /\ file' = Append(file, Line(call[c].id))
  /\ call' = [call EXCEPT ![c].at = "syncing"]
  /\ UNCHANGED <<known, invalid, up, faults>>

\* Mutant: a torn append leaves the ledger valid.
WriteFails_Valid(c) ==
  /\ Appends(c) /\ Fault
  /\ file' \in {file, Append(file, Part(call[c].id))}
  /\ Answer(c, 503)
  /\ UNCHANGED <<known, invalid, up>>

\* The clock, the open or a write fails; what was written stays.
WriteFails(c) ==
  /\ Appends(c) /\ Fault
  /\ file' \in {file, Append(file, Part(call[c].id))}
  /\ invalid' = TRUE
  /\ Answer(c, 503)
  /\ UNCHANGED <<known, up>>

Sync(c) ==
  /\ call[c].at = "syncing"
  /\ known' = known \cup {call[c].id}
  /\ Answer(c, 200)
  /\ UNCHANGED <<file, invalid, up, faults>>

\* The line stays in the file, but the ledger does not know its ID.
SyncFails(c) ==
  /\ call[c].at = "syncing" /\ Fault
  /\ invalid' = TRUE
  /\ Answer(c, 503)
  /\ UNCHANGED <<file, known, up>>

Serve ==
  \E c \in Calls :
    \/ Conflict(c) \/ Overflow(c)
    \/ Write(c) \/ WriteFails(c)
    \/ Sync(c) \/ SyncFails(c)

\* The process dies, perhaps in the middle of a write.
Crash ==
  /\ up /\ Fault
  /\ up' = FALSE
  /\ known' = {} /\ invalid' = FALSE
  /\ \/ UNCHANGED file
     \/ \E c \in Calls : Appends(c) /\ file' = Append(file, Part(call[c].id))
  /\ call' = [c \in Calls |-> IF call[c].at \in {"waiting", "syncing"}
                              THEN [call[c] EXCEPT !.at = "done"] ELSE call[c]]

\* Mutant: the IDs of an existing ledger are not loaded.
Start_Forgets ==
  /\ ~up
  /\ ~Torn /\ ~Repeated /\ Len(file) <= MaxRecords
  /\ up' = TRUE
  /\ UNCHANGED <<file, known, invalid, call, faults>>

\* _load_existing: anything but a canonical ledger stops the service.
Start ==
  /\ ~up
  /\ ~Torn /\ ~Repeated /\ Len(file) <= MaxRecords
  /\ up' = TRUE
  /\ known' = Recorded
  /\ UNCHANGED <<file, invalid, call, faults>>

Next ==
  \/ \E c \in Calls : Refuse(c) \/ \E id \in Ids : Receive(c, id)
  \/ Serve \/ Crash \/ Start

Spec == Init /\ [][Next]_ledger

----------------------------------------------------------------------------
\* A ledger that serves and does not call itself invalid is what it says: all
\* lines whole, none repeated, no more than the limit, its memory the lines
\* but the one being synced, and a line for every marker it ever acknowledged,
\* whatever failed before and however often the process died (TargetLedger,
\* lines 91-201).
SoundUnlessInvalid ==
  up /\ ~invalid =>
    /\ ~Torn /\ ~Repeated /\ Cardinality(Recorded) <= MaxRecords
    /\ known = Recorded \ {call[c].id : c \in {d \in Calls : call[d].at = "syncing"}}
    /\ \A c \in Calls : call[c].status = 200 => call[c].id \in known

\* No request ID is acknowledged twice, neither by concurrent threads nor by
\* two processes with a failed append or a crash in between (test
\* test_duplicate_request_id_remains_a_conflict_after_restart).
AcknowledgedOnce ==
  \A c, d \in Calls :
    call[c].status = 200 /\ call[d].status = 200 /\ c # d => call[c].id # call[d].id
=============================================================================
