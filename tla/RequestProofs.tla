--------------------------- MODULE RequestProofs ---------------------------
(***************************************************************************)
(* The request path and the session of its driver, for any number of       *)
(* calls, request IDs, records, failed appends and deaths, and any bound   *)
(* on what breaks.                                                         *)
(*                                                                         *)
(* The target's ledger: one thread at a time holds the lock (LockHeld),    *)
(* its line is in the file and its ID is not yet in memory; the memory of  *)
(* a process that serves is backed by lines (Backed), and what was         *)
(* acknowledged is in that memory, also after a start that read it from    *)
(* the file.  So an append finds every ID that has a line, as long as the  *)
(* ledger does not call itself invalid (SoundUnlessInvalid), and no ID     *)
(* that was acknowledged is appended again even when it does.              *)
(*                                                                         *)
(* The path: a call is at one place of the gate, which says what was       *)
(* decided of it and whether it may have reached the target (Guarded), and *)
(* is in the access log exactly when the gate is done with it.  So once no *)
(* call is at the gate and none can come (Quiet), the log and the driver's *)
(* result stay as they were captured, whatever threads go on.              *)
(*                                                                         *)
(* The session: nothing but an instruction makes the driver call           *)
(* (DriverTold), and a record of kind "complete" can only come from a      *)
(* driver that has its answer (AnswerTold).                                *)
(***************************************************************************)
EXTENDS RequestSession, FunctionTheorems, FiniteSetTheorems, SequenceTheorems,
        WellFoundedInduction, TLAPS

(***************************************************************************)
(* The target's ledger.                                                    *)
(***************************************************************************)

Chunks == [id : Ids, whole : BOOLEAN]
Threads == [at : {"none", "waiting", "syncing", "done"}, id : Ids \cup {"none"},
            status : {0, 200, 400, 409, 503}]

LedgerTypeOK ==
  /\ file \in Seq(Chunks)
  /\ known \in SUBSET Ids
  /\ invalid \in BOOLEAN /\ up \in BOOLEAN
  /\ call \in [Calls -> Threads]
  /\ faults \in Nat

\* A request is at work in a process that serves, and a dead one left nothing.
Served ==
  /\ \A c \in Calls :
       /\ call[c].at \in {"waiting", "syncing"} =>
            up /\ call[c].id \in Ids /\ call[c].status = 0
       /\ call[c].at = "none" => call[c].status = 0
  /\ ~up => known = {} /\ ~invalid

LockHeld ==
  /\ \A c, d \in Calls :
       call[c].at = "syncing" /\ call[d].at = "syncing" => c = d
  /\ \A c \in Calls :
       call[c].at = "syncing" => call[c].id \in Recorded /\ call[c].id \notin known

\* What is known or was acknowledged has a line.
Backed ==
  /\ IsFiniteSet(Recorded)
  /\ known \subseteq Recorded
  /\ \A c \in Calls :
       call[c].status = 200 => call[c].id \in Recorded /\ (up => call[c].id \in known)

\* The ID whose line is being synced.
Syncing == {call[c].id : c \in {d \in Calls : call[d].at = "syncing"}}

LedgerInv ==
  LedgerTypeOK /\ Served /\ LockHeld /\ Backed /\ SoundUnlessInvalid /\ AcknowledgedOnce

----------------------------------------------------------------------------
(***************************************************************************)
(* What an append does to the lines.                                       *)
(***************************************************************************)
\* A whole line makes its ID recorded, once more than before.
LEMMA LineAppended ==
  ASSUME file \in Seq(Chunks), NEW id \in Ids, file' = Append(file, Line(id))
  PROVE  /\ file' \in Seq(Chunks)
         /\ Torn' = Torn
         /\ Lines(id)' = Lines(id) \cup {Len(file) + 1}
         /\ \A x \in Ids \ {id} : Lines(x)' = Lines(x)
         /\ Recorded' = Recorded \cup {id}
<1>1. Line(id) \in Chunks /\ Line(id).whole
  BY DEF Line, Chunks
<1>2. /\ file' \in Seq(Chunks) /\ Len(file') = Len(file) + 1
      /\ \A i \in 1..Len(file) : file'[i] = file[i]
      /\ file'[Len(file) + 1] = Line(id)
  BY <1>1
<1>3. /\ Len(file) \in Nat /\ 1..Len(file') = 1..Len(file) \cup {Len(file) + 1}
      /\ Len(file) + 1 \notin 1..Len(file)
  BY <1>2
<1>4. Torn' = Torn
  BY <1>1, <1>2, <1>3 DEF Torn
<1>5. Lines(id)' = Lines(id) \cup {Len(file) + 1}
  BY <1>2, <1>3 DEF Lines, Line
<1>6. \A x \in Ids \ {id} : Lines(x)' = Lines(x)
  BY <1>2, <1>3 DEF Lines, Line
<1>7. Recorded' = Recorded \cup {id}
  BY <1>5, <1>6 DEF Recorded
<1> QED
  BY <1>2, <1>4, <1>5, <1>6, <1>7

\* The part of a line records nothing.
LEMMA PartAppended ==
  ASSUME file \in Seq(Chunks), NEW id \in Ids, file' = Append(file, Part(id))
  PROVE  file' \in Seq(Chunks) /\ Recorded' = Recorded
<1>1. Part(id) \in Chunks /\ \A x \in Ids : Part(id) # Line(x)
  BY DEF Part, Line, Chunks
<1>2. /\ file' \in Seq(Chunks) /\ Len(file') = Len(file) + 1
      /\ \A i \in 1..Len(file) : file'[i] = file[i]
      /\ file'[Len(file) + 1] = Part(id)
  BY <1>1
<1>3. Len(file) \in Nat /\ 1..Len(file') = 1..Len(file) \cup {Len(file) + 1}
  BY <1>2
<1>4. \A x \in Ids : Lines(x)' = Lines(x)
  BY <1>1, <1>2, <1>3 DEF Lines
<1> QED
  BY <1>2, <1>4 DEF Recorded

\* There are no more recorded IDs than chunks.
LEMMA RecordedIsFinite ==
  ASSUME file \in Seq(Chunks)
  PROVE  IsFiniteSet(Recorded) /\ Cardinality(Recorded) <= Len(file)
<1> DEFINE whole == {i \in 1..Len(file) : file[i].id \in Recorded}
           name == [i \in whole |-> file[i].id]
<1>1. Len(file) \in Nat /\ \A i \in 1..Len(file) : file[i] \in Chunks
  OBVIOUS
<1>2. IsFiniteSet(1..Len(file)) /\ Cardinality(1..Len(file)) = Len(file)
  <2> HIDE DEF whole, name
  <2>1. PICK n \in Nat : n = Len(file)
    BY <1>1
  <2>2. IsFiniteSet(1..n) /\ Cardinality(1..n) = n
    <3>1. 1 \in Int /\ n \in Int /\ ~(1 > n /\ n # 0) /\ n - 1 + 1 = n
      BY <2>1
    <3>2. /\ IsFiniteSet(1..n)
          /\ Cardinality(1..n) = IF 1 > n THEN 0 ELSE n - 1 + 1
      BY <3>1, FS_Interval
    <3> QED BY <3>1, <3>2
  <2> QED BY <2>1, <2>2
<1>3. whole \in SUBSET (1..Len(file))
  OBVIOUS
<1>4. IsFiniteSet(whole) /\ Cardinality(whole) <= Len(file)
  BY <1>2, <1>3, FS_Subset
<1>5. name \in Surjection(whole, Recorded)
  <2>1. name \in [whole -> Recorded]
    OBVIOUS
  <2>2. ASSUME NEW x \in Recorded PROVE \E i \in whole : name[i] = x
    <3>1. PICK i \in 1..Len(file) : file[i] = Line(x)
      BY DEF Recorded, Lines
    <3>2. file[i].id = x
      BY <3>1 DEF Line
    <3> QED
      BY <3>2
  <2> QED
    BY <2>1, <2>2, Fun_IsSurj
<1> HIDE DEF name, whole
<1>6. IsFiniteSet(Recorded) /\ Cardinality(Recorded) <= Cardinality(whole)
  BY <1>4, <1>5, FS_Surjection
<1>7. Cardinality(Recorded) \in Nat /\ Cardinality(whole) \in Nat
  BY <1>4, <1>6, FS_CardinalityType
<1> QED
  BY <1>1, <1>4, <1>6, <1>7

\* An ID whose first line is appended has one line, and no other has more.
LEMMA FirstLine ==
  ASSUME file \in Seq(Chunks), NEW id \in Ids \ Recorded, file' = Append(file, Line(id)),
         ~Repeated
  PROVE  ~Repeated'
<1>1. Lines(id) = {}
  BY DEF Recorded
<1>2. Cardinality(Lines(id)') = 1
  <2>1. Lines(id)' = {Len(file) + 1}
    BY <1>1, LineAppended
  <2> QED
    BY <2>1, FS_Singleton
<1>3. \A x \in Ids \ {id} : ~(Cardinality(Lines(x)') > 1)
  BY LineAppended DEF Repeated
<1> QED
  BY <1>2, <1>3 DEF Repeated

----------------------------------------------------------------------------
(***************************************************************************)
(* The steps.                                                              *)
(***************************************************************************)
\* The thread when it was answered.
Answers(c, s) == [at |-> "done", id |-> call[c].id, status |-> s]

\* An answer ends the thread and no other.
LEMMA Answered ==
  ASSUME LedgerTypeOK, NEW c \in Calls, NEW s \in {200, 400, 409, 503}, Answer(c, s)
  PROVE  /\ Answers(c, s) \in Threads
         /\ call' = [call EXCEPT ![c] = Answers(c, s)]
         /\ call' \in [Calls -> Threads]
         /\ call'[c].at = "done" /\ call'[c].id = call[c].id /\ call'[c].status = s
         /\ \A d \in Calls \ {c} : call'[d] = call[d]
<1> DEFINE t == [call[c] EXCEPT !.at = "done"]
           f == [call EXCEPT ![c] = t]
<1>1. call \in [Calls -> Threads] /\ call[c] \in Threads
  BY DEF LedgerTypeOK
<1>2. Answers(c, s) \in Threads
  BY <1>1 DEF Threads, Answers
<1>3. [t EXCEPT !.status = s] = Answers(c, s)
  <2>1. call[c] = [at |-> call[c].at, id |-> call[c].id, status |-> call[c].status]
    BY <1>1 DEF Threads
  <2>2. t = [at |-> "done", id |-> call[c].id, status |-> call[c].status]
    BY <2>1
  <2> HIDE DEF t
  <2> QED
    BY <2>2 DEF Answers
<1>4. call' = [f EXCEPT ![c] = [f[c] EXCEPT !.status = s]]
  BY DEF Answer
<1>5. f[c] = t
  BY <1>1
<1>6. call' = [f EXCEPT ![c] = Answers(c, s)]
  BY <1>3, <1>4, <1>5
<1> HIDE DEF t
<1>7. call' = [call EXCEPT ![c] = Answers(c, s)]
  BY <1>1, <1>6
<1>8. /\ Answers(c, s).at = "done" /\ Answers(c, s).id = call[c].id
      /\ Answers(c, s).status = s
  BY DEF Answers
<1> QED
  BY <1>1, <1>2, <1>7, <1>8

\* The ledger starts empty.
LEMMA LedgerInitially == Init => LedgerInv
<1> SUFFICES ASSUME Init PROVE LedgerInv
  OBVIOUS
<1>1. Recorded = {} /\ ~Torn /\ \A x \in Ids : Lines(x) = {}
  BY DEF Init, Recorded, Lines, Torn
<1>2. IsFiniteSet({}) /\ Cardinality({}) = 0
  BY FS_EmptySet
<1>3. ~Repeated
  BY <1>1, <1>2 DEF Repeated
<1>4. LedgerTypeOK
  <2>1. file \in Seq(Chunks)
    BY DEF Init
  <2>2. call \in [Calls -> Threads]
    BY DEF Init, Threads, Unborn
  <2> QED
    BY <2>1, <2>2 DEF Init, LedgerTypeOK
<1>5. Served /\ LockHeld /\ AcknowledgedOnce
  BY DEF Init, Served, LockHeld, AcknowledgedOnce, Unborn
<1>6. Backed
  BY <1>1, <1>2 DEF Backed, Init, Unborn
<1>7. SoundUnlessInvalid
  BY <1>1, <1>2, <1>3, LimitsAssumption DEF SoundUnlessInvalid, Init, Unborn
<1> QED
  BY <1>4, <1>5, <1>6, <1>7 DEF LedgerInv

\* Where nothing of the ledger changes, nothing of this does.
LEMMA LedgerStays ==
  ASSUME LedgerInv, UNCHANGED ledger
  PROVE  LedgerInv'
<1>1. UNCHANGED <<file, known, invalid, up, call, faults>>
  BY DEF ledger
<1>2. Recorded' = Recorded /\ Torn' = Torn /\ Repeated' = Repeated
  BY <1>1 DEF Recorded, Lines, Torn, Repeated
<1>3. LedgerTypeOK' /\ Served'
  BY <1>1 DEF LedgerInv, LedgerTypeOK, Served
<1>4. LockHeld' /\ Backed'
  BY <1>1, <1>2 DEF LedgerInv, LockHeld, Backed
<1>5. SoundUnlessInvalid'
  BY <1>1, <1>2 DEF LedgerInv, SoundUnlessInvalid
<1>6. AcknowledgedOnce'
  BY <1>1 DEF LedgerInv, AcknowledgedOnce
<1> QED
  BY <1>3, <1>4, <1>5, <1>6 DEF LedgerInv

\* A request comes, or is answered without a line: the file and the memory stay,
\* and no thread takes or releases the lock.
LEMMA ThreadMoves ==
  ASSUME LedgerInv, NEW c \in Calls, up,
         call[c].at \in {"none", "waiting"},
         call' \in [Calls -> Threads],
         call'[c].at \in {"waiting", "done"}, call'[c].status # 200,
         call'[c].at = "waiting" => call'[c].id \in Ids /\ call'[c].status = 0,
         \A d \in Calls \ {c} : call'[d] = call[d],
         invalid' \in {invalid, TRUE}, UNCHANGED <<file, known, up, faults>>
  PROVE  LedgerInv'
<1>1. /\ Recorded' = Recorded /\ Torn' = Torn /\ Repeated' = Repeated
  BY DEF Recorded, Lines, Torn, Repeated
<1>2. LedgerTypeOK'
  BY DEF LedgerInv, LedgerTypeOK
<1>3. \A d \in Calls :
        /\ d # c => call'[d] = call[d]
        /\ call'[d].at = "syncing" => d # c
        /\ call'[d].status = 200 => d # c
  BY DEF LedgerInv, LedgerTypeOK
<1>4. Served'
  BY <1>3 DEF LedgerInv, Served
<1>5. LockHeld'
  BY <1>1, <1>3 DEF LedgerInv, LockHeld
<1>6. Backed'
  BY <1>1, <1>3 DEF LedgerInv, Backed
<1>7. Syncing' = Syncing
  BY <1>3 DEF Syncing
<1>8. SoundUnlessInvalid'
  <2> SUFFICES ASSUME ~invalid'
               PROVE  /\ ~Torn' /\ ~Repeated' /\ Cardinality(Recorded') <= MaxRecords
                      /\ known' = Recorded' \ Syncing'
                      /\ \A d \in Calls : call'[d].status = 200 => call'[d].id \in known'
    BY DEF SoundUnlessInvalid, Syncing
  <2>1. ~invalid
    BY DEF LedgerInv, LedgerTypeOK
  <2>2. /\ ~Torn /\ ~Repeated /\ Cardinality(Recorded) <= MaxRecords
        /\ known = Recorded \ Syncing
        /\ \A d \in Calls : call[d].status = 200 => call[d].id \in known
    BY <2>1 DEF LedgerInv, SoundUnlessInvalid, Syncing
  <2> QED
    BY <1>1, <1>3, <1>7, <2>2
<1>9. AcknowledgedOnce'
  BY <1>3 DEF LedgerInv, AcknowledgedOnce
<1> QED
  BY <1>2, <1>4, <1>5, <1>6, <1>8, <1>9 DEF LedgerInv

\* A thread that holds no lock while none does writes its line.
LEMMA WriteKeeps ==
  ASSUME LedgerInv, NEW c \in Calls, Write(c)
  PROVE  LedgerInv'
<1> DEFINE id == call[c].id
<1>1. /\ up /\ call[c].at = "waiting" /\ ~Locked
      /\ id \notin known /\ ~Full
      /\ file' = Append(file, Line(id))
      /\ call' = [call EXCEPT ![c].at = "syncing"]
      /\ UNCHANGED <<known, invalid, up, faults>>
  BY DEF Write, Appends, Turn
<1>2. id \in Ids /\ call[c].status = 0
  BY <1>1 DEF LedgerInv, Served
<1>3. file \in Seq(Chunks)
  BY DEF LedgerInv, LedgerTypeOK
<1>4. /\ file' \in Seq(Chunks) /\ Torn' = Torn /\ Recorded' = Recorded \cup {id}
  BY <1>1, <1>2, <1>3, LineAppended
<1>5. \A d \in Calls :
        /\ d = c => call'[d].at = "syncing" /\ call'[d].id = id /\ call'[d].status = 0
        /\ d # c => call'[d] = call[d] /\ call[d].at # "syncing"
  BY <1>1, <1>2 DEF LedgerInv, LedgerTypeOK, Threads, Locked
<1>6. LedgerTypeOK'
  <2>1. call[c] \in Threads
    BY DEF LedgerInv, LedgerTypeOK
  <2>2. [call[c] EXCEPT !.at = "syncing"] \in Threads
    BY <2>1 DEF Threads
  <2> QED
    BY <1>1, <1>4, <2>2 DEF LedgerInv, LedgerTypeOK
<1>7. Served'
  BY <1>1, <1>2, <1>5 DEF LedgerInv, Served
<1>8. LockHeld'
  BY <1>1, <1>4, <1>5 DEF LockHeld
<1>9. IsFiniteSet(Recorded')
  BY <1>4, FS_AddElement DEF LedgerInv, Backed
<1>10. Backed'
  BY <1>1, <1>4, <1>5, <1>9 DEF LedgerInv, Backed
<1>11. Syncing = {} /\ Syncing' = {id}
  BY <1>1, <1>5 DEF Syncing, Locked
<1>12. ASSUME ~invalid PROVE /\ ~Torn /\ ~Repeated /\ known = Recorded
                             /\ \A d \in Calls : call[d].status = 200 => call[d].id \in known
  BY <1>1, <1>11, <1>12 DEF LedgerInv, SoundUnlessInvalid, Syncing
<1>13. ASSUME ~invalid PROVE Cardinality(Recorded') <= MaxRecords
  <2>1. IsFiniteSet(Recorded) /\ id \notin Recorded /\ Cardinality(Recorded) < MaxRecords
    <3>1. Cardinality(Recorded) \in Nat
      BY FS_CardinalityType DEF LedgerInv, Backed
    <3> QED
      BY <1>1, <1>12, <1>13, <3>1, LimitsAssumption DEF Full, LedgerInv, Backed
  <2>2. Cardinality(Recorded') = Cardinality(Recorded) + 1
    BY <1>4, <2>1, FS_AddElement
  <2>3. Cardinality(Recorded) \in Nat
    BY <2>1, FS_CardinalityType
  <2> QED
    BY <2>1, <2>2, <2>3, LimitsAssumption
<1>14. ASSUME ~invalid PROVE ~Repeated'
  BY <1>1, <1>2, <1>3, <1>12, <1>14, FirstLine
<1>15. SoundUnlessInvalid'
  <2> SUFFICES ASSUME ~invalid
               PROVE  /\ ~Torn' /\ ~Repeated' /\ Cardinality(Recorded') <= MaxRecords
                      /\ known' = Recorded' \ Syncing'
                      /\ \A d \in Calls : call'[d].status = 200 => call'[d].id \in known'
    BY <1>1 DEF SoundUnlessInvalid, Syncing
  <2>1. known' = Recorded' \ Syncing'
    BY <1>1, <1>4, <1>11, <1>12
  <2> QED
    BY <1>1, <1>4, <1>5, <1>12, <1>13, <1>14, <2>1
<1>16. AcknowledgedOnce'
  BY <1>5 DEF LedgerInv, AcknowledgedOnce
<1> QED
  BY <1>6, <1>7, <1>8, <1>10, <1>15, <1>16 DEF LedgerInv

\* A synced line is known and acknowledged; nobody had its ID acknowledged
\* before.
LEMMA SyncKeeps ==
  ASSUME LedgerInv, NEW c \in Calls, Sync(c)
  PROVE  LedgerInv'
<1> DEFINE id == call[c].id
<1>1. /\ call[c].at = "syncing"
      /\ known' = known \cup {id}
      /\ Answer(c, 200)
      /\ UNCHANGED <<file, invalid, up, faults>>
  BY DEF Sync
<1>2. /\ up /\ id \in Ids /\ id \in Recorded /\ id \notin known
      /\ \A d \in Calls : call[d].at = "syncing" => d = c
  BY <1>1 DEF LedgerInv, Served, LockHeld
<1>3. /\ Recorded' = Recorded /\ Torn' = Torn /\ Repeated' = Repeated
  BY <1>1 DEF Recorded, Lines, Torn, Repeated
<1>4. \A d \in Calls :
        /\ d = c => call'[d].at = "done" /\ call'[d].id = id /\ call'[d].status = 200
        /\ d # c => call'[d] = call[d] /\ call[d].at # "syncing"
  BY <1>1, <1>2, Answered DEF LedgerInv
<1>5. LedgerTypeOK'
  BY <1>1, <1>2, Answered DEF LedgerInv, LedgerTypeOK
<1>6. Served'
  BY <1>1, <1>2, <1>4 DEF LedgerInv, Served
<1>7. LockHeld'
  BY <1>4 DEF LockHeld
<1>8. Backed'
  BY <1>1, <1>2, <1>3, <1>4 DEF LedgerInv, Backed
<1>9. Syncing = {id} /\ Syncing' = {}
  BY <1>1, <1>2, <1>4 DEF Syncing
<1>10. SoundUnlessInvalid'
  <2> SUFFICES ASSUME ~invalid
               PROVE  /\ ~Torn' /\ ~Repeated' /\ Cardinality(Recorded') <= MaxRecords
                      /\ known' = Recorded' \ Syncing'
                      /\ \A d \in Calls : call'[d].status = 200 => call'[d].id \in known'
    BY <1>1 DEF SoundUnlessInvalid, Syncing
  <2>1. /\ ~Torn /\ ~Repeated /\ Cardinality(Recorded) <= MaxRecords
        /\ known = Recorded \ Syncing
        /\ \A d \in Calls : call[d].status = 200 => call[d].id \in known
    BY <1>2 DEF LedgerInv, SoundUnlessInvalid, Syncing
  <2> QED
    BY <1>1, <1>2, <1>3, <1>4, <1>9, <2>1
<1>11. AcknowledgedOnce'
  <2>1. \A d \in Calls : call[d].status = 200 => call[d].id # id
    BY <1>2 DEF LedgerInv, Backed
  <2> QED
    BY <1>4, <2>1 DEF LedgerInv, AcknowledgedOnce
<1> QED
  BY <1>5, <1>6, <1>7, <1>8, <1>10, <1>11 DEF LedgerInv

\* What fails leaves the ledger invalid, the memory as it was, and the lock free.
LEMMA FailureKeeps ==
  ASSUME LedgerInv, NEW c \in Calls, WriteFails(c) \/ SyncFails(c)
  PROVE  LedgerInv'
<1> DEFINE id == call[c].id
<1>1. /\ call[c].at \in {"waiting", "syncing"}
      /\ Answer(c, 503)
      /\ file' \in {file, Append(file, Part(id))}
      /\ invalid' = TRUE /\ faults' = faults + 1
      /\ UNCHANGED <<known, up>>
  BY DEF WriteFails, SyncFails, Appends, Turn, Fault
<1>2. up /\ id \in Ids
  BY <1>1 DEF LedgerInv, Served
<1>3. file' \in Seq(Chunks) /\ Recorded' = Recorded
  <2>1. file \in Seq(Chunks)
    BY DEF LedgerInv, LedgerTypeOK
  <2>2. CASE file' = file
    BY <2>1, <2>2 DEF Recorded, Lines
  <2>3. CASE file' = Append(file, Part(id))
    BY <1>2, <2>1, <2>3, PartAppended
  <2> QED
    BY <1>1, <2>2, <2>3
<1>4. \A d \in Calls :
        /\ d = c => call'[d].at = "done" /\ call'[d].status = 503
        /\ d # c => call'[d] = call[d]
  BY <1>1, Answered DEF LedgerInv
<1>5. LedgerTypeOK'
  BY <1>1, <1>3, Answered DEF LedgerInv, LedgerTypeOK
<1>6. Served'
  BY <1>1, <1>2, <1>4 DEF LedgerInv, Served
<1>7. LockHeld'
  BY <1>1, <1>3, <1>4 DEF LedgerInv, LockHeld
<1>8. Backed'
  BY <1>1, <1>3, <1>4 DEF LedgerInv, Backed
<1>9. SoundUnlessInvalid'
  BY <1>1 DEF SoundUnlessInvalid
<1>10. AcknowledgedOnce'
  BY <1>4 DEF LedgerInv, AcknowledgedOnce
<1> QED
  BY <1>5, <1>6, <1>7, <1>8, <1>9, <1>10 DEF LedgerInv

\* Death takes the memory and the threads, and leaves the lines.
LEMMA CrashKeeps ==
  ASSUME LedgerInv, Crash
  PROVE  LedgerInv'
<1>1. /\ up /\ up' = FALSE /\ known' = {} /\ invalid' = FALSE /\ faults' = faults + 1
      /\ file' = file \/ \E c \in Calls : Appends(c) /\ file' = Append(file, Part(call[c].id))
      /\ call' = [c \in Calls |-> IF call[c].at \in {"waiting", "syncing"}
                                  THEN [call[c] EXCEPT !.at = "done"] ELSE call[c]]
  BY DEF Crash, Fault
<1>2. file' \in Seq(Chunks) /\ Recorded' = Recorded
  <2>1. file \in Seq(Chunks)
    BY DEF LedgerInv, LedgerTypeOK
  <2>2. CASE file' = file
    BY <2>1, <2>2 DEF Recorded, Lines
  <2>3. ASSUME NEW c \in Calls, Appends(c), file' = Append(file, Part(call[c].id))
        PROVE  file' \in Seq(Chunks) /\ Recorded' = Recorded
    <3>1. call[c].id \in Ids
      BY <2>3 DEF Appends, Turn, LedgerInv, Served
    <3> QED
      BY <2>1, <2>3, <3>1, PartAppended
  <2> QED
    BY <1>1, <2>2, <2>3
<1>3. \A c \in Calls :
        /\ call'[c].at \in {"none", "done"} /\ call'[c].id = call[c].id
        /\ call'[c].status = call[c].status
        /\ call'[c].at = "none" => call[c].at = "none"
  BY <1>1 DEF LedgerInv, LedgerTypeOK, Threads
<1>4. LedgerTypeOK'
  <2>1. \A c \in Calls : call[c] \in Threads /\ [call[c] EXCEPT !.at = "done"] \in Threads
    BY DEF LedgerInv, LedgerTypeOK, Threads
  <2>2. call' \in [Calls -> Threads]
    BY <1>1, <2>1
  <2>3. faults' \in Nat
    BY <1>1 DEF LedgerInv, LedgerTypeOK
  <2> QED
    BY <1>1, <1>2, <2>2, <2>3 DEF LedgerTypeOK
<1>5. Served'
  BY <1>1, <1>3 DEF LedgerInv, Served
<1>6. LockHeld'
  BY <1>3 DEF LockHeld
<1>7. Backed'
  BY <1>1, <1>2, <1>3 DEF LedgerInv, Backed
<1>8. SoundUnlessInvalid'
  BY <1>1 DEF SoundUnlessInvalid
<1>9. AcknowledgedOnce'
  BY <1>3 DEF LedgerInv, AcknowledgedOnce
<1> QED
  BY <1>4, <1>5, <1>6, <1>7, <1>8, <1>9 DEF LedgerInv

\* A process starts over a canonical file, and knows every line of it.
LEMMA StartKeeps ==
  ASSUME LedgerInv, Start
  PROVE  LedgerInv'
<1>1. /\ ~up /\ ~Torn /\ ~Repeated /\ Len(file) <= MaxRecords
      /\ up' = TRUE /\ known' = Recorded /\ UNCHANGED <<file, invalid, call, faults>>
  BY DEF Start
<1>2. /\ Recorded' = Recorded /\ Torn' = Torn /\ Repeated' = Repeated
  BY <1>1 DEF Recorded, Lines, Torn, Repeated
<1>3. \A c \in Calls : call[c].at \notin {"waiting", "syncing"}
  BY <1>1 DEF LedgerInv, Served
<1>4. LedgerTypeOK'
  BY <1>1 DEF LedgerInv, LedgerTypeOK, Recorded
<1>5. Served'
  BY <1>1, <1>3 DEF LedgerInv, Served
<1>6. LockHeld'
  BY <1>1, <1>3 DEF LockHeld
<1>7. Backed'
  BY <1>1, <1>2 DEF LedgerInv, Backed
<1>8. Cardinality(Recorded) <= MaxRecords
  <2>1. file \in Seq(Chunks) /\ Len(file) \in Nat
    BY DEF LedgerInv, LedgerTypeOK
  <2>2. IsFiniteSet(Recorded) /\ Cardinality(Recorded) <= Len(file)
    BY <2>1, RecordedIsFinite
  <2> QED
    BY <1>1, <2>1, <2>2, FS_CardinalityType, LimitsAssumption
<1>9. Syncing' = {}
  BY <1>1, <1>3 DEF Syncing
<1>10. \A c \in Calls : call[c].status = 200 => call[c].id \in Recorded
  BY DEF LedgerInv, Backed
<1>11. SoundUnlessInvalid'
  BY <1>1, <1>2, <1>8, <1>9, <1>10 DEF SoundUnlessInvalid, Syncing
<1>12. AcknowledgedOnce'
  BY <1>1 DEF LedgerInv, AcknowledgedOnce
<1> QED
  BY <1>4, <1>5, <1>6, <1>7, <1>11, <1>12 DEF LedgerInv

\* Every step keeps the invariant.
LEMMA LedgerStep == LedgerInv /\ [Next]_ledger => LedgerInv'
<1> SUFFICES ASSUME LedgerInv, [Next]_ledger PROVE LedgerInv'
  OBVIOUS
<1>1. ASSUME NEW c \in Calls, Refuse(c) PROVE LedgerInv'
  <2>1. call[c].at = "none" /\ LedgerTypeOK
    BY <1>1 DEF Refuse, Unborn, LedgerInv
  <2> QED
    BY <1>1, <2>1, Answered, ThreadMoves DEF Refuse
<1>2. ASSUME NEW c \in Calls, NEW id \in Ids, Receive(c, id) PROVE LedgerInv'
  <2>1. call \in [Calls -> Threads] /\ call[c].at = "none"
    BY <1>2 DEF Receive, Unborn, LedgerInv, LedgerTypeOK
  <2>2. [at |-> "waiting", id |-> id, status |-> 0] \in Threads
    BY DEF Threads
  <2>3. /\ call' \in [Calls -> Threads]
        /\ call'[c] = [at |-> "waiting", id |-> id, status |-> 0]
        /\ \A d \in Calls \ {c} : call'[d] = call[d]
    BY <1>2, <2>1, <2>2 DEF Receive
  <2>4. call'[c].at = "waiting" /\ call'[c].id = id /\ call'[c].status = 0
    BY <2>3
  <2> QED
    BY <1>2, <2>1, <2>3, <2>4, ThreadMoves DEF Receive
<1>3. ASSUME NEW c \in Calls, NEW s \in {409, 503}, Turn(c), invalid' = TRUE, Answer(c, s),
             UNCHANGED <<file, known, up, faults>>
      PROVE  LedgerInv'
  <2>1. call[c].at = "waiting" /\ up /\ LedgerTypeOK
    BY <1>3 DEF Turn, LedgerInv
  <2>2. /\ call' \in [Calls -> Threads]
        /\ call'[c].at = "done" /\ call'[c].status = s
        /\ \A d \in Calls \ {c} : call'[d] = call[d]
    <3>1. s \in {200, 400, 409, 503} /\ Answer(c, s)
      BY <1>3
    <3> QED
      BY <2>1, <3>1, Answered
  <2>3. s # 200
    BY <1>3
  <2> QED
    BY <1>3, <2>1, <2>2, <2>3, ThreadMoves
<1>4. ASSUME NEW c \in Calls, Conflict(c) \/ Overflow(c) PROVE LedgerInv'
  <2>1. CASE Conflict(c)
    <3>1. /\ Turn(c) /\ invalid' = TRUE /\ Answer(c, 409)
          /\ UNCHANGED <<file, known, up, faults>>
      BY <2>1 DEF Conflict
    <3> QED
      BY <1>3, <3>1
  <2>2. CASE Overflow(c)
    <3>1. /\ Turn(c) /\ invalid' = TRUE /\ Answer(c, 503)
          /\ UNCHANGED <<file, known, up, faults>>
      BY <2>2 DEF Overflow
    <3> QED
      BY <1>3, <3>1
  <2> QED
    BY <1>4, <2>1, <2>2
<1>5. ASSUME NEW c \in Calls, Write(c) PROVE LedgerInv'
  BY <1>5, WriteKeeps
<1>6. ASSUME NEW c \in Calls, WriteFails(c) \/ SyncFails(c) PROVE LedgerInv'
  BY <1>6, FailureKeeps
<1>7. ASSUME NEW c \in Calls, Sync(c) PROVE LedgerInv'
  BY <1>7, SyncKeeps
<1>8. CASE Crash
  BY <1>8, CrashKeeps
<1>9. CASE Start
  BY <1>9, StartKeeps
<1>10. CASE UNCHANGED ledger
  BY <1>10, LedgerStays
<1> QED
  BY <1>1, <1>2, <1>4, <1>5, <1>6, <1>7, <1>8, <1>9, <1>10 DEF Next, Serve

\* The invariant of the ledger, with its types.
THEOREM LedgerInvariant == Spec => []LedgerInv
<1>1. Init => LedgerInv
  BY LedgerInitially
<1>2. LedgerInv /\ [Next]_ledger => LedgerInv'
  BY LedgerStep
<1> QED
  BY <1>1, <1>2, PTL DEF Spec

\* Whatever failed before, a ledger that serves and does not call itself invalid
\* is canonical, no longer than its limit, known to the process, and holds every
\* marker that was acknowledged (target_http.py, TargetLedger).
THEOREM LedgerIsSound == Spec => []SoundUnlessInvalid
<1>1. LedgerInv => SoundUnlessInvalid
  BY DEF LedgerInv
<1> QED
  BY <1>1, LedgerInvariant, PTL

\* No two requests with one ID are acknowledged, not even when the ledger is
\* invalid or the process died between them (target_http.py, TargetLedger).
THEOREM NeverAcknowledgedTwice == Spec => []AcknowledgedOnce
<1>1. LedgerInv => AcknowledgedOnce
  BY DEF LedgerInv
<1> QED
  BY <1>1, LedgerInvariant, PTL

----------------------------------------------------------------------------
(***************************************************************************)
(* The request path.                                                       *)
(***************************************************************************)
Entries == [call : Calls, outcome : Outcomes, whole : BOOLEAN]
Statuses == {0, 200, 400, 403, 409, 503}
Accesses == [call : Calls, status : Statuses, upstream : BOOLEAN]
Results == [at : {"idle", "waiting", "failed", "complete"}, status : Statuses]
Readings == Results \cup Seq(Entries) \cup Seq(Accesses) \cup Seq(Chunks)

PathTypeOK ==
  /\ authz \in [Calls -> [at : {"none", "deciding"}] \cup Recording]
  /\ decisions \in Seq(Entries)
  /\ gate \in [Calls -> {"none", "checking", "forwarding", "done"}]
  /\ accesses \in Seq(Accesses)
  /\ driver \in Results
  /\ listener \in {"open", "refusing", "quiet"}
  /\ captured \in Seq(Readings)

Decided(c, o) == \E i \in 1..Len(decisions) : decisions[i] = Entry(c, o, TRUE)
Accessed(c) == \E i \in 1..Len(accesses) : accesses[i].call = c

\* What Envoy's side of a call says of the others.
Guarded(c) ==
  /\ Reached(c) => /\ gate[c] \in {"forwarding", "done"}
                   /\ call[c].id = Request
                   /\ Decided(c, "permit")
  /\ gate[c] = "forwarding" => Decided(c, "permit")
  /\ gate[c] = "done" <=> Accessed(c)
  /\ \A o \in {"permit", "deny"} :
       authz[c].at = "answered" /\ authz[c].outcome = o => Decided(c, o)

\* What the access log says of its calls.
TrueLog ==
  \A i \in 1..Len(accesses) :
    /\ accesses[i].status = 200 => call[accesses[i].call].status = 200
    /\ accesses[i].status = 403 => ~Reached(accesses[i].call)
                                   /\ Decided(accesses[i].call, "deny")

\* What the driver holds was in the access log.
DriverHolds ==
  /\ driver.at = "complete" =>
       \E i \in 1..Len(accesses) :
         accesses[i].call = Driver /\ accesses[i].status = driver.status
  /\ driver.at # "complete" => driver.status = 0

\* Nothing moves at the gate once the listener is quiet, and what was captured
\* of it stays.
Quiet ==
  /\ listener # "open" => driver.at \in {"failed", "complete"}
  /\ listener = "quiet" => ~Busy
  /\ captured # <<>> => listener = "quiet" /\ captured[1] = driver
  /\ Len(captured) >= 3 => captured[3] = accesses

PathInv ==
  /\ LedgerInv /\ PathTypeOK
  /\ \A c \in Calls : Guarded(c)
  /\ TrueLog /\ DriverHolds /\ Quiet

----------------------------------------------------------------------------
LEMMA DecisionAppended ==
  ASSUME decisions \in Seq(Entries), NEW e \in Entries, decisions' = Append(decisions, e)
  PROVE  /\ decisions' \in Seq(Entries)
         /\ \A c \in Calls, o \in Outcomes :
              Decided(c, o)' <=> Decided(c, o) \/ e = Entry(c, o, TRUE)
<1>1. /\ decisions' \in Seq(Entries) /\ Len(decisions') = Len(decisions) + 1
      /\ \A i \in 1..Len(decisions) : decisions'[i] = decisions[i]
      /\ decisions'[Len(decisions) + 1] = e
  OBVIOUS
<1>2. Len(decisions) \in Nat /\ 1..Len(decisions') = 1..Len(decisions) \cup {Len(decisions) + 1}
  BY <1>1
<1> QED
  BY <1>1, <1>2 DEF Decided

LEMMA AccessAppended ==
  ASSUME accesses \in Seq(Accesses), NEW a \in Accesses, accesses' = Append(accesses, a)
  PROVE  /\ accesses' \in Seq(Accesses)
         /\ \A i \in 1..Len(accesses) : i \in 1..Len(accesses') /\ accesses'[i] = accesses[i]
         /\ \A i \in 1..Len(accesses') : i \in 1..Len(accesses) \/ accesses'[i] = a
         /\ \A c \in Calls : Accessed(c)' <=> Accessed(c) \/ a.call = c
<1>1. /\ accesses' \in Seq(Accesses) /\ Len(accesses') = Len(accesses) + 1
      /\ \A i \in 1..Len(accesses) : accesses'[i] = accesses[i]
      /\ accesses'[Len(accesses) + 1] = a
  OBVIOUS
<1>2. Len(accesses) \in Nat /\ 1..Len(accesses') = 1..Len(accesses) \cup {Len(accesses) + 1}
  BY <1>1
<1> QED
  BY <1>1, <1>2 DEF Accessed

\* What may change of the calls while a fact about them stays.
CallsGoOn ==
  \A c \in Calls :
    /\ Reached(c) => Reached(c)' /\ call'[c].id = call[c].id
    /\ Reached(c)' => Reached(c) \/ (gate[c] = "forwarding" /\ call'[c].id = Request)
    /\ call[c].status = 200 => call'[c].status = 200

DecisionsStay == \A c \in Calls, o \in Outcomes : Decided(c, o) => Decided(c, o)'

LEMMA CallsServed ==
  ASSUME PathInv, Serve
  PROVE  CallsGoOn /\ LedgerInv'
<1>1. LedgerInv'
  BY LedgerStep DEF PathInv, Next
<1>2. PICK c \in Calls :
        \/ Conflict(c) \/ Overflow(c) \/ Write(c) \/ WriteFails(c) \/ Sync(c) \/ SyncFails(c)
  BY DEF Serve
<1>3. /\ call[c].at \in {"waiting", "syncing"}
      /\ \/ \E s \in {200, 409, 503} : Answer(c, s)
         \/ call' = [call EXCEPT ![c].at = "syncing"]
  BY <1>2 DEF Conflict, Overflow, Write, WriteFails, Sync, SyncFails, Appends, Turn
<1>4. /\ call'[c].at \in {"syncing", "done"} /\ call'[c].id = call[c].id
      /\ \A d \in Calls \ {c} : call'[d] = call[d]
  <2>1. ASSUME NEW s \in {200, 409, 503}, Answer(c, s)
        PROVE  /\ call'[c].at \in {"syncing", "done"} /\ call'[c].id = call[c].id
               /\ \A d \in Calls \ {c} : call'[d] = call[d]
    BY <2>1, Answered DEF PathInv, LedgerInv
  <2>2. CASE call' = [call EXCEPT ![c].at = "syncing"]
    BY <2>2 DEF PathInv, LedgerInv, LedgerTypeOK, Threads
  <2> QED
    BY <1>3, <2>1, <2>2
<1>5. call[c].status = 0
  BY <1>3 DEF PathInv, LedgerInv, Served
<1> QED
  BY <1>1, <1>3, <1>4, <1>5 DEF CallsGoOn, Reached, Unborn

LEMMA CallForwarded ==
  ASSUME PathInv, NEW c \in Calls, Forward(c)
  PROVE  CallsGoOn /\ LedgerInv'
<1>1. gate[c] = "forwarding" /\ Receive(c, Request)
  BY DEF Forward
<1>2. LedgerInv'
  BY <1>1, LedgerStep, RequestAssumption DEF PathInv, Next
<1>3. /\ call[c] = Unborn /\ call'[c] = [at |-> "waiting", id |-> Request, status |-> 0]
      /\ \A d \in Calls \ {c} : call'[d] = call[d]
  BY <1>1 DEF Receive, PathInv, LedgerInv, LedgerTypeOK
<1> QED
  BY <1>1, <1>2, <1>3 DEF CallsGoOn, Reached, Unborn

LEMMA FaultKeeps ==
  ASSUME PathInv, Fault, UNCHANGED <<file, known, invalid, up, call>>
  PROVE  LedgerInv' /\ CallsGoOn
BY DEF PathInv, Fault, LedgerInv, LedgerTypeOK, Served, LockHeld, Backed, SoundUnlessInvalid,
   AcknowledgedOnce, Recorded, Lines, Torn, Repeated, CallsGoOn, Reached

LEMMA LedgerKeeps ==
  ASSUME PathInv, UNCHANGED ledger
  PROVE  LedgerInv' /\ CallsGoOn
<1>1. LedgerInv'
  BY LedgerStep DEF PathInv
<1> QED
  BY <1>1 DEF ledger, CallsGoOn, Reached

\* A step that leaves the gate alone.
LEMMA GateStays ==
  ASSUME PathInv, CallsGoOn, DecisionsStay, UNCHANGED <<gate, accesses>>,
         \A c \in Calls, o \in {"permit", "deny"} :
           authz'[c].at = "answered" /\ authz'[c].outcome = o =>
             authz'[c] = authz[c] \/ Decided(c, o)'
  PROVE  (\A c \in Calls : Guarded(c)') /\ TrueLog'
<1>1. {"permit", "deny"} \subseteq Outcomes
  BY DEF Outcomes
<1>2. ASSUME NEW c \in Calls PROVE Guarded(c)'
  <2>1. Guarded(c)
    BY DEF PathInv
  <2>2. \A o \in Outcomes : Decided(c, o) => Decided(c, o)'
    BY DEF DecisionsStay
  <2>3. Accessed(c)' = Accessed(c)
    BY DEF Accessed
  <2>4. Reached(c)' => /\ gate'[c] \in {"forwarding", "done"}
                       /\ call'[c].id = Request /\ Decided(c, "permit")'
    BY <1>1, <2>1, <2>2 DEF Guarded, CallsGoOn
  <2>5. \A o \in {"permit", "deny"} :
          authz'[c].at = "answered" /\ authz'[c].outcome = o => Decided(c, o)'
    BY <1>1, <2>1, <2>2 DEF Guarded
  <2> QED
    BY <1>1, <2>1, <2>2, <2>3, <2>4, <2>5 DEF Guarded
<1>3. TrueLog'
  <2> SUFFICES ASSUME NEW i \in 1..Len(accesses)
               PROVE  /\ accesses[i].status = 200 => call'[accesses[i].call].status = 200
                      /\ accesses[i].status = 403 => ~Reached(accesses[i].call)'
                                                     /\ Decided(accesses[i].call, "deny")'
    BY DEF TrueLog
  <2>1. accesses[i].call \in Calls
    <3>1. accesses \in Seq(Accesses)
      BY DEF PathInv, PathTypeOK
    <3>2. accesses[i] \in Accesses
      BY <3>1
    <3> QED
      BY <3>2 DEF Accesses
  <2>2. PICK c \in Calls : c = accesses[i].call
    BY <2>1
  <2>3. Accessed(c) /\ gate[c] # "forwarding"
    BY <2>2 DEF Accessed, PathInv, Guarded
  <2> QED
    BY <1>1, <2>2, <2>3 DEF PathInv, TrueLog, CallsGoOn, DecisionsStay
<1> QED
  BY <1>2, <1>3

----------------------------------------------------------------------------
(***************************************************************************)
(* The steps of the path.                                                  *)
(***************************************************************************)
\* The captured sources stay with a quiet listener.
LEMMA QuietStays ==
  ASSUME PathInv, UNCHANGED <<listener, captured, driver, gate, accesses>>
  PROVE  Quiet'
BY DEF PathInv, Quiet, Busy

LEMMA HoldsStays ==
  ASSUME PathInv, UNCHANGED <<driver, accesses>>
  PROVE  DriverHolds'
BY DEF PathInv, DriverHolds

LEMMA LogStays ==
  ASSUME PathInv, UNCHANGED <<call, decisions, accesses>>
  PROVE  TrueLog'
BY DEF PathInv, TrueLog, Reached, Decided, Entry

\* Of the threads and the target.
LEMMA ThreadKeeps ==
  ASSUME PathInv, NEW c \in Calls,
         \/ \E o \in Outcomes : Decide(c, o)
         \/ Record(c) \/ RecordFails(c)
  PROVE  PathInv'
<1>1. UNCHANGED <<gate, accesses, driver, listener, captured>>
  BY DEF Decide, Record, RecordFails
<1>2. LedgerInv' /\ CallsGoOn
  BY LedgerKeeps, FaultKeeps DEF Decide, Record, RecordFails
<1>3. /\ authz \in [Calls -> [at : {"none", "deciding"}] \cup Recording]
      /\ decisions \in Seq(Entries)
  BY DEF PathInv, PathTypeOK
<1>4. /\ authz' \in [Calls -> [at : {"none", "deciding"}] \cup Recording]
      /\ decisions' \in Seq(Entries) /\ DecisionsStay
      /\ \A d \in Calls, o \in {"permit", "deny"} :
           authz'[d].at = "answered" /\ authz'[d].outcome = o =>
             authz'[d] = authz[d] \/ Decided(d, o)'
  <2>1. ASSUME NEW o \in Outcomes, Decide(c, o)
        PROVE  /\ authz' \in [Calls -> [at : {"none", "deciding"}] \cup Recording]
               /\ authz'[c].at = "recording" /\ UNCHANGED decisions
    <3>1. [at |-> "recording", outcome |-> o] \in Recording
      BY DEF Recording
    <3> QED
      BY <1>3, <2>1, <3>1 DEF Decide
  <2>2. CASE Record(c)
    <3>1. authz[c] \in Recording /\ authz[c].outcome \in Outcomes
      BY <1>3, <2>2 DEF Record, Recording
    <3>2. [authz[c] EXCEPT !.at = "answered"]
            = [at |-> "answered", outcome |-> authz[c].outcome]
      BY <3>1 DEF Recording
    <3>3. authz' = [authz EXCEPT ![c] = [authz[c] EXCEPT !.at = "answered"]]
      BY <2>2 DEF Record
    <3>4. authz' = [authz EXCEPT ![c] = [at |-> "answered", outcome |-> authz[c].outcome]]
      BY <3>2, <3>3
    <3>5. /\ authz' \in [Calls -> [at : {"none", "deciding"}] \cup Recording]
          /\ authz'[c].outcome = authz[c].outcome
          /\ \A d \in Calls \ {c} : authz'[d] = authz[d]
      <4>1. [at |-> "answered", outcome |-> authz[c].outcome] \in Recording
        BY <3>1 DEF Recording
      <4> QED
        BY <1>3, <3>4, <4>1
    <3>6. Entry(c, authz[c].outcome, TRUE) \in Entries
      BY <3>1 DEF Entry, Entries
    <3>7. /\ decisions' \in Seq(Entries)
          /\ \A d \in Calls, o \in Outcomes :
               Decided(d, o)' <=> Decided(d, o)
                                   \/ Entry(c, authz[c].outcome, TRUE) = Entry(d, o, TRUE)
      BY <1>3, <2>2, <3>6, DecisionAppended DEF Record
    <3>8. ASSUME NEW o \in {"permit", "deny"}, authz'[c].outcome = o PROVE Decided(c, o)'
      BY <3>5, <3>7, <3>8 DEF Outcomes
    <3> QED
      BY <3>5, <3>7, <3>8 DEF DecisionsStay
  <2>3. CASE RecordFails(c)
    <3> DEFINE next == [at |-> IF authz[c].outcome = "error" THEN "answered" ELSE "recording",
                        outcome |-> "error"]
    <3>1. authz[c] \in Recording /\ authz[c].outcome \in Outcomes
      BY <1>3, <2>3 DEF RecordFails, Recording
    <3>2. next \in Recording /\ next.outcome = "error"
      BY DEF Recording, Outcomes
    <3>3. authz' = [authz EXCEPT ![c] = next]
      BY <2>3 DEF RecordFails
    <3> HIDE DEF next
    <3>4. /\ authz' \in [Calls -> [at : {"none", "deciding"}] \cup Recording]
          /\ authz'[c].outcome = "error"
          /\ \A d \in Calls \ {c} : authz'[d] = authz[d]
      BY <1>3, <3>2, <3>3
    <3>5. decisions' \in Seq(Entries) /\ DecisionsStay
      <4>1. ASSUME NEW w \in BOOLEAN,
                   decisions' = Append(decisions, Entry(c, authz[c].outcome, w))
            PROVE  decisions' \in Seq(Entries) /\ DecisionsStay
        <5>1. Entry(c, authz[c].outcome, w) \in Entries
          BY <3>1 DEF Entry, Entries
        <5> QED
          BY <1>3, <4>1, <5>1, DecisionAppended DEF DecisionsStay
      <4>2. CASE UNCHANGED decisions
        BY <1>3, <4>2 DEF DecisionsStay, Decided
      <4> QED
        BY <2>3, <4>1, <4>2 DEF RecordFails
    <3> QED
      BY <3>4, <3>5
  <2>4. UNCHANGED decisions => decisions' \in Seq(Entries) /\ DecisionsStay
    BY <1>3 DEF DecisionsStay, Decided
  <2>5. \A o \in Outcomes : Decide(c, o) => \A d \in Calls \ {c} : authz'[d] = authz[d]
    BY <1>3 DEF Decide
  <2> QED
    BY <2>1, <2>2, <2>3, <2>4, <2>5
<1>5. (\A d \in Calls : Guarded(d)') /\ TrueLog'
  BY <1>1, <1>2, <1>4, GateStays
<1>6. PathTypeOK'
  BY <1>1, <1>4 DEF PathInv, PathTypeOK
<1> QED
  BY <1>1, <1>2, <1>5, <1>6, QuietStays, HoldsStays DEF PathInv

LEMMA TargetKeeps ==
  ASSUME PathInv, TargetServes \/ \E c \in Calls : Forward(c)
  PROVE  PathInv'
<1>1. UNCHANGED <<authz, decisions, gate, accesses, driver, listener, captured>>
  BY DEF TargetServes, Forward
<1>2. LedgerInv' /\ CallsGoOn
  BY CallsServed, CallForwarded DEF TargetServes
<1>3. DecisionsStay
  BY <1>1 DEF DecisionsStay, Decided
<1>4. (\A d \in Calls : Guarded(d)') /\ TrueLog'
  BY <1>1, <1>2, <1>3, GateStays
<1>5. PathTypeOK'
  BY <1>1 DEF PathInv, PathTypeOK
<1> QED
  BY <1>1, <1>2, <1>4, <1>5, QuietStays, HoldsStays DEF PathInv

\* A call that was not there is checked.
LEMMA SendKeeps ==
  ASSUME PathInv, NEW c \in Calls, Send(c)
  PROVE  PathInv'
<1>1. /\ gate[c] = "none" /\ listener = "open"
      /\ gate' = [gate EXCEPT ![c] = "checking"]
      /\ authz' = [authz EXCEPT ![c] = [at |-> "deciding"]]
      /\ driver' = IF c = Driver THEN Result("waiting", 0) ELSE driver
      /\ UNCHANGED <<ledger, decisions, accesses, listener, captured>>
  BY DEF Send
<1>2. LedgerInv' /\ CallsGoOn
  BY <1>1, LedgerKeeps
<1>3. PathTypeOK'
  <2>1. Result("waiting", 0) \in Results
    BY DEF Result, Results, Statuses
  <2> QED
    BY <1>1, <2>1 DEF PathInv, PathTypeOK
<1>4. \A d \in Calls :
        /\ d # c => gate'[d] = gate[d] /\ authz'[d] = authz[d]
        /\ Accessed(d)' = Accessed(d) /\ Reached(d)' = Reached(d) /\ call'[d] = call[d]
        /\ \A o \in Outcomes : Decided(d, o)' = Decided(d, o)
  BY <1>1 DEF Accessed, Reached, Decided, ledger, PathInv, PathTypeOK
<1>5. gate'[c] = "checking" /\ authz'[c].at = "deciding" /\ ~Reached(c) /\ ~Accessed(c)
  BY <1>1 DEF PathInv, PathTypeOK, Guarded
<1>6. ASSUME NEW d \in Calls PROVE Guarded(d)'
  <2>1. CASE d = c
    BY <1>4, <1>5, <2>1 DEF Guarded
  <2>2. CASE d # c
    BY <1>4, <2>2 DEF PathInv, Guarded, Outcomes
  <2> QED
    BY <2>1, <2>2
<1>7. TrueLog'
  BY <1>1, LogStays DEF ledger
<1>8. DriverHolds'
  BY <1>1 DEF PathInv, DriverHolds, Result
<1>9. Quiet'
  BY <1>1 DEF PathInv, Quiet
<1> QED
  BY <1>2, <1>3, <1>6, <1>7, <1>8, <1>9 DEF PathInv

\* The driver reads the answer, gives up, or cannot send.
LEMMA DriverKeeps ==
  ASSUME PathInv,
         \/ DriverReads \/ DriverGivesUp
         \/ /\ driver.at = "idle" /\ driver' = Result("failed", 0)
            /\ UNCHANGED <<ledger, authz, decisions, gate, accesses, listener, captured>>
  PROVE  PathInv'
<1>1. /\ driver.at \in {"idle", "waiting"}
      /\ UNCHANGED <<ledger, authz, decisions, gate, accesses, listener, captured>>
  BY DEF DriverReads, DriverGivesUp
<1>2. \/ driver' = Result("failed", 0)
      \/ \E i \in 1..Len(accesses) :
           accesses[i].call = Driver /\ driver' = Result("complete", accesses[i].status)
  BY DEF DriverReads, DriverGivesUp
<1>3. accesses \in Seq(Accesses)
  BY DEF PathInv, PathTypeOK
<1>4. driver' \in Results /\ driver'.at \in {"failed", "complete"}
  <2>1. \A i \in 1..Len(accesses) : accesses[i].status \in Statuses
    <3> SUFFICES ASSUME NEW i \in 1..Len(accesses) PROVE accesses[i] \in Accesses
      BY DEF Accesses
    <3> QED
      BY <1>3
  <2>2. 0 \in Statuses
    BY DEF Statuses
  <2> QED
    BY <1>2, <2>1, <2>2 DEF Result, Results
<1>5. DriverHolds'
  BY <1>1, <1>2 DEF DriverHolds, Result
<1>6. LedgerInv' /\ CallsGoOn
  BY <1>1, LedgerKeeps
<1>7. DecisionsStay
  BY <1>1 DEF DecisionsStay, Decided
<1>8. (\A d \in Calls : Guarded(d)') /\ TrueLog'
  BY <1>1, <1>6, <1>7, GateStays
<1>9. PathTypeOK'
  BY <1>1, <1>4 DEF PathInv, PathTypeOK
<1>10. Quiet'
  BY <1>1 DEF PathInv, Quiet
<1> QED
  BY <1>5, <1>6, <1>8, <1>9, <1>10 DEF PathInv

\* A status that may be logged for a call.
Truly(c, s) ==
  /\ s = 200 => call[c].status = 200
  /\ s = 403 => ~Reached(c) /\ Decided(c, "deny")

\* The gate is done with a call.
LEMMA LoggedKeeps ==
  ASSUME PathInv, NEW c \in Calls, NEW s \in Statuses, NEW u \in BOOLEAN,
         gate[c] \in {"checking", "forwarding"}, Logged(c, s, u),
         Truly(c, s),
         UNCHANGED <<ledger, authz, decisions, driver, listener, captured>>
  PROVE  PathInv'
<1>1. /\ accesses' = Append(accesses, Access(c, s, u))
      /\ gate' = [gate EXCEPT ![c] = "done"]
  BY DEF Logged
<1>2. Access(c, s, u) \in Accesses /\ Access(c, s, u).call = c /\ Access(c, s, u).status = s
  BY DEF Access, Accesses
<1>3. accesses \in Seq(Accesses)
  BY DEF PathInv, PathTypeOK
<1>4. /\ accesses' \in Seq(Accesses)
      /\ \A i \in 1..Len(accesses) : i \in 1..Len(accesses') /\ accesses'[i] = accesses[i]
      /\ \A i \in 1..Len(accesses') : i \in 1..Len(accesses) \/ accesses'[i] = Access(c, s, u)
      /\ \A d \in Calls : Accessed(d)' <=> Accessed(d) \/ Access(c, s, u).call = d
  BY <1>1, <1>2, <1>3, AccessAppended
<1>5. LedgerInv'
  BY LedgerKeeps
<1>6. /\ gate' \in [Calls -> {"none", "checking", "forwarding", "done"}]
      /\ gate'[c] = "done" /\ \A d \in Calls \ {c} : gate'[d] = gate[d]
  BY <1>1 DEF PathInv, PathTypeOK
<1>7. PathTypeOK'
  BY <1>4, <1>6 DEF PathInv, PathTypeOK
<1>8. \A d \in Calls :
        /\ Reached(d)' = Reached(d) /\ call'[d] = call[d] /\ authz'[d] = authz[d]
        /\ \A o \in Outcomes : Decided(d, o)' = Decided(d, o)
  BY DEF Reached, Decided, ledger
<1>9. ASSUME NEW d \in Calls PROVE Guarded(d)'
  BY <1>2, <1>4, <1>6, <1>8 DEF PathInv, Guarded, Outcomes
<1>10. TrueLog'
  <2> DEFINE True(a) == /\ a.status = 200 => call[a.call].status = 200
                        /\ a.status = 403 => call[a.call] = Unborn /\ Decided(a.call, "deny")
  <2>1. True(Access(c, s, u))
    BY <1>2 DEF Reached, Truly
  <2>2. \A i \in 1..Len(accesses) : True(accesses[i])
    BY DEF PathInv, TrueLog, Reached
  <2>3. \A i \in 1..Len(accesses') : True(accesses'[i])
    BY <1>4, <2>1, <2>2
  <2>4. UNCHANGED <<call, decisions>>
    BY DEF ledger
  <2> QED
    BY <2>3, <2>4 DEF TrueLog, Reached, Decided, Entry
<1>11. DriverHolds'
  BY <1>4 DEF PathInv, DriverHolds
<1>12. Quiet'
  <2>1. listener # "quiet" /\ captured = <<>>
    BY DEF PathInv, Quiet, Busy
  <2>2. UNCHANGED <<driver, listener, captured>> /\ Len(captured) = 0
    BY <2>1
  <2> QED
    BY <2>1, <2>2 DEF PathInv, Quiet
<1> QED
  BY <1>5, <1>7, <1>9, <1>10, <1>11, <1>12 DEF PathInv

\* Envoy lets a call through.
LEMMA PermittedKeeps ==
  ASSUME PathInv, NEW c \in Calls, gate[c] = "checking", Decided(c, "permit"),
         gate' = [gate EXCEPT ![c] = "forwarding"],
         UNCHANGED <<ledger, authz, decisions, accesses, driver, listener, captured>>
  PROVE  PathInv'
<1>1. LedgerInv'
  BY LedgerKeeps
<1>2. /\ gate' \in [Calls -> {"none", "checking", "forwarding", "done"}]
      /\ gate'[c] = "forwarding" /\ \A d \in Calls \ {c} : gate'[d] = gate[d]
  BY DEF PathInv, PathTypeOK
<1>3. PathTypeOK'
  BY <1>2 DEF PathInv, PathTypeOK
<1>4. \A d \in Calls :
        /\ Reached(d)' = Reached(d) /\ call'[d] = call[d] /\ authz'[d] = authz[d]
        /\ Accessed(d)' = Accessed(d)
        /\ \A o \in Outcomes : Decided(d, o)' = Decided(d, o)
  BY DEF Reached, Decided, Accessed, ledger
<1>5. ASSUME NEW d \in Calls PROVE Guarded(d)'
  BY <1>2, <1>4 DEF PathInv, Guarded, Outcomes
<1>6. TrueLog'
  BY LogStays DEF ledger
<1>7. DriverHolds'
  BY HoldsStays
<1>8. Quiet'
  <2>1. listener # "quiet"
    BY DEF PathInv, Quiet, Busy
  <2> QED
    BY <2>1 DEF PathInv, Quiet
<1> QED
  BY <1>1, <1>3, <1>5, <1>6, <1>7, <1>8 DEF PathInv

LEMMA RefusedKeeps ==
  ASSUME PathInv, NEW c \in Calls, NEW u \in BOOLEAN,
         gate[c] \in {"checking", "forwarding"}, Logged(c, 503, u),
         UNCHANGED <<ledger, authz, decisions, driver, listener, captured>>
  PROVE  PathInv'
<1>1. 503 \in Statuses /\ Truly(c, 503)
  BY DEF Statuses, Truly
<1> QED
  BY <1>1, LoggedKeeps

LEMMA DeniedKeeps ==
  ASSUME PathInv, NEW c \in Calls, NEW u \in BOOLEAN,
         gate[c] = "checking", Logged(c, 403, u), Decided(c, "deny"),
         UNCHANGED <<ledger, authz, decisions, driver, listener, captured>>
  PROVE  PathInv'
<1>1. 403 \in Statuses /\ 403 # 200
  BY DEF Statuses
<1>2. ~Reached(c)
  BY DEF PathInv, Guarded
<1>3. gate[c] \in {"checking", "forwarding"} /\ Truly(c, 403)
  BY <1>1, <1>2 DEF Truly
<1> QED
  BY <1>1, <1>3, LoggedKeeps

\* Envoy about a call it asked the authorization service or the target about.
LEMMA GateKeeps ==
  ASSUME PathInv, NEW c \in Calls,
         Checked(c) \/ CheckFails(c) \/ Forwarded(c) \/ ForwardFails(c)
  PROVE  PathInv'
<1>1. TRUE \in BOOLEAN /\ FALSE \in BOOLEAN
  OBVIOUS
<1>2. CASE Checked(c)
  <2>1. /\ gate[c] = "checking" /\ gate[c] \in {"checking", "forwarding"}
        /\ authz[c].at = "answered"
        /\ UNCHANGED <<ledger, authz, decisions, driver, listener, captured>>
    BY <1>2 DEF Checked
  <2>2. authz[c].outcome \in Outcomes
    BY <2>1 DEF PathInv, PathTypeOK, Recording
  <2>3. CASE authz[c].outcome = "permit"
    <3>1. Decided(c, "permit")
      BY <2>1, <2>3 DEF PathInv, Guarded
    <3>2. gate' = [gate EXCEPT ![c] = "forwarding"] /\ UNCHANGED accesses
      BY <1>2, <2>3 DEF Checked
    <3> QED
      BY <2>1, <3>1, <3>2, PermittedKeeps
  <2>4. CASE authz[c].outcome = "deny"
    <3>1. Decided(c, "deny")
      BY <2>1, <2>4 DEF PathInv, Guarded
    <3>2. Logged(c, 403, FALSE)
      BY <1>2, <2>4 DEF Checked
    <3> QED
      BY <1>1, <2>1, <3>1, <3>2, DeniedKeeps
  <2>5. CASE authz[c].outcome = "error"
    <3>1. Logged(c, 503, FALSE)
      BY <1>2, <2>5 DEF Checked
    <3> QED
      BY <1>1, <2>1, <3>1, RefusedKeeps
  <2> QED
    BY <2>2, <2>3, <2>4, <2>5 DEF Outcomes
<1>3. CASE CheckFails(c)
  <2>1. /\ gate[c] \in {"checking", "forwarding"} /\ Logged(c, 503, FALSE)
        /\ UNCHANGED <<ledger, authz, decisions, driver, listener, captured>>
    BY <1>3 DEF CheckFails
  <2> QED
    BY <1>1, <2>1, RefusedKeeps
<1>4. CASE Forwarded(c)
  <2>1. /\ gate[c] = "forwarding" /\ Logged(c, call[c].status, TRUE)
        /\ UNCHANGED <<ledger, authz, decisions, driver, listener, captured>>
    BY <1>4 DEF Forwarded
  <2>2. call[c].status \in Statuses /\ Truly(c, call[c].status)
    BY DEF PathInv, LedgerInv, LedgerTypeOK, Threads, Statuses, Truly
  <2> QED
    BY <2>1, <2>2, LoggedKeeps
<1>5. CASE ForwardFails(c)
  <2>1. /\ gate[c] \in {"checking", "forwarding"} /\ Logged(c, 503, TRUE)
        /\ UNCHANGED <<ledger, authz, decisions, driver, listener, captured>>
    BY <1>5 DEF ForwardFails
  <2> QED
    BY <1>1, <2>1, RefusedKeeps
<1> QED
  BY <1>2, <1>3, <1>4, <1>5

\* The controller drains the listener, inspects the gate and reads the sources.
LEMMA ControllerKeeps ==
  ASSUME PathInv, Drain \/ Inspect \/ Capture
  PROVE  PathInv'
<1>1. UNCHANGED <<ledger, authz, decisions, gate, accesses, driver>>
  BY DEF Drain, Inspect, Capture
<1>2. LedgerInv' /\ CallsGoOn
  BY <1>1, LedgerKeeps
<1>3. DecisionsStay
  BY <1>1 DEF DecisionsStay, Decided
<1>4. (\A d \in Calls : Guarded(d)') /\ TrueLog'
  BY <1>1, <1>2, <1>3, GateStays
<1>5. DriverHolds'
  BY <1>1, HoldsStays
<1>6. captured' \in Seq(Readings) /\ listener' \in {"open", "refusing", "quiet"} /\ Quiet'
  <2>1. captured \in Seq(Readings)
    BY DEF PathInv, PathTypeOK
  <2>2. CASE Drain
    <3>1. captured = <<>>
      BY <2>2 DEF Drain, PathInv, Quiet
    <3> QED
      BY <2>1, <2>2, <3>1 DEF Drain, PathInv, Quiet
  <2>3. CASE Inspect
    <3>1. captured = <<>>
      BY <2>3 DEF Inspect, PathInv, Quiet
    <3> QED
      BY <2>1, <2>3, <3>1 DEF Inspect, PathInv, Quiet, Busy
  <2>4. CASE Capture
    <3> DEFINE next == Sources[Len(captured) + 1]
    <3>1. /\ listener = "quiet" /\ Len(captured) \in {0, 1, 2, 3}
          /\ captured' = Append(captured, next)
      <4>1. Len(captured) \in Nat
        BY <2>1
      <4>2. Len(captured) < 4
        BY <2>4 DEF Capture
      <4> HIDE DEF next
      <4>3. Len(captured) \in {0, 1, 2, 3}
        <5>1. \A n \in Nat : n < 4 => n \in {0, 1, 2, 3}
          OBVIOUS
        <5> QED
          BY <4>1, <4>2, <5>1
      <4>4. listener = "quiet" /\ captured' = Append(captured, next)
        BY <2>4 DEF Capture, next
      <4> QED
        BY <4>3, <4>4
    <3>2. /\ Len(captured) = 0 => next = driver
          /\ Len(captured) = 1 => next = decisions
          /\ Len(captured) = 2 => next = accesses
          /\ Len(captured) = 3 => next = file
      <4>1. ASSUME NEW n \in {0, 1, 2, 3}, Len(captured) = n
            PROVE  next = <<driver, decisions, accesses, file>>[n + 1]
        BY <4>1 DEF Sources
      <4> HIDE DEF next
      <4> QED
        BY <3>1, <4>1
    <3>3. next \in Readings
      <4>1. /\ driver \in Results /\ decisions \in Seq(Entries)
            /\ accesses \in Seq(Accesses) /\ file \in Seq(Chunks)
        BY DEF PathInv, PathTypeOK, LedgerInv, LedgerTypeOK
      <4> HIDE DEF next
      <4> QED
        BY <3>1, <3>2, <4>1 DEF Readings
    <3> HIDE DEF next
    <3>4. /\ captured' \in Seq(Readings) /\ Len(captured') = Len(captured) + 1
          /\ \A i \in 1..Len(captured) : captured'[i] = captured[i]
          /\ captured'[Len(captured) + 1] = next
      BY <2>1, <3>1, <3>3
    <3>5. captured'[1] = driver
      BY <3>1, <3>2, <3>4 DEF PathInv, Quiet
    <3>6. Len(captured') >= 3 => captured'[3] = accesses
      BY <3>1, <3>2, <3>4 DEF PathInv, Quiet
    <3> QED
      BY <1>1, <2>4, <3>1, <3>4, <3>5, <3>6 DEF Capture, PathInv, PathTypeOK, Quiet, Busy
  <2> QED
    BY <2>2, <2>3, <2>4
<1>7. PathTypeOK'
  BY <1>1, <1>6 DEF PathInv, PathTypeOK
<1> QED
  BY <1>2, <1>4, <1>5, <1>6, <1>7 DEF PathInv

LEMMA PathInitially ==
  PathInit => PathInv
<1> SUFFICES ASSUME PathInit PROVE PathInv
  OBVIOUS
<1>1. LedgerInv
  BY LedgerInitially DEF PathInit
<1>2. PathTypeOK
  BY DEF PathInit, PathTypeOK, Result, Results, Statuses
<1>3. decisions = <<>> /\ accesses = <<>> /\ captured = <<>> /\ Len(accesses) = 0
      /\ Len(captured) = 0
  BY DEF PathInit
<1>4. \A c \in Calls : Guarded(c)
  BY <1>3 DEF PathInit, Init, Guarded, Reached, Accessed
<1>5. TrueLog
  BY <1>3 DEF TrueLog
<1>6. DriverHolds
  BY DEF PathInit, DriverHolds, Result
<1>7. Quiet
  BY <1>3 DEF PathInit, Quiet
<1> QED
  BY <1>1, <1>2, <1>4, <1>5, <1>6, <1>7 DEF PathInv

LEMMA PathStays ==
  ASSUME PathInv, UNCHANGED path
  PROVE  PathInv'
<1>1. UNCHANGED <<ledger, authz, decisions, gate, accesses, driver, listener, captured>>
  BY DEF path
<1>2. LedgerInv' /\ CallsGoOn
  BY <1>1, LedgerKeeps
<1>3. DecisionsStay
  BY <1>1 DEF DecisionsStay, Decided
<1>4. (\A d \in Calls : Guarded(d)') /\ TrueLog'
  BY <1>1, <1>2, <1>3, GateStays
<1>5. PathTypeOK'
  BY <1>1 DEF PathInv, PathTypeOK
<1> QED
  BY <1>1, <1>2, <1>4, <1>5, QuietStays, HoldsStays DEF PathInv

\* Of either lab.
LEMMA PathStep ==
  ASSUME PathInv, [SessionNext]_session
  PROVE  PathInv'
<1>1. ASSUME NEW c \in Calls,
             \/ Send(c) \/ (\E o \in Outcomes : Decide(c, o))
             \/ Record(c) \/ RecordFails(c)
             \/ Checked(c) \/ CheckFails(c)
             \/ Forward(c) \/ Forwarded(c) \/ ForwardFails(c)
      PROVE  PathInv'
  BY <1>1, SendKeeps, ThreadKeeps, GateKeeps, TargetKeeps
<1>2. CASE TargetServes
  BY <1>2, TargetKeeps
<1>3. CASE DriverReads \/ DriverGivesUp
  BY <1>3, DriverKeeps
<1>4. CASE CallBreaks
  BY <1>4, DriverKeeps DEF CallBreaks
<1>5. CASE Drain \/ Inspect \/ Capture
  BY <1>5, ControllerKeeps
<1>6. CASE UNCHANGED path
  BY <1>6, PathStays
<1>7. CASE PathNext
  BY <1>1, <1>2, <1>3, <1>5, <1>7 DEF PathNext
<1>8. CASE AttachedNext
  <2>1. CASE Service
    BY <1>1, <1>2, <2>1 DEF Service
  <2>2. CASE DriverSends
    BY <1>1, <2>2, RequestAssumption DEF DriverSends
  <2>3. CASE Attached \/ DriverReturns
    BY <1>6, <2>3 DEF Attached, DriverReturns
  <2>4. CASE DriverHears
    BY <1>3, <2>4 DEF DriverHears
  <2> QED
    BY <1>4, <1>8, <2>1, <2>2, <2>3, <2>4 DEF AttachedNext
<1>9. CASE UNCHANGED session
  BY <1>6, <1>9 DEF session
<1> QED
  BY <1>7, <1>8, <1>9 DEF SessionNext

----------------------------------------------------------------------------
\* Behind a 200 are the permit and the marker, behind a 403 the denial.
LEMMA HoldsIsBacked ==
  PathInv => ToldIsBacked
<1> SUFFICES ASSUME PathInv PROVE ToldIsBacked
  OBVIOUS
<1>1. ASSUME driver.status = 200
      PROVE  Decided(Driver, "permit") /\ Request \in Recorded
  <2>1. PICK i \in 1..Len(accesses) : accesses[i].call = Driver /\ accesses[i].status = 200
    BY <1>1 DEF PathInv, DriverHolds
  <2>2. call[Driver].status = 200
    BY <2>1 DEF PathInv, TrueLog
  <2>3. Reached(Driver)
    BY <2>2 DEF Reached, Unborn
  <2> QED
    BY <2>2, <2>3, RequestAssumption DEF PathInv, Guarded, LedgerInv, Backed
<1>2. ASSUME driver.status = 403
      PROVE  Decided(Driver, "deny") /\ ~Reached(Driver)
  <2>1. PICK i \in 1..Len(accesses) : accesses[i].call = Driver /\ accesses[i].status = 403
    BY <1>2 DEF PathInv, DriverHolds
  <2> QED
    BY <2>1 DEF PathInv, TrueLog
<1> QED
  BY <1>1, <1>2 DEF ToldIsBacked, Decided

\* Once captured, the one access of the log is the driver's, and any call that
\* reached the target has one.
LEMMA JoinedIsTrue ==
  PathInv => JoinsTrue
<1> SUFFICES ASSUME PathInv, NEW o \in {"permit", "deny"}, Joins(o)
             PROVE  /\ o = "permit" => /\ {c \in Calls : Reached(c)} = {Driver}
                                       /\ call[Driver].status = 200
                    /\ o = "deny" => \A c \in Calls : ~Reached(c)
  BY DEF JoinsTrue
<1>1. /\ listener = "quiet" /\ captured[1] = driver /\ captured[3] = accesses
  <2>1. Quiet
    BY DEF PathInv
  <2>2. Len(captured) = 4
    BY DEF Joins
  <2>3. captured # <<>>
    BY <2>2
  <2> QED
    BY <2>1, <2>2, <2>3 DEF Quiet
<1>2. /\ Len(accesses) = 1
      /\ driver = Result("complete", accesses[1].status)
      /\ driver.status = (IF o = "permit" THEN 200 ELSE 403)
  BY <1>1 DEF Joins, Single
<1>3. /\ accesses[1].call = Driver /\ accesses[1].status = driver.status
      /\ 1 \in 1..Len(accesses)
  <2>1. driver.at = "complete"
    BY <1>2 DEF Result
  <2> QED
    BY <1>2, <2>1 DEF PathInv, DriverHolds
<1>4. ASSUME NEW c \in Calls, Reached(c) PROVE c = Driver
  <2>1. gate[c] = "done"
    <3>1. gate[c] \notin {"checking", "forwarding"}
      BY <1>1 DEF PathInv, Quiet, Busy
    <3> QED
      BY <1>4, <3>1 DEF PathInv, Guarded
  <2> QED
    BY <1>2, <1>3, <2>1 DEF PathInv, Guarded, Accessed
<1>5. CASE o = "permit"
  <2>1. call[Driver].status = 200
    <3>1. accesses[1].status = 200
      BY <1>2, <1>3, <1>5
    <3> QED
      BY <1>3, <3>1 DEF PathInv, TrueLog
  <2>2. Reached(Driver)
    BY <2>1 DEF Reached, Unborn
  <2> QED
    BY <1>4, <1>5, <2>1, <2>2, RequestAssumption
<1>6. CASE o = "deny"
  <2>1. ~Reached(Driver)
    <3>1. accesses[1].status = 403
      BY <1>2, <1>3, <1>6
    <3> QED
      BY <1>3, <3>1 DEF PathInv, TrueLog
  <2> QED
    BY <1>4, <1>6, <2>1
<1> QED
  BY <1>5, <1>6

\* Gate, access log, threads and ledgers agree in every reachable state, in
\* both labs.
THEOREM PathInvariant == SessionSpec => []PathInv
<1>1. SessionInit => PathInv
  BY PathInitially DEF SessionInit
<1>2. PathInv /\ [SessionNext]_session => PathInv'
  BY PathStep
<1> QED
  BY <1>1, <1>2, PTL DEF SessionSpec

\* Nothing reaches the target but a call whose permit is written, whatever
\* times out, breaks or is abandoned (handle in ext_authz_http.py and
\* failure_mode_allow in v3b_envoy.py).
THEOREM OnlyPermittedReach == SessionSpec => []ReachedIsPermitted
<1>1. PathInv => ReachedIsPermitted
  BY DEF PathInv, Guarded, ReachedIsPermitted, Decided
<1> QED
  BY <1>1, PathInvariant, PTL

\* Evidence that joins is true, then and ever after (adapt_producer_sources).
THEOREM EvidenceIsTrue == SessionSpec => []JoinsTrue
BY PathInvariant, JoinedIsTrue, PTL

----------------------------------------------------------------------------
(***************************************************************************)
(* The attached session.                                                   *)
(***************************************************************************)
Pieces == [kind : {"ready", "complete", "failure"}, last : BOOLEAN]
OtherPieces == {p \in Pieces : p.kind # "complete"}

Hosts == [at : {"readiness", "ready", "failing", "cancelling", "cleanup", "closing",
                "result", "exiting"} \cup Finished,
          held : {"none", "complete", "failure"}, told : BOOLEAN, open : BOOLEAN]
Containers == [at : {"connecting", "announcing", "waiting", "calling", "telling", "exited"},
               says : {"ready", "complete", "failure"}, wrote : {0, 1, 2},
               code : {0, 1, Broken}]
Inputs == [bytes : {"none", "part", "whole"}, eof : BOOLEAN]

ChannelTypeOK ==
  /\ host \in Hosts /\ container \in Containers /\ stdin \in Inputs
  /\ stdout \in Seq(Pieces) /\ pending \in Seq(Pieces)

\* A driver has an instruction, calls or called only when it was told.
DriverTold ==
  /\ stdin.bytes = "whole" => host.told
  /\ container.at \in {"calling", "telling"} => host.told
  /\ gate[Driver] # "none" => host.told

\* The record of an answer comes from a driver that has it, and a client that
\* ended well from a driver that did.
AnswerTold ==
  /\ container.says = "complete" => driver.at = "complete"
  /\ container.says # "complete" => stdout \in Seq(OtherPieces) /\ pending \in Seq(OtherPieces)
  /\ host.held = "complete" => container.says = "complete"
  /\ client = <<0>> => container.at = "exited" /\ container.code = 0
  /\ host.at = "attested" /\ host.held = "complete" =>
       container.at = "exited" /\ container.code = 0

ChannelInv == ChannelTypeOK /\ (lab = "v3b1" => DriverTold /\ AnswerTold)

----------------------------------------------------------------------------
LEMMA PieceWritten ==
  ASSUME NEW k \in {"ready", "complete", "failure"}, NEW n \in Nat, NEW w \in Nat
  PROVE  /\ [i \in 1..n |-> Piece(k, w + i = 2)] \in Seq(Pieces)
         /\ k # "complete" => [i \in 1..n |-> Piece(k, w + i = 2)] \in Seq(OtherPieces)
<1>1. \A i \in 1..n : Piece(k, w + i = 2) \in Pieces /\ Piece(k, w + i = 2).kind = k
  BY DEF Piece, Pieces
<1> QED
  BY <1>1 DEF OtherPieces

\* The driver writes, hears and ends: what it says changes only when its call
\* is over.
LEMMA ContainerKeeps ==
  ASSUME ChannelInv, lab = "v3b1", UNCHANGED <<path, lab>>,
         Connect \/ WriteRecord \/ ReadInstruction \/ DriverReturns
  PROVE  ChannelInv'
<1> USE DEF Broken
<1>1. /\ UNCHANGED <<host, client, pending, stdin, gate, driver>>
      /\ container.at # "exited"
  BY DEF Connect, WriteRecord, ReadInstruction, DriverReturns, Returns, ContainerStep, path
<1>2. ChannelTypeOK /\ DriverTold /\ AnswerTold
  BY DEF ChannelInv
<1>3. /\ container' \in Containers /\ stdout' \in Seq(Pieces)
      /\ container'.at \in {"calling", "telling"} => host.told
      /\ container.says = "complete" => container'.says = "complete"
      /\ container'.says = "complete" => driver.at = "complete"
      /\ container'.says # "complete" => stdout' \in Seq(OtherPieces)
  <2>0. /\ container \in Containers /\ stdout \in Seq(Pieces)
        /\ stdin.bytes = "whole" => host.told
        /\ container.at \in {"calling", "telling"} => host.told
        /\ container.says = "complete" => driver.at = "complete"
        /\ container.says # "complete" => stdout \in Seq(OtherPieces)
    BY <1>2 DEF ChannelTypeOK, DriverTold, AnswerTold
  <2>9. /\ Exited(0) \in Containers /\ Exited(0).says = container.says
        /\ Exited(0).at = "exited"
        /\ Exited(1) \in Containers /\ Exited(1).says = container.says
        /\ Exited(1).at = "exited"
    BY <2>0 DEF Exited, Containers
  <2>1. CASE Connect
    <3>1. [container EXCEPT !.at = "announcing"] \in Containers
      BY <2>0 DEF Containers
    <3>2. /\ stdout' = stdout
          /\ container' \in {[container EXCEPT !.at = "announcing"], Exited(1)}
      BY <2>1 DEF Connect
    <3>3. [container EXCEPT !.at = "announcing"].at = "announcing"
          /\ [container EXCEPT !.at = "announcing"].says = container.says
      BY <2>0 DEF Containers
    <3> QED
      BY <2>0, <2>9, <3>1, <3>2, <3>3
  <2>2. CASE ReadInstruction
    <3>1. /\ [container EXCEPT !.at = "calling"] \in Containers
          /\ [container EXCEPT !.at = "calling"].says = container.says
      BY <2>0 DEF Containers
    <3>2. /\ stdout' = stdout
          /\ \/ container' = [container EXCEPT !.at = "calling"] /\ stdin.bytes = "whole"
             \/ container' \in {Exited(0), Exited(1)}
      BY <2>2 DEF ReadInstruction
    <3> QED
      BY <2>0, <2>9, <3>1, <3>2
  <2>3. CASE DriverReturns
    <3> DEFINE kind == IF driver.at = "complete" THEN "complete" ELSE "failure"
               next == [container EXCEPT !.at = "telling", !.says = kind, !.wrote = 0]
    <3>1. next \in Containers /\ next.says = kind /\ next.at = "telling"
      BY <2>0 DEF Containers
    <3>2. container' = next /\ stdout' = stdout /\ container.at = "calling"
      BY <2>3 DEF DriverReturns, Returns
    <3>3. container.says # "complete" \/ driver.at = "complete"
      BY <2>0
    <3>4. container.says = "complete" => container'.says = "complete"
      BY <3>1, <3>2, <3>3
    <3>5. container'.says # "complete" => stdout' \in Seq(OtherPieces)
      BY <2>0, <3>1, <3>2, <3>4
    <3> HIDE DEF next
    <3> QED
      BY <2>0, <3>1, <3>2, <3>4, <3>5
  <2>4. CASE WriteRecord
    <3>1. ASSUME NEW n \in 1..(2 - container.wrote),
                 stdout' = stdout \o [i \in 1..n |->
                             Piece(container.says, container.wrote + i = 2)]
          PROVE  /\ stdout' \in Seq(Pieces)
                 /\ container.says # "complete" => stdout' \in Seq(OtherPieces)
      <4>1. /\ n \in Nat /\ container.wrote \in Nat
            /\ container.says \in {"ready", "complete", "failure"}
        BY <1>2 DEF ChannelTypeOK, Containers
      <4> DEFINE more == [i \in 1..n |-> Piece(container.says, container.wrote + i = 2)]
      <4>2. /\ more \in Seq(Pieces)
            /\ container.says # "complete" => more \in Seq(OtherPieces)
        BY <4>1, PieceWritten
      <4>3. stdout' = stdout \o more
        BY <3>1
      <4> HIDE DEF more
      <4> QED
        BY <1>2, <4>2, <4>3, ConcatProperties DEF ChannelTypeOK, AnswerTold
    <3>2. /\ container'.says = container.says
          /\ container'.at \in {"waiting", "exited", container.at}
          /\ container' \in Containers
      <4>1. container \in Containers /\ container.wrote \in Nat
        BY <1>2 DEF ChannelTypeOK, Containers
      <4>2. CASE container' = Exited(1)
        BY <4>1, <4>2 DEF Exited, Containers
      <4>3. ASSUME NEW n \in 1..(2 - container.wrote),
                   LET wrote == container.wrote + n
                       written == [container EXCEPT !.wrote = wrote]
                   IN container' =
                        IF wrote < 2 THEN written
                        ELSE IF container.says = "ready"
                          THEN [written EXCEPT !.at = "waiting"]
                          ELSE [written EXCEPT !.at = "exited",
                                  !.code = IF container.says = "complete" THEN 0 ELSE 1]
            PROVE  /\ container'.says = container.says
                   /\ container'.at \in {"waiting", "exited", container.at}
                   /\ container' \in Containers
        <5> DEFINE w == container.wrote + n
                   written == [container EXCEPT !.wrote = w]
        <5>1. w \in {1, 2}
          BY <4>1, <4>3 DEF Containers
        <5>2. written \in Containers /\ written.says = container.says
              /\ written.at = container.at
          BY <4>1, <5>1 DEF Containers
        <5>3. container' \in {written, [written EXCEPT !.at = "waiting"],
                              [written EXCEPT !.at = "exited", !.code = 0],
                              [written EXCEPT !.at = "exited", !.code = 1]}
          BY <4>3
        <5> HIDE DEF written
        <5>4. /\ [written EXCEPT !.at = "waiting"] \in Containers
              /\ [written EXCEPT !.at = "waiting"].says = container.says
              /\ [written EXCEPT !.at = "waiting"].at = "waiting"
          BY <5>2 DEF Containers
        <5>5. ASSUME NEW code \in {0, 1}
              PROVE  /\ [written EXCEPT !.at = "exited", !.code = code] \in Containers
                     /\ [written EXCEPT !.at = "exited", !.code = code].says = container.says
                     /\ [written EXCEPT !.at = "exited", !.code = code].at = "exited"
          BY <5>2 DEF Containers
        <5> QED
          BY <5>2, <5>3, <5>4, <5>5
      <4> QED
        BY <2>4, <4>2, <4>3 DEF WriteRecord
    <3>3. /\ stdout' \in Seq(Pieces)
          /\ container.says # "complete" => stdout' \in Seq(OtherPieces)
      <4>1. CASE UNCHANGED stdout
        BY <1>2, <4>1 DEF ChannelTypeOK, AnswerTold
      <4> QED
        BY <2>4, <3>1, <4>1 DEF WriteRecord
    <3> QED
      BY <1>2, <3>2, <3>3 DEF AnswerTold, DriverTold
  <2> QED
    BY <2>1, <2>2, <2>3, <2>4
<1>4. ChannelTypeOK'
  BY <1>1, <1>2, <1>3 DEF ChannelTypeOK
<1>5. DriverTold'
  BY <1>1, <1>2, <1>3 DEF DriverTold
<1>6. AnswerTold'
  BY <1>1, <1>2, <1>3 DEF AnswerTold
<1> QED
  BY <1>4, <1>5, <1>6 DEF ChannelInv

\* The docker client and the clock.
LEMMA DockerKeeps ==
  ASSUME ChannelInv, lab = "v3b1", UNCHANGED <<path, lab>>, Docker \/ Expire
  PROVE  ChannelInv'
<1> USE DEF Broken
<1>1. UNCHANGED <<host, stdout, pending, container, gate, driver>>
  BY DEF Docker, ClientEnds, ClientBreaks, Detach, Expire, path
<1>2. ChannelTypeOK /\ DriverTold /\ AnswerTold
  BY DEF ChannelInv
<1>3. \A b \in Arrive : b \in {"none", "part", "whole"}
                        /\ (b = "whole" => stdin.bytes = "whole")
  BY <1>2 DEF Arrive, ChannelTypeOK, Inputs
<1>4. stdin' \in Inputs /\ (stdin'.bytes = "whole" => stdin.bytes = "whole")
  BY <1>2, <1>3 DEF Docker, ClientEnds, ClientBreaks, Detach, Expire, ChannelTypeOK, Inputs
<1>5. client' = <<0>> => container.at = "exited" /\ container.code = 0
  BY <1>2 DEF Docker, ClientEnds, ClientBreaks, Detach, Expire, AnswerTold
<1> QED
  BY <1>1, <1>2, <1>4, <1>5 DEF ChannelInv, ChannelTypeOK, DriverTold, AnswerTold

\* The least of a set of numbers: < is well-founded.
Below == {p \in Nat \X Nat : p[1] < p[2]}

LEMMA LeastOf ==
  ASSUME NEW T \in SUBSET Nat, T # {}
  PROVE  \E i \in T : \A j \in T : i <= j
<1>1. IsWellFoundedOn(Below, Nat)
  BY NatLessThanWellFounded DEF OpToRel, Below
<1>2. PICK i \in T : \A j \in T : ~ (<<j, i>> \in Below)
  BY <1>1, WFMin
<1>3. \A j \in T : ~(j < i)
  BY <1>2 DEF Below
<1> QED
  BY <1>3

\* A line is cut at a piece of what was read.
LEMMA LineIsRead ==
  ASSUME pending \in Seq(Pieces), Ends(pending) # {}
  PROVE  LineEnd \in 1..Len(pending)
<1>1. Ends(pending) \in SUBSET Nat /\ Ends(pending) \subseteq 1..Len(pending)
  BY DEF Ends
<1>2. \E i \in Ends(pending) : \A j \in Ends(pending) : i <= j
  BY <1>1, LeastOf
<1>3. LineEnd \in Ends(pending)
  BY <1>2 DEF LineEnd
<1> QED
  BY <1>1, <1>3

LEMMA Taken ==
  ASSUME NEW S, NEW s \in Seq(S), NEW n \in 1..Len(s)
  PROVE  SubSeq(s, 1, n) \in Seq(S) /\ SubSeq(s, n + 1, Len(s)) \in Seq(S)
<1>1. Len(s) \in Nat /\ \A i \in 1..Len(s) : s[i] \in S
  OBVIOUS
<1>2. \A i \in 1..n : s[i] \in S
  BY <1>1
<1>3. \A i \in n + 1..Len(s) : s[i] \in S
  BY <1>1
<1>4. 1 \in Int /\ n \in Int /\ n + 1 \in Int /\ Len(s) \in Int
  BY <1>1
<1> QED
  BY <1>2, <1>3, <1>4, SubSeqProperties

\* The session: that the driver was told stays, and what it holds it has read.
LEMMA HostKeeps ==
  ASSUME ChannelInv, lab = "v3b1", UNCHANGED <<path, lab>>,
         ReadMore \/ ReadLine \/ Cancel \/ Deliver \/ CloseBehind \/ Attest
  PROVE  ChannelInv'
<1>1. UNCHANGED <<client, container, gate, driver>>
  BY DEF ReadMore, ReadLine, Cancel, Deliver, CloseBehind, Attest, Silent, HostStep, path
<1>2. ChannelTypeOK /\ DriverTold /\ AnswerTold
  BY DEF ChannelInv
<1>3. host \in Hosts /\ stdin \in Inputs /\ stdout \in Seq(Pieces) /\ pending \in Seq(Pieces)
  BY <1>2 DEF ChannelTypeOK
<1>4. ASSUME NEW a \in {"readiness", "ready", "failing", "cancelling", "cleanup", "closing",
                        "result", "exiting"} \cup Finished, To(a)
      PROVE  host' \in Hosts /\ host'.held = host.held /\ host'.told = host.told /\ host'.at = a
  BY <1>3, <1>4 DEF To, Hosts
<1>5. Fails => /\ host' \in Hosts /\ host'.held = host.held /\ host'.told = host.told
               /\ host'.at \in {"cleanup", "failing"}
  BY <1>3 DEF Fails, To, Hosts
<1>6. /\ host' \in Hosts /\ stdin' \in Inputs
      /\ stdout' \in Seq(Pieces) /\ pending' \in Seq(Pieces)
      /\ host.told => host'.told
      /\ stdin'.bytes = "whole" => stdin.bytes = "whole" \/ host'.told
      /\ stdout \in Seq(OtherPieces) /\ pending \in Seq(OtherPieces) =>
           stdout' \in Seq(OtherPieces) /\ pending' \in Seq(OtherPieces)
      /\ host'.held = "complete" => host.held = "complete" \/ container.says = "complete"
      /\ host'.at = "attested" /\ host'.held = "complete" => client = <<0>>
  <2>1. CASE ReadMore
    <3>1. /\ UNCHANGED stdin
          /\ \/ UNCHANGED host
             \/ Fails
      BY <2>1 DEF ReadMore
    <3>2. /\ host' \in Hosts /\ host'.told = host.told /\ host'.held = host.held
          /\ host'.at # "attested"
      BY <1>3, <1>5, <2>1, <3>1 DEF ReadMore
    <3>3. ASSUME NEW n \in 1..Len(stdout),
                 pending' = pending \o SubSeq(stdout, 1, n),
                 stdout' = SubSeq(stdout, n + 1, Len(stdout)),
                 NEW S, stdout \in Seq(S), pending \in Seq(S)
          PROVE  stdout' \in Seq(S) /\ pending' \in Seq(S)
      BY <3>3, Taken, ConcatProperties
    <3>4. \/ UNCHANGED <<pending, stdout>>
          \/ \E n \in 1..Len(stdout) :
               /\ pending' = pending \o SubSeq(stdout, 1, n)
               /\ stdout' = SubSeq(stdout, n + 1, Len(stdout))
      BY <2>1 DEF ReadMore
    <3> QED
      BY <1>3, <3>1, <3>2, <3>3, <3>4
  <2>2. CASE ReadLine
    <3> DEFINE kind == pending[LineEnd].kind
    <3>1. LineEnd \in 1..Len(pending)
      BY <1>3, <2>2, LineIsRead DEF ReadLine
    <3>2. /\ UNCHANGED <<stdin, stdout>>
          /\ pending' = SubSeq(pending, LineEnd + 1, Len(pending))
          /\ host.at \in {"readiness", "result"}
          /\ \/ Fails
             \/ host.at = "readiness" /\ To("ready")
             \/ /\ kind \in {"complete", "failure"}
                /\ host' = [host EXCEPT !.at = "exiting", !.held = kind]
      BY <2>2 DEF ReadLine, Silent, Expected
    <3>3. pending' \in Seq(Pieces) /\ (pending \in Seq(OtherPieces) => pending' \in Seq(OtherPieces))
      BY <1>3, <3>1, <3>2, Taken
    <3>4. kind = "complete" => container.says = "complete"
      <4>1. ASSUME pending \in Seq(OtherPieces) PROVE pending[LineEnd] \in OtherPieces
        BY <3>1, <4>1
      <4> QED
        BY <1>2, <4>1 DEF AnswerTold, OtherPieces
    <3>5. /\ host' \in Hosts /\ host'.told = host.told /\ host'.at # "attested"
          /\ host'.held \in {host.held, kind}
      <4> HIDE DEF kind
      <4>1. CASE /\ kind \in {"complete", "failure"}
                 /\ host' = [host EXCEPT !.at = "exiting", !.held = kind]
        BY <1>3, <4>1 DEF Hosts
      <4> QED
        BY <1>4, <1>5, <3>2, <4>1
    <3> HIDE DEF kind
    <3> QED
      BY <1>3, <3>2, <3>3, <3>4, <3>5
  <2>3. CASE Cancel
    <3>1. UNCHANGED <<stdout, pending>>
      BY <2>3 DEF Cancel
    <3>2. CASE /\ host' = [host EXCEPT !.at = "cancelling", !.open = FALSE]
               /\ stdin' = [stdin EXCEPT !.eof = TRUE]
      BY <1>3, <3>1, <3>2 DEF Hosts, Inputs
    <3>3. CASE To("cleanup") /\ UNCHANGED stdin
      BY <1>3, <1>4, <3>1, <3>3
    <3> QED
      BY <2>3, <3>2, <3>3 DEF Cancel
  <2>4. CASE Deliver
    <3>1. /\ host' \in Hosts /\ host'.told /\ host'.held = host.held /\ host'.at # "attested"
      BY <1>3, <2>4 DEF Deliver, Written, Hosts
    <3>2. stdin' \in Inputs /\ UNCHANGED <<stdout, pending>>
      BY <1>3, <2>4 DEF Deliver, Written, Inputs
    <3> QED
      BY <1>3, <3>1, <3>2
  <2>5. CASE CloseBehind
    BY <1>3, <1>5, <2>5 DEF CloseBehind, Hosts, Inputs
  <2>6. CASE Attest
    <3>1. UNCHANGED <<stdin, stdout, pending>>
      BY <2>6 DEF Attest, Silent
    <3>2. \/ To("cleanup")
          \/ /\ To("attested") \/ To("cancelled")
             /\ host.held # "failure" => client = <<0>>
      BY <2>6 DEF Attest
    <3> QED
      BY <1>3, <1>4, <3>1, <3>2 DEF Finished
  <2> QED
    BY <2>1, <2>2, <2>3, <2>4, <2>5, <2>6
<1>7. ChannelTypeOK'
  BY <1>1, <1>2, <1>6 DEF ChannelTypeOK
<1>8. DriverTold'
  BY <1>1, <1>2, <1>6 DEF DriverTold
<1>9. AnswerTold'
  BY <1>1, <1>2, <1>6 DEF AnswerTold
<1> QED
  BY <1>7, <1>8, <1>9 DEF ChannelInv

\* Cleaning up, the session may stop a container that was not told and has not
\* ended.
LEMMA CleanUpKeeps ==
  ASSUME ChannelInv, lab = "v3b1", UNCHANGED <<path, lab>>, CleanUp
  PROVE  ChannelInv'
<1> USE DEF Broken
<1>1. UNCHANGED <<stdout, pending, gate, driver>>
  BY DEF CleanUp, path
<1>2. ChannelTypeOK /\ DriverTold /\ AnswerTold
  BY DEF ChannelInv
<1>3. /\ host' \in Hosts /\ host'.held = host.held /\ host'.told = host.told
      /\ host'.at # "attested"
  BY <1>2 DEF CleanUp, To, ChannelTypeOK, Hosts, Finished
<1>4. client' \in {client, <<Broken>>}
  BY DEF CleanUp
<1>5. \A b \in Arrive : b \in {"none", "part", "whole"}
                        /\ (b = "whole" => stdin.bytes = "whole")
  BY <1>2 DEF Arrive, ChannelTypeOK, Inputs
<1>6. /\ stdin' \in Inputs
      /\ stdin'.bytes = "whole" => stdin.bytes = "whole"
      /\ \/ UNCHANGED container
         \/ container.at # "exited" /\ container' = Exited(Broken)
  <2>1. stdin \in Inputs
    BY <1>2 DEF ChannelTypeOK
  <2>2. CASE UNCHANGED stdin /\ container.at # "exited" /\ container' = Exited(Broken)
    BY <2>1, <2>2
  <2>3. ASSUME NEW b \in Arrive, NEW eof \in {stdin.eof, TRUE},
               stdin' = [bytes |-> b, eof |-> eof]
        PROVE  stdin' \in Inputs /\ (stdin'.bytes = "whole" => stdin.bytes = "whole")
    BY <1>5, <2>1, <2>3 DEF Inputs
  <2> QED
    BY <2>2, <2>3 DEF CleanUp
<1>7. /\ container' \in Containers /\ container'.says = container.says
      /\ container'.at \in {"exited", container.at}
      /\ container.at = "exited" => UNCHANGED container
  <2>1. container \in Containers
    BY <1>2 DEF ChannelTypeOK
  <2>2. /\ Exited(Broken) \in Containers /\ Exited(Broken).says = container.says
        /\ Exited(Broken).at = "exited"
    BY <2>1 DEF Exited, Containers
  <2> QED
    BY <1>6, <2>1, <2>2
<1>8. client' = <<0>> => client = <<0>>
  BY <1>4
<1>9. ChannelTypeOK'
  BY <1>1, <1>2, <1>3, <1>6, <1>7 DEF ChannelTypeOK
<1>10. DriverTold'
  BY <1>1, <1>2, <1>3, <1>6, <1>7 DEF DriverTold
<1>11. AnswerTold'
  BY <1>1, <1>2, <1>3, <1>7, <1>8 DEF AnswerTold
<1> QED
  BY <1>9, <1>10, <1>11 DEF ChannelInv

\* The path of the driver's call: it is sent by a driver that was told, and an
\* answer it has stays.
LEMMA PathLeaves ==
  ASSUME ChannelInv, PathInv, lab = "v3b1", UNCHANGED lab,
         Service \/ DriverSends \/ CallBreaks \/ DriverHears
  PROVE  ChannelInv'
<1>1. UNCHANGED <<host, client, stdin, stdout, pending, container>>
  BY DEF Service, DriverSends, CallBreaks, DriverHears, channel
<1>2. ChannelTypeOK /\ DriverTold /\ AnswerTold
  BY DEF ChannelInv
<1>3. gate \in [Calls -> {"none", "checking", "forwarding", "done"}] /\ Driver \in Calls
  BY RequestAssumption DEF PathInv, PathTypeOK
<1>4. /\ gate'[Driver] # "none" => gate[Driver] # "none" \/ container.at = "calling"
      /\ driver.at = "complete" => driver' = driver
  <2>1. CASE Service
    <3>1. ASSUME NEW c \in Calls, c # Driver, Send(c)
          PROVE  gate'[Driver] = gate[Driver] /\ UNCHANGED driver
      BY <1>3, <3>1 DEF Send
    <3>2. ASSUME NEW c \in Calls,
                 \/ (\E o \in Outcomes : Decide(c, o)) \/ Record(c) \/ RecordFails(c)
                 \/ Forward(c) \/ TargetServes
          PROVE  UNCHANGED <<gate, driver>>
      BY <3>2 DEF Decide, Record, RecordFails, Forward, TargetServes
    <3>3. ASSUME NEW c \in Calls,
                 Checked(c) \/ CheckFails(c) \/ Forwarded(c) \/ ForwardFails(c)
          PROVE  /\ gate[c] # "none" /\ UNCHANGED driver
                 /\ \E v \in {"forwarding", "done"} : gate' = [gate EXCEPT ![c] = v]
      BY <3>3 DEF Checked, CheckFails, Forwarded, ForwardFails, Logged
    <3>4. ASSUME NEW c \in Calls, NEW v, gate[c] # "none", gate' = [gate EXCEPT ![c] = v]
          PROVE  gate'[Driver] # "none" => gate[Driver] # "none"
      BY <1>3, <3>4
    <3>5. CASE TargetServes
      BY <3>5 DEF TargetServes
    <3> QED
      BY <2>1, <3>1, <3>2, <3>3, <3>4, <3>5 DEF Service
  <2>2. CASE DriverSends
    BY <2>2 DEF DriverSends
  <2>3. CASE CallBreaks
    BY <2>3 DEF CallBreaks
  <2>4. CASE DriverHears
    BY <2>4 DEF DriverHears, DriverReads, DriverGivesUp
  <2> QED
    BY <2>1, <2>2, <2>3, <2>4
<1>5. ChannelTypeOK'
  BY <1>1, <1>2 DEF ChannelTypeOK
<1>6. DriverTold'
  BY <1>1, <1>2, <1>4 DEF DriverTold
<1>7. AnswerTold'
  BY <1>1, <1>2, <1>4 DEF AnswerTold
<1> QED
  BY <1>5, <1>6, <1>7 DEF ChannelInv

----------------------------------------------------------------------------
LEMMA ChannelInitially ==
  SessionInit => ChannelInv
<1> SUFFICES ASSUME SessionInit PROVE ChannelInv
  OBVIOUS
<1> USE DEF Broken
<1>1. ChannelInit /\ gate[Driver] = "none"
  BY RequestAssumption DEF SessionInit, PathInit
<1>2. ChannelTypeOK
  BY <1>1 DEF ChannelInit, ChannelTypeOK, Hosts, Containers, Inputs
<1>3. DriverTold
  BY <1>1 DEF ChannelInit, DriverTold
<1>4. AnswerTold
  BY <1>1 DEF ChannelInit, AnswerTold
<1> QED
  BY <1>2, <1>3, <1>4 DEF ChannelInv

LEMMA ChannelStays ==
  ASSUME ChannelInv, UNCHANGED <<channel, lab>>, lab = "v3b1" => UNCHANGED path
  PROVE  ChannelInv'
<1>1. UNCHANGED <<host, client, stdin, stdout, pending, container, lab>>
  BY DEF channel
<1>2. ChannelTypeOK'
  BY <1>1 DEF ChannelInv, ChannelTypeOK
<1>3. ASSUME lab = "v3b1" PROVE DriverTold' /\ AnswerTold'
  BY <1>1, <1>3 DEF ChannelInv, DriverTold, AnswerTold, path
<1> QED
  BY <1>1, <1>2, <1>3 DEF ChannelInv

LEMMA ChannelStep ==
  ASSUME PathInv, ChannelInv, [SessionNext]_session
  PROVE  ChannelInv'
<1>1. CASE UNCHANGED session
  BY <1>1, ChannelStays DEF session
<1>2. CASE lab = "v3b2" /\ UNCHANGED channel /\ UNCHANGED lab
  BY <1>2, ChannelStays
<1>3. CASE lab = "v3b1" /\ AttachedNext /\ UNCHANGED lab
  <2>1. CASE Service \/ DriverSends \/ CallBreaks \/ DriverHears
    BY <1>3, <2>1, PathLeaves
  <2>2. CASE DriverReturns
    BY <1>3, <2>2, ContainerKeeps DEF DriverReturns
  <2>3. CASE Attached
    <3>1. UNCHANGED path
      BY <2>3 DEF Attached
    <3> QED
      BY <1>3, <2>3, <3>1, ContainerKeeps, DockerKeeps, HostKeeps, CleanUpKeeps
         DEF Attached, Session
  <2> QED
    BY <1>3, <2>1, <2>2, <2>3 DEF AttachedNext
<1> QED
  BY <1>1, <1>2, <1>3 DEF SessionNext

\* So do the two ends of the driver's channel.
THEOREM SessionInvariant == SessionSpec => [](PathInv /\ ChannelInv)
<1>1. SessionInit => PathInv /\ ChannelInv
  BY PathInitially, ChannelInitially DEF SessionInit
<1>2. (PathInv /\ ChannelInv) /\ [SessionNext]_session => (PathInv /\ ChannelInv)'
  BY PathStep, ChannelStep
<1> QED
  BY <1>1, <1>2, PTL DEF SessionSpec

\* What is believed of the call is so: a driver that was not told never sends,
\* an attested result is the driver's own, and what it read is in the ledgers
\* (run in v3b1_local_envoy.py, perform_one_request).
THEOREM BeliefIsTrue == SessionSpec => []BeliefIsBacked
<1>1. PathInv /\ ChannelInv => BeliefIsBacked
  <2>1. PathInv => ToldIsBacked
    BY HoldsIsBacked
  <2>2. ChannelInv /\ lab = "v3b1" =>
          /\ ~host.told => gate[Driver] = "none"
          /\ host.at = "attested" /\ host.held = "complete" =>
               driver.at = "complete" /\ container.code = 0
    BY DEF ChannelInv, DriverTold, AnswerTold
  <2> QED
    BY <2>1, <2>2 DEF BeliefIsBacked
<1> QED
  BY <1>1, SessionInvariant, PTL
=============================================================================
