----------------------- MODULE V3B2PublicationProofs -----------------------
(***************************************************************************)
(* What a reader of a published bundle may believe, for any tracks, any    *)
(* contract, any bundles and any number of replaced or removed files.      *)
(*                                                                         *)
(* The argument for AcceptedStood: an identity is never used twice for one *)
(* name (Fresh), so a file that still has the identity it was read under   *)
(* still has the bytes that were read (ReadBytes).  `moment` is the        *)
(* directory at the second listing; a file that differs from it now has an *)
(* identity no file had then (SinceListing).  So a file found unchanged    *)
(* when it is looked at again was unchanged at that moment (LookedAgain).  *)
(*                                                                         *)
(* PreparedIsPublished is about two programs: each check of the verifier   *)
(* is derived from what the builder established (BuildersVerify).          *)
(***************************************************************************)
EXTENDS V3B2Publication, TLAPS

Ended == {"judging", "accepted"}
Phases == {"idle", "reading", "listing", "closing", "refused"} \cup Ended
Listed == {"closing"} \cup Ended

ReaderIsRecord ==
  /\ reader = [at |-> reader.at, mode |-> reader.mode, next |-> reader.next,
               got |-> reader.got, moment |-> reader.moment]
  /\ reader.at \in Phases
  /\ reader.next \in 1..8
  /\ DOMAIN reader.got \subseteq PublicFiles
  /\ faults \in Nat
  /\ Present \subseteq PublicFiles

Unopened == outcome # "published" => reader = Idle

ReadSoFar ==
  /\ reader.at = "idle" => reader = Idle
  /\ reader.at = "reading" =>
       DOMAIN reader.got = {Order[i] : i \in 1..(reader.next - 1)}
  /\ reader.at = "listing" => reader.next = 1
  /\ reader.at \in {"listing"} \cup Listed => DOMAIN reader.got = PublicFiles

Fresh ==
  /\ \A f \in Present : tree[f].identity \in 0..faults
  /\ \A f \in DOMAIN reader.got : reader.got[f].identity \in 0..faults

ReadBytes ==
  \A f \in DOMAIN reader.got :
    f \in Present /\ tree[f].identity = reader.got[f].identity =>
      tree[f].bytes = reader.got[f].bytes

SinceListing ==
  reader.at \in Listed =>
    /\ DOMAIN reader.moment = PublicFiles
    /\ \A f \in Present :
         \/ tree[f].bytes = reader.moment[f].bytes
         \/ tree[f].identity > reader.got[f].identity

LookedAgain ==
  /\ reader.at = "closing" =>
       \A i \in 1..(reader.next - 1) :
         reader.got[Order[i]].bytes = reader.moment[Order[i]].bytes
  /\ reader.at \in Ended =>
       \A f \in PublicFiles : reader.got[f].bytes = reader.moment[f].bytes

Judged ==
  reader.at = "accepted" =>
    /\ Verifies(Payloads)
    /\ reader.mode = "identity" => Payloads = prepared[1]

PInv ==
  /\ ReaderIsRecord /\ Unopened /\ ReadSoFar /\ Fresh
  /\ ReadBytes /\ SinceListing /\ LookedAgain /\ Judged

----------------------------------------------------------------------------
LEMMA OrderCovers ==
  /\ \A i \in 1..8 : Order[i] \in PublicFiles
  /\ \A f \in PublicFiles : \E i \in 1..8 : f = Order[i]
BY OrderAssumption

LEMMA Initially == Init => PInv
<1> SUFFICES ASSUME Init PROVE PInv
  OBVIOUS
<1>1. reader = Idle /\ faults = 0
  BY DEF Init
<1>2. Present \subseteq PublicFiles /\ \A f \in Present : tree[f].identity = 0
  BY DEF Init, Present, NoTree, Placed
<1>3. DOMAIN reader.got = {}
  BY <1>1 DEF Idle, NoTree
<1>4. ReaderIsRecord
  BY <1>1, <1>2, <1>3 DEF ReaderIsRecord, Idle, Phases
<1>5. Unopened /\ ReadSoFar /\ SinceListing /\ LookedAgain /\ Judged
  BY <1>1 DEF Unopened, ReadSoFar, SinceListing, LookedAgain, Judged, Idle, Listed, Ended
<1>6. Fresh /\ ReadBytes
  BY <1>1, <1>2, <1>3 DEF Fresh, ReadBytes
<1> QED BY <1>4, <1>5, <1>6 DEF PInv

\* A step that leaves reader, tree and faults alone keeps all but Unopened
\* and Judged.
LEMMA Preparing == PInv /\ Prepare => PInv'
<1> SUFFICES ASSUME PInv, Prepare PROVE PInv'
  OBVIOUS
<1>1. UNCHANGED <<tree, faults, reader>> /\ outcome # "published"
  BY DEF Prepare
<1>2. reader = Idle
  BY <1>1 DEF PInv, Unopened
<1>3. ReaderIsRecord' /\ ReadSoFar' /\ Fresh' /\ ReadBytes' /\ SinceListing' /\ LookedAgain'
  BY <1>1 DEF PInv, ReaderIsRecord, ReadSoFar, Fresh, ReadBytes, SinceListing, LookedAgain, Present
<1>4. Unopened' /\ Judged'
  BY <1>1, <1>2 DEF Unopened, Judged, Idle
<1> QED BY <1>3, <1>4 DEF PInv

LEMMA Publishing == PInv /\ Publish => PInv'
<1> SUFFICES ASSUME PInv, Publish PROVE PInv'
  OBVIOUS
<1>1. reader' = Idle /\ faults' = faults /\ faults \in Nat
  BY DEF Publish, PInv, Unopened, ReaderIsRecord
<1>2. DOMAIN tree' \subseteq PublicFiles
      /\ \A f \in DOMAIN tree' : tree'[f].identity \in 0..faults
  <2>1. tree' = tree \/ tree' = Placed(prepared[1])
    BY DEF Publish
  <2>2. CASE tree' = tree
    BY <2>2 DEF PInv, ReaderIsRecord, Fresh, Present
  <2>3. CASE tree' = Placed(prepared[1])
    BY <2>3, <1>1 DEF Placed
  <2> QED BY <2>1, <2>2, <2>3
<1>3. DOMAIN reader'.got = {}
  BY <1>1 DEF Idle, NoTree
<1>4. ReaderIsRecord'
  BY <1>1, <1>2, <1>3 DEF ReaderIsRecord, Idle, Phases, Present
<1>5. Unopened' /\ ReadSoFar' /\ SinceListing' /\ LookedAgain' /\ Judged'
  BY <1>1 DEF Unopened, ReadSoFar, SinceListing, LookedAgain, Judged, Idle, Listed, Ended
<1>6. Fresh' /\ ReadBytes'
  BY <1>1, <1>2, <1>3 DEF Fresh, ReadBytes, Present
<1> QED BY <1>4, <1>5, <1>6 DEF PInv

\* A fault gives a file an identity no file had, or takes it away.
LEMMA Faulting ==
  ASSUME PInv, Fault, UNCHANGED reader,
         Present' \subseteq Present,
         \A f \in Present' :
           \/ tree'[f] = tree[f]
           \/ tree'[f].identity = faults + 1
  PROVE  PInv'
<1>1. faults \in Nat /\ faults' = faults + 1 /\ outcome = "published" /\ outcome' = outcome
      /\ prepared' = prepared
  BY DEF PInv, ReaderIsRecord, Fault
<1>2. ReaderIsRecord' /\ ReadSoFar' /\ LookedAgain'
  BY <1>1 DEF PInv, ReaderIsRecord, ReadSoFar, LookedAgain
<1>3. Unopened' /\ Judged'
  BY <1>1 DEF PInv, Unopened, Judged, Payloads
<1>4. Fresh'
  BY <1>1 DEF PInv, Fresh, Present
<1>5. ReadBytes'
  BY <1>1 DEF PInv, Fresh, ReadBytes, Present
<1>6. SinceListing'
  <2> SUFFICES ASSUME reader.at \in Listed
               PROVE  /\ DOMAIN reader.moment = PublicFiles
                      /\ \A f \in Present' :
                           \/ tree'[f].bytes = reader.moment[f].bytes
                           \/ tree'[f].identity > reader.got[f].identity
    BY DEF SinceListing
  <2>1. DOMAIN reader.got = PublicFiles
    BY DEF PInv, ReadSoFar
  <2>2. \A f \in Present : f \in PublicFiles /\ reader.got[f].identity \in 0..faults
    BY <2>1 DEF PInv, Fresh, ReaderIsRecord
  <2> QED BY <1>1, <2>2 DEF PInv, SinceListing
<1> QED BY <1>2, <1>3, <1>4, <1>5, <1>6 DEF PInv

LEMMA Replacing == ASSUME NEW f, NEW b, PInv, Replace(f, b) PROVE PInv'
<1>1. Present' = Present /\ \A g \in Present' : tree'[g] = tree[g] \/ tree'[g].identity = faults + 1
  BY DEF Replace, Present
<1> QED BY <1>1, Faulting DEF Replace

LEMMA Removing == ASSUME NEW f, PInv, Remove(f) PROVE PInv'
<1>1. Present' \subseteq Present /\ \A g \in Present' : tree'[g] = tree[g]
  BY DEF Remove, Present
<1> QED BY <1>1, Faulting DEF Remove

----------------------------------------------------------------------------
LEMMA Beginning == ASSUME NEW m, PInv, Begin(m) PROVE PInv'
<1>1. UNCHANGED <<tree, faults, prepared, outcome>> /\ outcome = "published"
  BY DEF Begin, ReaderStep
<1>2. reader = Idle /\ faults \in Nat /\ Present \subseteq PublicFiles
  BY DEF Begin, PInv, ReadSoFar, ReaderIsRecord
<1>3. /\ reader' = [at |-> reader'.at, mode |-> m, next |-> 1, got |-> NoTree, moment |-> NoTree]
      /\ reader'.at \in {"reading", "refused"}
  BY <1>2 DEF Begin, Idle
<1>4. DOMAIN reader'.got = {} /\ {Order[i] : i \in 1..(reader'.next - 1)} = {}
  BY <1>3 DEF NoTree
<1>5. ReaderIsRecord'
  BY <1>1, <1>2, <1>3, <1>4 DEF ReaderIsRecord, Phases, Present
<1>6. Unopened' /\ ReadSoFar' /\ SinceListing' /\ LookedAgain' /\ Judged'
  BY <1>1, <1>3, <1>4 DEF Unopened, ReadSoFar, SinceListing, LookedAgain, Judged, Listed, Ended
<1>7. Fresh' /\ ReadBytes'
  BY <1>1, <1>4 DEF PInv, Fresh, ReadBytes, Present
<1> QED BY <1>5, <1>6, <1>7 DEF PInv

\* A reader that gives up keeps what it had.
LEMMA Refusing == ASSUME PInv, Refuse, ReaderStep, outcome = "published" PROVE PInv'
<1>1. reader' = [at |-> "refused", mode |-> reader.mode, next |-> reader.next,
                 got |-> reader.got, moment |-> reader.moment]
  BY DEF PInv, ReaderIsRecord, Refuse
<1>2. UNCHANGED <<tree, faults, outcome>>
  BY DEF ReaderStep
<1> QED
  BY <1>1, <1>2 DEF PInv, ReaderIsRecord, Unopened, ReadSoFar, Fresh, ReadBytes, SinceListing,
     LookedAgain, Judged, Phases, Listed, Ended, Present

LEMMA Opened == ASSUME PInv, reader.at # "idle" PROVE outcome = "published"
BY DEF PInv, Unopened, Idle

LEMMA Reading == PInv /\ Read => PInv'
<1> SUFFICES ASSUME PInv, Read PROVE PInv'
  OBVIOUS
<1> DEFINE f == Order[reader.next]
<1>1. UNCHANGED <<tree, faults, outcome>> /\ outcome = "published" /\ reader.at = "reading"
  BY Opened DEF Read, ReaderStep
<1>2. CASE f \notin Present
  BY <1>1, <1>2, Refusing DEF Read
<1>3. CASE f \in Present
  <2>1. reader.next \in 1..8 /\ f \in PublicFiles
    BY OrderCovers DEF PInv, ReaderIsRecord
  <2>2. reader' = [at |-> IF reader.next = 8 THEN "listing" ELSE "reading",
                   mode |-> reader.mode,
                   next |-> IF reader.next = 8 THEN 1 ELSE reader.next + 1,
                   got |-> [g \in DOMAIN reader.got \cup {f} |-> IF g = f THEN tree[f] ELSE reader.got[g]],
                   moment |-> reader.moment]
    BY <1>3 DEF Read, PInv, ReaderIsRecord
  <2>3. DOMAIN reader'.got = {Order[i] : i \in 1..reader.next}
    BY <1>1, <2>1, <2>2 DEF PInv, ReadSoFar
  <2>4. reader.next = 8 => DOMAIN reader'.got = PublicFiles
    BY <2>3, OrderCovers
  <2>5. DOMAIN reader'.got \subseteq PublicFiles
    BY <2>1, <2>2 DEF PInv, ReaderIsRecord
  <2>6. \A g \in DOMAIN reader'.got :
          IF g = f THEN reader'.got[g] = tree[f] ELSE g \in DOMAIN reader.got /\ reader'.got[g] = reader.got[g]
    BY <2>2
  <2>7. ReaderIsRecord'
    BY <1>1, <2>1, <2>2, <2>5 DEF PInv, ReaderIsRecord, Phases, Present
  <2>8. ReadSoFar'
    BY <2>1, <2>2, <2>3, <2>4 DEF ReadSoFar, Listed, Ended
  <2>9. Fresh' /\ ReadBytes'
    BY <1>1, <1>3, <2>6 DEF PInv, Fresh, ReadBytes, Present
  <2>10. Unopened' /\ SinceListing' /\ LookedAgain' /\ Judged'
    BY <1>1, <2>2 DEF Unopened, SinceListing, LookedAgain, Judged, Listed, Ended
  <2> QED BY <2>7, <2>8, <2>9, <2>10 DEF PInv
<1> QED BY <1>2, <1>3

\* At the second listing every file is there, and a file that changed since
\* it was read has another identity than it was read under.
LEMMA Listing == PInv /\ List => PInv'
<1> SUFFICES ASSUME PInv, List PROVE PInv'
  OBVIOUS
<1>1. UNCHANGED <<tree, faults, outcome>> /\ outcome = "published" /\ reader.at = "listing"
  BY Opened DEF List, ReaderStep
<1>2. CASE ~Whole
  BY <1>1, <1>2, Refusing DEF List
<1>3. CASE Whole
  <2>1. reader' = [at |-> "closing", mode |-> reader.mode, next |-> 1, got |-> reader.got, moment |-> tree]
    BY <1>1, <1>3 DEF List, PInv, ReaderIsRecord, ReadSoFar
  <2>2. DOMAIN tree = PublicFiles /\ DOMAIN reader.got = PublicFiles
    BY <1>1, <1>3 DEF Whole, Present, PInv, ReadSoFar
  <2>3. ReaderIsRecord' /\ ReadSoFar'
    BY <1>1, <2>1, <2>2 DEF PInv, ReaderIsRecord, ReadSoFar, Phases, Listed, Ended, Present
  <2>4. Fresh' /\ ReadBytes'
    BY <1>1, <2>1 DEF PInv, Fresh, ReadBytes, Present
  <2>5. Unopened' /\ SinceListing' /\ LookedAgain' /\ Judged'
    BY <1>1, <2>1, <2>2 DEF Unopened, SinceListing, LookedAgain, Judged, Listed, Ended, Present
  <2> QED BY <2>3, <2>4, <2>5 DEF PInv
<1> QED BY <1>2, <1>3

\* A file that still has its identity has the bytes it had at the listing.
LEMMA LookingAgain == PInv /\ LookAgain => PInv'
<1> SUFFICES ASSUME PInv, LookAgain PROVE PInv'
  OBVIOUS
<1> DEFINE f == Order[reader.next]
<1>1. UNCHANGED <<tree, faults, outcome>> /\ outcome = "published" /\ reader.at = "closing"
  BY Opened DEF LookAgain, ReaderStep
<1>2. CASE ~Unchanged(f)
  BY <1>1, <1>2, Refusing DEF LookAgain
<1>3. CASE Unchanged(f)
  <2>1. reader.next \in 1..8 /\ f \in PublicFiles
    BY OrderCovers DEF PInv, ReaderIsRecord
  <2>2. reader' = [at |-> IF reader.next = 8 THEN "judging" ELSE "closing",
                   mode |-> reader.mode,
                   next |-> IF reader.next = 8 THEN 8 ELSE reader.next + 1,
                   got |-> reader.got, moment |-> reader.moment]
    BY <1>3 DEF LookAgain, PInv, ReaderIsRecord
  <2>3. DOMAIN reader.got = PublicFiles
    BY <1>1 DEF PInv, ReadSoFar, Listed
  <2>4. reader.got[f].bytes = reader.moment[f].bytes
    <3>1. reader.got[f].identity \in 0..faults /\ faults \in Nat
      BY <2>1, <2>3 DEF PInv, Fresh, ReaderIsRecord
    <3>2. tree[f].bytes = reader.moment[f].bytes
      BY <1>1, <1>3, <3>1 DEF PInv, SinceListing, Listed, Unchanged
    <3> QED BY <1>3, <2>1, <2>3, <3>2 DEF PInv, ReadBytes, Unchanged
  <2>5. \A i \in 1..reader.next : reader.got[Order[i]].bytes = reader.moment[Order[i]].bytes
    BY <1>1, <2>1, <2>4 DEF PInv, LookedAgain
  <2>6. LookedAgain'
    BY <2>1, <2>2, <2>5, OrderCovers DEF LookedAgain, Ended
  <2>7. ReaderIsRecord' /\ ReadSoFar'
    BY <1>1, <2>1, <2>2, <2>3 DEF PInv, ReaderIsRecord, ReadSoFar, Phases, Listed, Ended, Present
  <2>8. Fresh' /\ ReadBytes' /\ SinceListing'
    BY <1>1, <2>2 DEF PInv, Fresh, ReadBytes, SinceListing, Listed, Ended, Present
  <2>9. Unopened' /\ Judged'
    BY <1>1, <2>2 DEF Unopened, Judged
  <2> QED BY <2>6, <2>7, <2>8, <2>9 DEF PInv
<1> QED BY <1>2, <1>3

LEMMA Judging == PInv /\ Judge => PInv'
<1> SUFFICES ASSUME PInv, Judge PROVE PInv'
  OBVIOUS
<1> DEFINE stands == Verifies(Payloads) /\ (reader.mode = "identity" => Authorized)
<1>1. UNCHANGED <<tree, faults, outcome, prepared>> /\ outcome = "published" /\ reader.at = "judging"
  BY Opened DEF Judge, ReaderStep
<1>2. CASE ~stands
  BY <1>1, <1>2, Refusing DEF Judge, Refuse
<1>3. CASE stands
  <2>1. reader' = [at |-> "accepted", mode |-> reader.mode, next |-> reader.next,
                   got |-> reader.got, moment |-> reader.moment]
    BY <1>3 DEF Judge, PInv, ReaderIsRecord
  <2>2. Payloads' = Payloads
    BY <2>1 DEF Payloads
  <2>3. Judged'
    <3>1. Verifies(Payloads)'
      BY <1>3, <2>2 DEF Verifies, SumsMatch
    <3> QED BY <1>1, <1>3, <2>1, <2>2, <3>1 DEF Judged, Authorized
  <2>4. ReaderIsRecord' /\ ReadSoFar'
    BY <1>1, <2>1 DEF PInv, ReaderIsRecord, ReadSoFar, Phases, Listed, Ended, Present
  <2>5. Fresh' /\ ReadBytes' /\ SinceListing' /\ LookedAgain' /\ Unopened'
    BY <1>1, <2>1 DEF PInv, Fresh, ReadBytes, SinceListing, LookedAgain, Unopened, Listed, Ended, Present
  <2> QED BY <2>3, <2>4, <2>5 DEF PInv
<1> QED BY <1>2, <1>3

LEMMA Inductive == PInv /\ [Next]_vars => PInv'
<1> SUFFICES ASSUME PInv, [Next]_vars PROVE PInv'
  OBVIOUS
<1>1. CASE Prepare
  BY <1>1, Preparing
<1>2. CASE Publish
  BY <1>2, Publishing
<1>3. CASE \E f \in PublicFiles :
             Remove(f) \/ \E bytes \in {<<>>, Payload(Committed(Other))[f]} : Replace(f, bytes)
  BY <1>3, Removing, Replacing
<1>4. CASE \E mode \in Modes : Begin(mode)
  BY <1>4, Beginning
<1>5. CASE Read \/ List
  BY <1>5, Reading, Listing
<1>6. CASE LookAgain \/ Judge
  BY <1>6, LookingAgain, Judging
<1>7. CASE UNCHANGED vars
  <2>1. UNCHANGED <<tree, faults, outcome, prepared, reader>>
    BY <1>7 DEF vars
  <2>2. Payloads' = Payloads
    BY <2>1 DEF Payloads
  <2>3. Judged'
    BY <2>1, <2>2 DEF PInv, Judged, Verifies, SumsMatch
  <2> QED
    BY <2>1, <2>3 DEF PInv, ReaderIsRecord, Unopened, ReadSoFar, Fresh, ReadBytes, SinceListing,
       LookedAgain, Present
<1> QED BY <1>1, <1>2, <1>3, <1>4, <1>5, <1>6, <1>7 DEF Next

\* An accepted reading is the directory at one moment.
LEMMA ReadingStands == PInv => AcceptedStood
<1> SUFFICES ASSUME PInv, reader.at = "accepted"
             PROVE  /\ Payloads = [f \in DOMAIN reader.moment |-> reader.moment[f].bytes]
                    /\ reader.mode = "identity" => Payloads = prepared[1]
  BY DEF AcceptedStood
<1>1. DOMAIN reader.got = PublicFiles /\ DOMAIN reader.moment = PublicFiles
  BY DEF PInv, ReadSoFar, SinceListing, Listed, Ended
<1>2. \A f \in PublicFiles : reader.got[f].bytes = reader.moment[f].bytes
  BY DEF PInv, LookedAgain, Ended
<1> QED BY <1>1, <1>2 DEF PInv, Judged, Payloads

\* The sources that a nominal track's public rows are reduced from show the
\* contract's outcome.
LEMMA NominalTrackIsEarned ==
  ASSUME NEW t \in Tracks, NEW m, NEW data, NominalTrack(t, m, data), Attested(m, data)
  PROVE  Earned(m.sources[t].raw, m.run, Expected[t])
<1> DEFINE raw == m.sources[t].raw
           rows == m.sources[t].rows
           o == Expected[t]
<1>1. Adapts(raw, m.run) /\ rows = Reduced(raw)
  BY DEF Attested, SourcesStand
<1>2. Len(rows.driver) = 1 /\ rows.decision[1].decision = o
  BY DEF Attested, NominalTrack
<1>3. raw.driver # <<>>
  <2> HIDE DEF raw, rows, o
  <2> QED BY <1>1, <1>2 DEF Reduced, NoRows
<1>4. rows.decision = <<[decision |-> raw.decision[1].outcome, digest |-> raw.decision[1].digest]>>
  <2> HIDE DEF raw, rows, o
  <2> QED BY <1>1, <1>3 DEF Reduced
<1>5. raw.decision[1].outcome = o
  BY <1>2, <1>4
<1>6. o \in {"permit", "deny"}
  BY ContractAssumption DEF Outcomes
<1> QED BY <1>1, <1>3, <1>5, <1>6 DEF Adapts, SameCall, Earned

LEMMA VerifiedIsEarned ==
  ASSUME NEW p, Verifies(p), p["manifest.json"][1].class = "nominal"
  PROVE  \A t \in Tracks :
           Earned(p["manifest.json"][1].sources[t].raw, p["manifest.json"][1].run, Expected[t])
<1> DEFINE m == p["manifest.json"][1]
           data == [f \in DataFiles |-> p[f][1]]
<1>1. ClassStands(m, data)
  BY DEF Verifies
<1>2. Attested(m, data) /\ \A t \in Tracks : NominalTrack(t, m, data)
  BY <1>1 DEF ClassStands
<1> HIDE DEF m, data
<1>3. \A t \in Tracks : Earned(m.sources[t].raw, m.run, Expected[t])
  BY <1>2, NominalTrackIsEarned
<1> QED BY <1>3 DEF m

\* Whatever files come and go while it reads, a verification that accepts
\* accepts what the directory held all at once, and under the journal's
\* authority the bytes that were prepared (_read_tree_fd).
THEOREM ReaderSeesOneDirectory == PublicationSpec => []AcceptedStood
<1>1. PublicationSpec => []PInv
  BY Initially, Inductive, PTL DEF PublicationSpec
<1> QED BY <1>1, ReadingStands, PTL

\* A nominal bundle that is accepted carries sources that show the outcome
\* of the contract on every track, whoever wrote it (_verify_v3b2).
THEOREM NominalIsEarned == PublicationSpec => []AcceptedIsEarned
<1>1. PublicationSpec => []PInv
  BY Initially, Inductive, PTL DEF PublicationSpec
<1>2. PInv => AcceptedIsEarned
  BY VerifiedIsEarned DEF PInv, Judged, AcceptedIsEarned
<1> QED BY <1>1, <1>2, PTL
----------------------------------------------------------------------------
(***************************************************************************)
(* Builder and verifier agree: the manifest that is committed, the files   *)
(* derived from it and the sources in it pass every check of the verifier. *)
(***************************************************************************)
Plain(p) ==
  [run |-> p.run, class |-> ResultClass(p), sources |-> p.sources,
   requests |-> Results(p), joins |-> SemanticJoins(p),
   same |-> p.same, unchanged |-> p.same, context |-> p.context,
   commitment |-> <<>>]

\* The committed manifest is the plain one with its commitment, and the files
\* do not depend on the commitment.
LEMMA PublicIsPlain ==
  ASSUME NEW p
  PROVE  LET m == Public(p) IN
         /\ m.run = p.run /\ m.class = ResultClass(p) /\ m.sources = p.sources
         /\ m.requests = Results(p) /\ m.joins = SemanticJoins(p)
         /\ m.same = p.same /\ m.unchanged = p.same /\ m.context = p.context
         /\ m.commitment = Commitment(m, Artifacts(m))
<1> DEFINE q == Plain(p)
           x == Commitment(q, Artifacts(q))
           m == [q EXCEPT !.commitment = x]
<1>1. Public(p) = m
  BY DEF Public, Committed, Plain
<1> HIDE DEF x
<1>2. /\ m.run = p.run /\ m.class = ResultClass(p) /\ m.sources = p.sources
      /\ m.requests = Results(p) /\ m.joins = SemanticJoins(p)
      /\ m.same = p.same /\ m.unchanged = p.same /\ m.context = p.context
      /\ m.commitment = x
  BY DEF Plain
<1>3. q.requests = m.requests /\ q.joins = m.joins /\ q.class = m.class
  BY <1>2 DEF Plain
<1>4. Artifacts(m) = Artifacts(q)
  <2> HIDE DEF m, q
  <2> QED BY <1>3 DEF Artifacts
<1>5. [m EXCEPT !.commitment = <<>>] = [q EXCEPT !.commitment = <<>>]
  BY DEF Plain
<1>6. Commitment(m, Artifacts(m)) = x
  <2> HIDE DEF m, q
  <2> QED BY <1>4, <1>5 DEF Commitment, x
<1> HIDE DEF m
<1> QED BY <1>1, <1>2, <1>6

\* The files of a payload carry the data that follow from its manifest.
LEMMA PayloadCarries ==
  ASSUME NEW m
  PROVE  /\ \A f \in PublicFiles : Payload(m)[f] # <<>>
         /\ SumsMatch(Payload(m))
         /\ Payload(m)["manifest.json"][1] = m
         /\ [f \in DataFiles |-> Payload(m)[f][1]] = Artifacts(m)
<1>1. \A f \in DataFiles : Payload(m)[f] = <<Artifacts(m)[f]>>
  BY DEF Payload, PublicFiles, DataFiles
<1>2. Payload(m)["manifest.json"] = <<m>>
  BY DEF Payload, PublicFiles, DataFiles
<1>3. Payload(m)["SHA256SUMS"] # <<>>
  BY DEF Payload, PublicFiles, DataFiles
<1>4. \A f \in PublicFiles : Payload(m)[f] # <<>>
  BY <1>1, <1>2, <1>3 DEF PublicFiles
<1>5. SumsMatch(Payload(m))
  BY DEF SumsMatch, Sums, Payload, PublicFiles, DataFiles
<1>6. \A f \in DataFiles : Payload(m)[f][1] = Artifacts(m)[f]
  BY <1>1
<1>7. [f \in DataFiles |-> Payload(m)[f][1]] = Artifacts(m)
  BY <1>6, ZenonT(60) DEF Artifacts
<1> QED BY <1>2, <1>4, <1>5, <1>7

\* The rows of a track whose manifest answers nothing.
LEMMA NoAnswer ==
  ASSUME NEW m, NEW t \in Tracks, m.requests[t] = <<>>, m.joins[t] = <<>>
  PROVE  /\ Artifacts(m)["requests.jsonl"][t] = <<>>
         /\ Artifacts(m)["decisions.jsonl"][t] = <<>>
         /\ Artifacts(m)["envoy.jsonl"][t] = <<>>
         /\ Artifacts(m)["targets.jsonl"][t] = <<>>
         /\ Artifacts(m)["joins.jsonl"][t] = <<>>
BY DEF Artifacts, DataFiles

\* The rows of a track that was answered r, in the files and in the joins.
Answers(data, m, t, r) ==
  /\ data["requests.jsonl"][t] =
       <<[decision |-> r.decision, status |-> r.status, digest |-> r.digest]>>
  /\ data["decisions.jsonl"][t] = <<[decision |-> r.decision, digest |-> r.digest]>>
  /\ data["envoy.jsonl"][t] =
       <<[digest |-> r.digest, upstream |-> r.decision = "permit",
          status |-> IF r.decision = "permit" THEN r.status ELSE 0]>>
  /\ data["targets.jsonl"][t] = [i \in 1..r.markers |-> i]
  /\ data["joins.jsonl"][t] = m.joins[t]

LEMMA OneAnswer ==
  ASSUME NEW m, NEW t \in Tracks, NEW r, m.requests[t] = <<r>>
  PROVE  Answers(Artifacts(m), m, t, r)
<1>1. m.requests[t] # <<>> /\ DOMAIN m.requests[t] = 1..1 /\ m.requests[t][1] = r
  OBVIOUS
<1>2. Artifacts(m)["requests.jsonl"][t] =
        [i \in DOMAIN m.requests[t] |->
           [decision |-> m.requests[t][i].decision, status |-> m.requests[t][i].status,
            digest |-> m.requests[t][i].digest]]
  BY DEF Artifacts, DataFiles
<1>3. Artifacts(m)["decisions.jsonl"][t] =
        [i \in DOMAIN m.requests[t] |->
           [decision |-> m.requests[t][i].decision, digest |-> m.requests[t][i].digest]]
  BY DEF Artifacts, DataFiles
<1>4. Artifacts(m)["envoy.jsonl"][t] =
        [i \in DOMAIN m.requests[t] |->
           [digest |-> m.requests[t][i].digest,
            upstream |-> m.requests[t][i].decision = "permit",
            status |-> IF m.requests[t][i].decision = "permit"
                         THEN m.requests[t][i].status ELSE 0]]
  BY DEF Artifacts, DataFiles
<1>5. Artifacts(m)["targets.jsonl"][t] =
        IF m.requests[t] = <<>> THEN <<>> ELSE [i \in 1..m.requests[t][1].markers |-> i]
  BY DEF Artifacts, DataFiles
<1>6. Artifacts(m)["joins.jsonl"][t] = m.joins[t]
  BY DEF Artifacts, DataFiles
<1> DEFINE decided(x) == [decision |-> x.decision, digest |-> x.digest]
           asked(x) == [decision |-> x.decision, status |-> x.status, digest |-> x.digest]
           passed(x) == [digest |-> x.digest, upstream |-> x.decision = "permit",
                         status |-> IF x.decision = "permit" THEN x.status ELSE 0]
<1>7. [i \in DOMAIN m.requests[t] |-> asked(m.requests[t][i])] = <<asked(r)>>
  <2> HIDE DEF asked
  <2> QED BY <1>1
<1>8. [i \in DOMAIN m.requests[t] |-> decided(m.requests[t][i])] = <<decided(r)>>
  <2> HIDE DEF decided
  <2> QED BY <1>1
<1>9. [i \in DOMAIN m.requests[t] |-> passed(m.requests[t][i])] = <<passed(r)>>
  <2> HIDE DEF passed
  <2> QED BY <1>1
<1>10. Artifacts(m)["targets.jsonl"][t] = [i \in 1..r.markers |-> i]
  BY <1>1, <1>5
<1> QED BY <1>2, <1>3, <1>4, <1>6, <1>7, <1>8, <1>9, <1>10 DEF Answers

\* What the builder joined for one track: one answer with the contract's
\* outcome, and the rows that say so.
LEMMA JoinedTrack ==
  ASSUME NEW p \in Privates, NEW t \in Tracks,
         SourcesStand(p.sources, p.run), Joins(t, p.sources[t].rows)
  PROVE  \E g :
         LET rows == p.sources[t].rows  o == Expected[t] IN
           /\ rows.driver = <<[decision |-> o, status |-> Status(o), digest |-> g]>>
           /\ rows.decision = <<[decision |-> o, digest |-> g]>>
           /\ rows.envoy = <<[digest |-> g, upstream |-> o = "permit",
                              status |-> IF o = "permit" THEN Status(o) ELSE 0]>>
           /\ rows.target = [i \in 1..Markers(o) |-> i]
<1> DEFINE raw == p.sources[t].raw
           rows == p.sources[t].rows
           o == Expected[t]
           d == raw.driver[1]
           a == raw.decision[1]
           e == raw.envoy[1]
<1>1. Adapts(raw, p.run) /\ rows = Reduced(raw)
  BY DEF SourcesStand
<1>2. raw.driver # <<>>
  <2>1. Len(rows.driver) = 1
    BY DEF Joins
  <2> HIDE DEF raw, rows
  <2> QED BY <1>1, <2>1 DEF Reduced, NoRows
<1>3. /\ rows.driver = <<[decision |-> a.outcome, status |-> d.status, digest |-> d.digest]>>
      /\ rows.decision = <<[decision |-> a.outcome, digest |-> a.digest]>>
      /\ rows.envoy = <<[digest |-> e.digest, upstream |-> a.outcome = "permit",
                         status |-> IF a.outcome = "permit" THEN d.status ELSE 0]>>
      /\ rows.target = [i \in DOMAIN raw.target |-> 1]
  <2>1. Reduced(raw) =
          [driver |-> <<[decision |-> a.outcome, status |-> d.status, digest |-> d.digest]>>,
           decision |-> <<[decision |-> a.outcome, digest |-> a.digest]>>,
           envoy |-> <<[digest |-> e.digest, upstream |-> a.outcome = "permit",
                        status |-> IF a.outcome = "permit" THEN d.status ELSE 0]>>,
           target |-> [i \in DOMAIN raw.target |-> 1]]
    BY <1>2 DEF Reduced
  <2> HIDE DEF raw, rows, d, a, e
  <2> QED BY <1>1, <2>1
<1>4. Len(raw.target) = Markers(a.outcome) /\ SameCall(d, a, e)
  BY <1>1, <1>2 DEF Adapts
<1>5. a.outcome = o
  <2>1. rows.decision[1].decision = o
    BY DEF Joins
  <2> HIDE DEF raw, rows, o, a, d, e
  <2>2. rows.decision[1] = [decision |-> a.outcome, digest |-> a.digest]
    BY <1>3
  <2> QED BY <2>1, <2>2
<1>6. d.status = Status(o) /\ a.digest = d.digest /\ e.digest = d.digest
  <2> HIDE DEF raw, rows, o, d, a, e
  <2> QED BY <1>4, <1>5 DEF SameCall
<1>7. rows.target = [i \in 1..Markers(o) |-> i]
  <2>1. DOMAIN raw.target = 1..Markers(o)
    BY <1>4, <1>5, PrivatesAssumption
  <2>2. Markers(o) = 0 \/ Markers(o) = 1
    BY DEF Markers
  <2>3. \A i \in 1..Markers(o) : i = 1
    BY <2>2
  <2> QED BY <1>3, <2>1, <2>3
<1> DEFINE g == d.digest
<1>8. /\ rows.driver = <<[decision |-> o, status |-> Status(o), digest |-> g]>>
      /\ rows.decision = <<[decision |-> o, digest |-> g]>>
      /\ rows.envoy = <<[digest |-> g, upstream |-> o = "permit",
                         status |-> IF o = "permit" THEN Status(o) ELSE 0]>>
  <2> HIDE DEF rows, o, d, a, e
  <2> QED BY <1>3, <1>5, <1>6
<1> HIDE DEF g
<1> QED BY <1>7, <1>8

\* A nominal track passes the verifier's checks of its rows.
LEMMA NominalTrackVerifies ==
  ASSUME NEW p \in Privates, NEW t \in Tracks, NEW m,
         SourcesStand(p.sources, p.run), Joins(t, p.sources[t].rows),
         m.sources = p.sources,
         m.requests[t] =
           <<[decision |-> p.sources[t].rows.driver[1].decision,
              status |-> p.sources[t].rows.driver[1].status,
              digest |-> p.sources[t].rows.driver[1].digest,
              markers |-> Markers(Expected[t])]>>,
         m.joins[t] =
           <<[decision |-> Expected[t], status |-> Status(Expected[t]),
              markers |-> Markers(Expected[t]), equal |-> TRUE,
              digest |-> p.sources[t].rows.driver[1].digest,
              upstream |-> p.sources[t].rows.envoy[1].upstream]>>
  PROVE  /\ NominalTrack(t, m, Artifacts(m))
         /\ m.sources[t].rows.driver = Artifacts(m)["requests.jsonl"][t]
         /\ m.sources[t].rows.decision = Artifacts(m)["decisions.jsonl"][t]
         /\ m.sources[t].rows.envoy = Artifacts(m)["envoy.jsonl"][t]
         /\ m.sources[t].rows.target = Artifacts(m)["targets.jsonl"][t]
<1> DEFINE rows == p.sources[t].rows
           o == Expected[t]
           data == Artifacts(m)
<1>1. PICK g :
        /\ rows.driver = <<[decision |-> o, status |-> Status(o), digest |-> g]>>
        /\ rows.decision = <<[decision |-> o, digest |-> g]>>
        /\ rows.envoy = <<[digest |-> g, upstream |-> o = "permit",
                           status |-> IF o = "permit" THEN Status(o) ELSE 0]>>
        /\ rows.target = [i \in 1..Markers(o) |-> i]
  BY JoinedTrack
<1> DEFINE r == [decision |-> o, status |-> Status(o), digest |-> g, markers |-> Markers(o)]
<1>2. m.requests[t] = <<r>>
  BY <1>1
<1>3. m.joins[t] = <<[decision |-> o, status |-> Status(o), markers |-> Markers(o),
                      equal |-> TRUE, digest |-> g, upstream |-> o = "permit"]>>
  <2>1. rows.driver[1].digest = g /\ rows.envoy[1].upstream = (o = "permit")
    BY <1>1
  <2> HIDE DEF rows, o
  <2> QED BY <2>1 DEF rows, o
<1>4. /\ r.decision = o /\ r.status = Status(o) /\ r.digest = g /\ r.markers = Markers(o)
  OBVIOUS
<1> HIDE DEF r, data
<1>5. /\ data["requests.jsonl"][t] = <<[decision |-> o, status |-> Status(o), digest |-> g]>>
      /\ data["decisions.jsonl"][t] = <<[decision |-> o, digest |-> g]>>
      /\ data["envoy.jsonl"][t] =
           <<[digest |-> g, upstream |-> o = "permit",
              status |-> IF o = "permit" THEN Status(o) ELSE 0]>>
      /\ data["targets.jsonl"][t] = [i \in 1..Markers(o) |-> i]
  <2>1. /\ data["requests.jsonl"][t] =
              <<[decision |-> r.decision, status |-> r.status, digest |-> r.digest]>>
        /\ data["decisions.jsonl"][t] = <<[decision |-> r.decision, digest |-> r.digest]>>
        /\ data["envoy.jsonl"][t] =
              <<[digest |-> r.digest, upstream |-> r.decision = "permit",
                 status |-> IF r.decision = "permit" THEN r.status ELSE 0]>>
        /\ data["targets.jsonl"][t] = [i \in 1..r.markers |-> i]
    <3>1. m.requests[t] = <<r>> /\ t \in Tracks
      BY <1>2
    <3>2. Answers(Artifacts(m), m, t, r)
      BY <3>1, OneAnswer
    <3> QED BY <3>2 DEF Answers, data
  <2> HIDE DEF o
  <2> QED BY <1>4, <2>1
<1>6. NominalTrack(t, m, data)
  <2>1. Len(m.requests[t]) = 1 /\ m.requests[t][1] = r
    BY <1>2
  <2>2. (IF o = "permit" THEN Status(o) ELSE 0) = (IF o = "permit" THEN 200 ELSE 0)
    BY DEF Status
  <2> HIDE DEF o
  <2>3. Len(m.joins[t]) = 1 /\ Len(data["requests.jsonl"][t]) = 1
        /\ Len(data["decisions.jsonl"][t]) = 1 /\ Len(data["envoy.jsonl"][t]) = 1
    BY <1>3, <1>5
  <2>4. /\ data["requests.jsonl"][t][1] = [decision |-> o, status |-> Status(o), digest |-> g]
        /\ data["decisions.jsonl"][t][1] = [decision |-> o, digest |-> g]
        /\ data["envoy.jsonl"][t][1] =
             [digest |-> g, upstream |-> o = "permit",
              status |-> IF o = "permit" THEN Status(o) ELSE 0]
        /\ m.joins[t][1] =
             [decision |-> o, status |-> Status(o), markers |-> Markers(o),
              equal |-> TRUE, digest |-> g, upstream |-> o = "permit"]
    BY <1>3, <1>5
  <2>5. data["decisions.jsonl"][t][1].digest = g /\ data["requests.jsonl"][t][1].digest = g
        /\ data["decisions.jsonl"][t][1].decision = o
    BY <2>4
  <2>6. /\ m.requests[t][1].decision = o /\ m.requests[t][1].status = Status(o)
        /\ m.requests[t][1].markers = Markers(o) /\ m.requests[t][1].digest = g
    BY <1>4, <2>1
  <2>7. data["requests.jsonl"][t][1] =
          [decision |-> m.requests[t][1].decision, status |-> m.requests[t][1].status,
           digest |-> m.requests[t][1].digest]
    BY <2>4, <2>6
  <2>8. /\ m.joins[t][1] = [decision |-> o, status |-> Status(o), markers |-> Markers(o),
                            equal |-> TRUE, digest |-> data["decisions.jsonl"][t][1].digest,
                            upstream |-> o = "permit"]
        /\ data["envoy.jsonl"][t][1] =
             [digest |-> data["decisions.jsonl"][t][1].digest, upstream |-> o = "permit",
              status |-> IF o = "permit" THEN 200 ELSE 0]
    BY <2>2, <2>4, <2>5
  <2>9. data["targets.jsonl"][t] = [i \in 1..Markers(o) |-> i]
    BY <1>5
  <2> QED BY <2>1, <2>3, <2>5, <2>6, <2>7, <2>8, <2>9 DEF NominalTrack, o
<1> QED BY <1>1, <1>5, <1>6 DEF data

\* What is built is what is verified, unless only the global context changed:
\* the two programs disagree there.
LEMMA BuildersVerify ==
  ASSUME NEW p \in Privates, Buildable(p), ~(p.same /\ ~p.context)
  PROVE  Verifies(Payload(Public(p)))
<1> DEFINE m == Public(p)
           data == Artifacts(m)
<1>1. /\ m.run = p.run /\ m.class = ResultClass(p) /\ m.sources = p.sources
      /\ m.requests = Results(p) /\ m.joins = SemanticJoins(p)
      /\ m.same = p.same /\ m.unchanged = p.same /\ m.context = p.context
      /\ m.commitment = Commitment(m, data)
  BY PublicIsPlain
<1> HIDE DEF m, data
<1>2. SourcesStand(p.sources, p.run)
  BY DEF Buildable
<1>3. ClassStands(m, data)
  <2>1. CASE ResultClass(p) = "nominal"
    <3>1. p.same /\ p.context
      BY <2>1 DEF ResultClass
    <3>2. ASSUME NEW t \in Tracks
          PROVE  /\ NominalTrack(t, m, data)
                 /\ m.sources[t].rows.driver = data["requests.jsonl"][t]
                 /\ m.sources[t].rows.decision = data["decisions.jsonl"][t]
                 /\ m.sources[t].rows.envoy = data["envoy.jsonl"][t]
                 /\ m.sources[t].rows.target = data["targets.jsonl"][t]
      <4>1. Joins(t, p.sources[t].rows)
        BY <2>1 DEF Buildable
      <4>2. m.requests[t] =
              <<[decision |-> p.sources[t].rows.driver[1].decision,
                 status |-> p.sources[t].rows.driver[1].status,
                 digest |-> p.sources[t].rows.driver[1].digest,
                 markers |-> Markers(Expected[t])]>>
        BY <1>1, <2>1 DEF Results
      <4>3. m.joins[t] =
              <<[decision |-> Expected[t], status |-> Status(Expected[t]),
                 markers |-> Markers(Expected[t]), equal |-> TRUE,
                 digest |-> p.sources[t].rows.driver[1].digest,
                 upstream |-> p.sources[t].rows.envoy[1].upstream]>>
        BY <1>1, <2>1 DEF SemanticJoins
      <4> QED BY <1>1, <1>2, <4>1, <4>2, <4>3, NominalTrackVerifies DEF data
    <3>3. Attested(m, data)
      BY <1>1, <1>2, <3>2 DEF Attested
    <3>4. m.class = "nominal" /\ m.context /\ m.unchanged
      BY <1>1, <2>1, <3>1
    <3> QED BY <3>2, <3>3, <3>4 DEF ClassStands
  <2>2. CASE ResultClass(p) # "nominal"
    <3>1. NothingAsked(p.sources)
      BY <2>2 DEF Buildable
    <3>2. \A t \in Tracks : m.requests[t] = <<>> /\ m.joins[t] = <<>>
      BY <1>1, <2>2 DEF Results, SemanticJoins
    <3>3. \A t \in Tracks :
            /\ data["requests.jsonl"][t] = <<>> /\ data["decisions.jsonl"][t] = <<>>
            /\ data["envoy.jsonl"][t] = <<>> /\ data["targets.jsonl"][t] = <<>>
            /\ data["joins.jsonl"][t] = <<>>
      BY <3>2, NoAnswer DEF data
    <3>4. Attested(m, data)
      <4>1. \A t \in Tracks :
              /\ m.sources[t].rows.driver = <<>> /\ m.sources[t].rows.decision = <<>>
              /\ m.sources[t].rows.envoy = <<>> /\ m.sources[t].rows.target = <<>>
        <5>1. \A t \in Tracks : p.sources[t].rows = NoRows
          BY <3>1 DEF NothingAsked
        <5>2. /\ NoRows.driver = <<>> /\ NoRows.decision = <<>>
              /\ NoRows.envoy = <<>> /\ NoRows.target = <<>>
          BY DEF NoRows
        <5> QED BY <1>1, <5>1, <5>2
      <4> QED BY <1>1, <1>2, <3>3, <4>1 DEF Attested
    <3>5. NothingIn(m.requests) /\ NothingIn(m.joins)
      BY <3>2 DEF NothingIn
    <3>6. \A f \in DataFiles \ {"live.html"} : NothingIn(data[f])
      BY <3>3 DEF NothingIn, DataFiles
    <3>7. \/ m.class = "request-free" /\ m.context /\ m.unchanged
          \/ m.class = "diagnostic_foreign_state_mismatch" /\ ~m.unchanged
      BY <1>1, <2>2 DEF ResultClass
    <3> QED BY <3>4, <3>5, <3>6, <3>7 DEF ClassStands
  <2> QED BY <2>1, <2>2
<1>4. /\ \A f \in PublicFiles : Payload(m)[f] # <<>>
      /\ SumsMatch(Payload(m))
      /\ Payload(m)["manifest.json"][1] = m
      /\ [f \in DataFiles |-> Payload(m)[f][1]] = data
  BY PayloadCarries DEF data
<1>5. m.unchanged = m.same
  BY <1>1
<1>6. Verifies(Payload(m))
  <2> HIDE DEF Payload
  <2> QED BY <1>1, <1>3, <1>4, <1>5 DEF Verifies, data
<1> QED BY <1>6 DEF m

----------------------------------------------------------------------------
\* What is prepared is the payload of a lifecycle that could be built.
PreparedFrom ==
  \/ private = <<>> /\ outcome = "published"
  \/ \E p \in Privates :
       /\ private = <<p>>
       /\ prepared = <<>> \/ (prepared = <<Payload(Public(p))>> /\ Buildable(p))

LEMMA PreparedInductive ==
  PreparedFrom /\ PreparedIsPublished /\ [Next]_vars
    => PreparedFrom' /\ PreparedIsPublished'
<1> SUFFICES ASSUME PreparedFrom, PreparedIsPublished, [Next]_vars
             PROVE  PreparedFrom' /\ PreparedIsPublished'
  OBVIOUS
<1>1. CASE Prepare
  <2>1. private' = private /\ outcome' \in {"open", "unbuilt"} /\ outcome = "open"
    BY <1>1 DEF Prepare
  <2>2. PICK p \in Privates : private = <<p>>
    BY <2>1 DEF PreparedFrom
  <2>3. prepared' = <<>> \/ (prepared' = <<Payload(Public(p))>> /\ Buildable(p))
    <3>1. private[1] = p
      BY <2>2
    <3> QED BY <1>1, <3>1 DEF Prepare
  <2> QED BY <2>1, <2>2, <2>3 DEF PreparedFrom, PreparedIsPublished
<1>2. CASE Publish
  <2>1. /\ UNCHANGED <<private, prepared>> /\ outcome = "open" /\ prepared # <<>>
        /\ outcome' \in {"published", "unverified"}
        /\ outcome' = "unverified" => ~Verifies(prepared[1])
    BY <1>2 DEF Publish
  <2>2. PICK p \in Privates :
          private = <<p>> /\ prepared = <<Payload(Public(p))>> /\ Buildable(p)
    BY <2>1 DEF PreparedFrom
  <2>3. private'[1] = p /\ prepared[1] = Payload(Public(p))
    BY <2>1, <2>2
  <2>4. PreparedIsPublished'
    BY <2>1, <2>2, <2>3, BuildersVerify DEF PreparedIsPublished
  <2>5. PreparedFrom'
    BY <2>1, <2>2 DEF PreparedFrom
  <2> QED BY <2>4, <2>5
<1>3. CASE UNCHANGED <<private, prepared, outcome>>
  BY <1>3 DEF PreparedFrom, PreparedIsPublished
<1>4. ASSUME NEW f, NEW b, Remove(f) \/ Replace(f, b) PROVE UNCHANGED <<private, prepared, outcome>>
  BY <1>4 DEF Remove, Replace, Fault
<1>5. ASSUME NEW mode, Begin(mode) \/ Read \/ List \/ LookAgain \/ Judge
      PROVE  UNCHANGED <<private, prepared, outcome>>
  BY <1>5 DEF Begin, Read, List, LookAgain, Judge, ReaderStep
<1>6. CASE UNCHANGED vars
  BY <1>3, <1>6 DEF vars
<1> QED BY <1>1, <1>2, <1>3, <1>4, <1>5, <1>6 DEF Next

\* A bundle that could be built is published: the verifier that stands before
\* the rename refuses none, but in the one case in which builder and verifier
\* disagree (prepare_publication, publish_prepared), for any lifecycles.
THEOREM BuiltIsPublished == PublicationSpec => []PreparedIsPublished
<1>1. Init => PreparedFrom /\ PreparedIsPublished
  BY DEF Init, PreparedFrom, PreparedIsPublished
<1> QED BY <1>1, PreparedInductive, PTL DEF PublicationSpec
=============================================================================
