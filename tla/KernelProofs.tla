---------------------------- MODULE KernelProofs ----------------------------
(***************************************************************************)
(* What the kernel decides and the replay reaches, for every value of the  *)
(* constants: whatever the decimal context computes for an exponential or  *)
(* a power, and for scenarios of any length; and what is published of it,  *)
(* for any number of processes.  Last, the reference gateway, for any      *)
(* fixtures and any number of calls.                                       *)
(***************************************************************************)
EXTENDS Replay, ReferenceGateway, RunBundle, FiniteSetTheorems, TLAPS

\* passive_decay stays between nothing and the signed charge.
LEMMA DecayedIsBounded ==
  ASSUME NEW s \in States, NEW now \in Times
  PROVE  Decayed(s, now) \in Int /\ 0 <= Decayed(s, now) /\ Decayed(s, now) <= s.charge
<1>1. s.charge \in Amounts /\ s.rate \in Rates /\ s.issued \in Times
  BY DEF States
<1>2. Age(s, now) \in Elapsed
  BY <1>1 DEF Age, Elapsed
<1>3. Computed[<<s.charge, s.rate, Age(s, now)>>] \in Int
  BY <1>1, <1>2, ComputedAssumption
<1>4. s.charge \in Nat
  BY <1>1, AmountsAssumption
<1> QED
  BY <1>3, <1>4 DEF Decayed, Least, Greatest

\* The charges of a decision fall from the signed to the decayed to the
\* effective one, whatever the mode and the evidence.
LEMMA ChargesFall ==
  ASSUME NEW s \in States, NEW now \in Times, NEW mode \in KilTracks, NEW e \in Evidence
  PROVE  /\ EffectiveCharge(s, now, mode, e) \in Int /\ DecayedCharge(s, now, mode, e) \in Int
         /\ 0 <= EffectiveCharge(s, now, mode, e)
         /\ EffectiveCharge(s, now, mode, e) <= DecayedCharge(s, now, mode, e)
         /\ DecayedCharge(s, now, mode, e) <= s.charge
<1>1. /\ s.charge \in Nat /\ s.maximum \in Nat
      /\ e.loss \in Nat /\ e.divergence \in Divergences
  BY AmountsAssumption DEF States, Evidence
<1>2. Loss(e) \in Nat
  BY <1>1, PenaltyAssumption DEF Loss
<1>3. Decayed(s, now) \in Int /\ 0 <= Decayed(s, now) /\ Decayed(s, now) <= s.charge
  BY DecayedIsBounded
<1>4. /\ Reduced(Decayed(s, now), s, e) \in Int
      /\ 0 <= Reduced(Decayed(s, now), s, e)
      /\ Reduced(Decayed(s, now), s, e) <= Decayed(s, now)
  BY <1>1, <1>2, <1>3, SlipAssumption DEF Reduced, Least, Greatest
<1> QED
  BY <1>1, <1>3, <1>4 DEF EffectiveCharge, DecayedCharge

\* decide never raises over the record it makes: every decision satisfies what
\* DecisionRecord insists on, for any rounding of the decimal context.
THEOREM DecideIsValid ==
  ASSUME NEW r \in Requests, NEW s \in States, NEW mode \in KilTracks,
         NEW e \in Evidence, NEW disposition \in {"closed", "constrained"}
  PROVE  ValidDecision(Decide(r, s, mode, e, disposition))
<1>1. r.time \in Times
  BY DEF Requests
<1>2. "permitted" \notin Reasons(r, s, mode, e)
  BY DEF Reasons, Refusals
<1>3. /\ 0 <= EffectiveCharge(s, r.time, mode, e)
      /\ EffectiveCharge(s, r.time, mode, e) <= DecayedCharge(s, r.time, mode, e)
      /\ DecayedCharge(s, r.time, mode, e) <= s.charge
  BY <1>1, ChargesFall
<1>4. CASE Reasons(r, s, mode, e) = {}
  BY <1>3, <1>4 DEF ValidDecision, Decide
<1>5. CASE Reasons(r, s, mode, e) # {}
  BY <1>2, <1>3, <1>5 DEF ValidDecision, Decide
<1> QED
  BY <1>4, <1>5

\* Local evidence only reduces: a request that the reducing mode permits is
\* permitted on the signed state alone (the purpose of the overlay in decide).
THEOREM LocalOnlyReduces ==
  ASSUME NEW r \in Requests, NEW s \in States, NEW e \in Evidence, NEW f \in Evidence,
         Permits(r, s, "local", e)
  PROVE  Permits(r, s, "signed", f)
<1>1. r.time \in Times /\ s.threshold \in Nat
  BY AmountsAssumption DEF Requests, States
<1>2. Reasons(r, s, "local", e) = {}
  BY DEF Permits, Decide
<1>3. /\ Refusals(r, s) = {}
      /\ ~Raises(s, r.time, "local", e)
      /\ ~(Stale("local", e) /\ ~Raises(s, r.time, "local", e))
      /\ ~(EffectiveCharge(s, r.time, "local", e) < s.threshold)
      /\ ~(s.history < s.minimum)
  BY <1>2 DEF Reasons
<1>4. ~Raises(s, r.time, "signed", f)
  BY <1>3 DEF Raises, Reduces
<1>5. EffectiveCharge(s, r.time, "signed", f) = Decayed(s, r.time)
  BY <1>4 DEF EffectiveCharge, Reduces
<1>6. DecayedCharge(s, r.time, "local", e) = Decayed(s, r.time)
  BY <1>3 DEF DecayedCharge
<1>7. ~(EffectiveCharge(s, r.time, "signed", f) < s.threshold)
  <2>1. /\ EffectiveCharge(s, r.time, "local", e) \in Int
        /\ DecayedCharge(s, r.time, "local", e) \in Int
        /\ EffectiveCharge(s, r.time, "local", e) <= DecayedCharge(s, r.time, "local", e)
    BY <1>1, ChargesFall DEF KilTracks
  <2> QED
    BY <1>1, <1>3, <1>5, <1>6, <2>1
<1>8. ~Stale("signed", f)
  BY DEF Stale
<1>9. Reasons(r, s, "signed", f) = {}
  BY <1>3, <1>4, <1>7, <1>8 DEF Reasons
<1> QED
  BY <1>9 DEF Permits, Decide

\* What verify_q_state lets through, decide does not refuse for whose it is or
\* for its window: the two sets of checks agree on every token and request.
THEOREM VerifiedIsNotRefused ==
  ASSUME NEW t \in Tokens, NEW r \in Requests, NEW keys, NEW revoked, NEW audience, NEW action,
         Verifies(t, keys, revoked, r, audience, action)
  PROVE  Refusals(r, t.claims.state) \subseteq {"veto", "outside_envelope"}
<1>1. /\ t.claims.state.notBefore \in Nat /\ t.claims.state.expires \in Nat
      /\ r.time \in Nat
  BY AmountsAssumption DEF Tokens, Claims, States, Requests
<1> QED
  BY <1>1 DEF Verifies, ValidClaims, Refusals

----------------------------------------------------------------------------
(***************************************************************************)
(* The replay of a scenario of any length.                                 *)
(***************************************************************************)
\* The record and event a replay works on are in the kernel's ranges.
LEMMA RequestIsWellFormed ==
  ASSUME NEW e \in Event
  PROVE  /\ RequestOf(e) \in Requests
         /\ e.id \in Ids /\ e.deps \subseteq Ids
         /\ e.body.state \in States /\ e.body.evidence \in Evidence
<1>1. /\ e.id \in Ids /\ e.deps \subseteq Ids
      /\ e.body \in [time : Times, state : States, evidence : Evidence,
                     credential : BOOLEAN, policy : BOOLEAN]
  BY BodiesAssumption DEF Event
<1>2. e.body.state.identity \in Names /\ e.body.state.class \in Names
  BY <1>1 DEF States
<1> QED
  BY <1>1, <1>2, IdsAssumption DEF RequestOf, Requests

\* Over one event, what the reducing track permits the signed track permits.
LEMMA PermittedOnlyReduces ==
  ASSUME NEW e \in Event, Permitted("local", e)
  PROVE  Permitted("signed", e)
<1>1. Permits(RequestOf(e), e.body.state, "local", e.body.evidence)
  BY DEF Permitted
<1>2. Permits(RequestOf(e), e.body.state, "signed", e.body.evidence)
  BY <1>1, RequestIsWellFormed, LocalOnlyReduces
<1> QED
  BY <1>2 DEF Permitted

\* A track's permission is a truth value.
LEMMA PermittedIsBoolean ==
  ASSUME NEW e \in Event, NEW t \in Tracks
  PROVE  Permitted(t, e) \in BOOLEAN
<1>1. e.body.credential \in BOOLEAN /\ e.body.policy \in BOOLEAN
  BY BodiesAssumption DEF Event
<1>2. CASE t = "baseline"
  BY <1>1, <1>2, Zenon DEF Permitted
<1>3. CASE t # "baseline"
  BY <1>3, Zenon DEF Permitted, Permits
<1> QED
  BY <1>2, <1>3

\* The scenario and the report of a replay are well formed and follow each
\* other event by event, for scenarios of any length (replay, load_scenario).
THEOREM ReplayTypeCorrect == ReplaySpec => []ReplayTypeOK
<1>1. ReplayInit => ReplayTypeOK
  BY DEF ReplayInit, ReplayTypeOK
<1>2. ReplayTypeOK /\ [ReplayNext]_replay => ReplayTypeOK'
  <2> SUFFICES ASSUME ReplayTypeOK, [ReplayNext]_replay PROVE ReplayTypeOK'
    OBVIOUS
  <2>1. ASSUME NEW e \in Event, Load(e) PROVE ReplayTypeOK'
    <3>1. CASE events' = Append(events, e) /\ stage' = stage
      <4>1. /\ events' \in Seq(Event) /\ Len(events') = Len(events) + 1
            /\ \A i \in 1..Len(events) : events'[i] = events[i]
        BY <3>1 DEF ReplayTypeOK
      <4> QED
        BY <2>1, <3>1, <4>1 DEF Load, ReplayTypeOK
    <3>2. CASE events' = events /\ stage' = "rejected"
      BY <2>1, <3>2 DEF Load, ReplayTypeOK
    <3> QED
      BY <2>1, <3>1, <3>2 DEF Load
  <2>2. ASSUME Loaded PROVE ReplayTypeOK'
    BY <2>2 DEF Loaded, ReplayTypeOK
  <2>3. ASSUME Step PROVE ReplayTypeOK'
    <3>1. Current \in Event /\ Current.id \in Ids
      BY <2>3, RequestIsWellFormed DEF Step, ReplayTypeOK, Current
    <3>2. \A t \in Tracks : Permitted(t, Current) \in BOOLEAN /\ Reachable(t) \in BOOLEAN
      BY <3>1, PermittedIsBoolean DEF Reachable
    <3>3. Paired \in [id : Ids, permit : [Tracks -> BOOLEAN], reachable : [Tracks -> BOOLEAN]]
      BY <3>1, <3>2 DEF Paired
    <3>4. /\ report' \in Seq([id : Ids, permit : [Tracks -> BOOLEAN],
                              reachable : [Tracks -> BOOLEAN]])
          /\ Len(report') = Len(report) + 1 /\ report'[Len(report) + 1] = Paired
          /\ \A i \in 1..Len(report) : report'[i] = report[i]
      BY <2>3, <3>3 DEF Step, ReplayTypeOK
    <3>5. \A i \in 1..Len(report') : report'[i].id = events'[i].id
      BY <2>3, <3>4 DEF Step, ReplayTypeOK, Paired, Current
    <3>6. success' \in [Tracks -> SUBSET Ids]
      BY <2>3, <3>1 DEF Step, ReplayTypeOK
    <3> QED
      BY <2>3, <3>4, <3>5, <3>6 DEF Step, ReplayTypeOK
  <2>4. ASSUME Replayed PROVE ReplayTypeOK'
    BY <2>4 DEF Replayed, ReplayTypeOK
  <2>5. ASSUME UNCHANGED replay PROVE ReplayTypeOK'
    BY <2>5 DEF replay, ReplayTypeOK
  <2> QED
    BY <2>1, <2>2, <2>3, <2>4, <2>5 DEF ReplayNext
<1> QED
  BY <1>1, <1>2, PTL DEF ReplaySpec

\* Local evidence opens no path: in a scenario of any length, over any web of
\* dependencies, what the reducing track reaches the signed track reaches.
THEOREM LocalPathsAreSigned == ReplaySpec => []LocalWithinSigned
<1>1. ReplayInit => LocalWithinSigned
  BY DEF ReplayInit, LocalWithinSigned, Tracks
<1>2. ReplayTypeOK /\ LocalWithinSigned /\ [ReplayNext]_replay => LocalWithinSigned'
  <2> SUFFICES ASSUME ReplayTypeOK, LocalWithinSigned, [ReplayNext]_replay
               PROVE  LocalWithinSigned'
    OBVIOUS
  <2>1. CASE success' = success
    BY <2>1 DEF LocalWithinSigned
  <2>2. CASE Step
    <3>1. Current \in Event
      BY <2>2 DEF Step, ReplayTypeOK, Current
    <3>2. \A t \in Tracks : success'[t] =
            success[t] \cup {id \in {Current.id} : Reachable(t) /\ Permitted(t, Current)}
      BY <2>2 DEF Step
    <3>3. Reachable("local") => Reachable("signed")
      BY DEF LocalWithinSigned, Reachable
    <3>4. Permitted("local", Current) => Permitted("signed", Current)
      BY <3>1, PermittedOnlyReduces
    <3> QED
      BY <3>2, <3>3, <3>4 DEF LocalWithinSigned, Tracks
  <2> QED
    BY <2>1, <2>2 DEF ReplayNext, Load, Loaded, Replayed, replay
<1> QED
  BY <1>1, <1>2, ReplayTypeCorrect, PTL DEF ReplaySpec

\* The order that the loader keeps, which SuccessIsConnected rests on: an event
\* depends on earlier ones only and repeats no ID, and a success was replayed.
Ordered ==
  /\ \A i \in 1..Len(events) : /\ events[i].deps \subseteq Seen(i - 1)
                               /\ events[i].id \notin Seen(i - 1)
  /\ \A t \in Tracks : success[t] \subseteq Seen(Len(report))

LEMMA OrderedInductive ==
  ReplayTypeOK /\ Ordered /\ [ReplayNext]_replay => Ordered'
<1> SUFFICES ASSUME ReplayTypeOK, Ordered, [ReplayNext]_replay PROVE Ordered'
  OBVIOUS
<1>1. ASSUME NEW e \in Event, Load(e), events' = Append(events, e) PROVE Ordered'
  <2>1. /\ Len(events') = Len(events) + 1 /\ events'[Len(events) + 1] = e
        /\ \A i \in 1..Len(events) : events'[i] = events[i]
        /\ report' = report /\ success' = success
        /\ Len(events) \in Nat /\ Len(report) \in Nat
    BY <1>1 DEF Load, ReplayTypeOK
  <2>2. \A n \in 0..Len(events) : Seen(n)' = Seen(n)
    BY <2>1 DEF Seen
  <2>3. e.deps \subseteq Seen(Len(events)) /\ e.id \notin Seen(Len(events))
    <3>1. stage = "loading" /\ events' # events
      <4>1. Len(events') # Len(events)
        BY <2>1
      <4> QED
        BY <1>1, <4>1 DEF Load
    <3> QED
      BY <1>1, <3>1 DEF Load
  <2>4. \A i \in 1..Len(events') : /\ events'[i].deps \subseteq Seen(i - 1)'
                                   /\ events'[i].id \notin Seen(i - 1)'
    <3> SUFFICES ASSUME NEW i \in 1..Len(events')
                 PROVE  /\ events'[i].deps \subseteq Seen(i - 1)'
                        /\ events'[i].id \notin Seen(i - 1)'
      OBVIOUS
    <3>1. i - 1 \in 0..Len(events) /\ Seen(i - 1)' = Seen(i - 1)
      BY <2>1, <2>2
    <3>2. CASE i = Len(events) + 1
      <4>1. i - 1 = Len(events)
        BY <2>1, <3>2
      <4> QED
        BY <2>1, <2>3, <3>1, <3>2, <4>1
    <3>3. CASE i \in 1..Len(events)
      BY <2>1, <3>1, <3>3 DEF Ordered
    <3> QED
      BY <2>1, <3>2, <3>3
  <2>5. \A t \in Tracks : success'[t] \subseteq Seen(Len(report))'
    BY <2>1, <2>2 DEF Ordered, ReplayTypeOK
  <2> QED
    BY <2>4, <2>5 DEF Ordered
<1>2. CASE Step
  <2>1. /\ events' = events /\ Len(report') = Len(report) + 1
        /\ Len(report) \in Nat /\ Len(report) + 1 \in 1..Len(events)
        /\ \A t \in Tracks : success'[t] \subseteq success[t] \cup {Current.id}
    BY <1>2 DEF Step, ReplayTypeOK
  <2>2. /\ Current.id \in Seen(Len(report) + 1)
        /\ Seen(Len(report)) \subseteq Seen(Len(report) + 1)
    BY <2>1 DEF Seen, Current
  <2>3. /\ Seen(Len(report))' = Seen(Len(report) + 1)
        /\ \A i \in 1..Len(events) : Seen(i - 1)' = Seen(i - 1)
    BY <2>1 DEF Seen
  <2>4. \A t \in Tracks : success'[t] \subseteq Seen(Len(report))'
    BY <2>1, <2>2, <2>3 DEF Ordered
  <2>5. \A i \in 1..Len(events') : /\ events'[i].deps \subseteq Seen(i - 1)'
                                   /\ events'[i].id \notin Seen(i - 1)'
    BY <2>1, <2>3 DEF Ordered
  <2> QED
    BY <2>4, <2>5 DEF Ordered
<1>3. CASE UNCHANGED <<events, success, report>>
  BY <1>3 DEF Ordered, Seen
<1> QED
  BY <1>1, <1>2, <1>3 DEF ReplayNext, Load, Loaded, Replayed, replay

LEMMA OrderHolds == ReplaySpec => []Ordered
<1>1. ReplayInit => Ordered
  BY DEF ReplayInit, Ordered, Seen, Tracks
<1> QED
  BY <1>1, OrderedInductive, ReplayTypeCorrect, PTL DEF ReplaySpec

\* For scenarios of any length an event succeeds exactly when it is permitted
\* and all it depends on has succeeded: a denial cuts off what hangs below it.
THEOREM DenialsCutOff == ReplaySpec => []SuccessIsConnected
<1>1. ReplayInit => SuccessIsConnected
  BY DEF ReplayInit, SuccessIsConnected
<1>2. ReplayTypeOK /\ Ordered /\ SuccessIsConnected /\ [ReplayNext]_replay
        => SuccessIsConnected'
  <2> SUFFICES ASSUME ReplayTypeOK, Ordered, SuccessIsConnected, [ReplayNext]_replay
               PROVE  SuccessIsConnected'
    OBVIOUS
  <2>1. CASE report' = report /\ success' = success
             /\ \A i \in 1..Len(events) : events'[i] = events[i]
    <3>1. \A i \in 1..Len(report') : events'[i] = events[i] /\ i \in 1..Len(report)
      BY <2>1 DEF ReplayTypeOK
    <3>2. \A t \in Tracks : \A i \in 1..Len(report') :
            Permitted(t, events'[i]) <=> Permitted(t, events[i])
      BY <3>1
    <3> QED
      BY <2>1, <3>1, <3>2 DEF SuccessIsConnected
  <2>2. CASE Step
    <3> SUFFICES ASSUME NEW t \in Tracks, NEW i \in 1..Len(report')
                 PROVE  events[i].id \in success'[t] <=>
                          Permitted(t, events[i]) /\ events[i].deps \subseteq success'[t]
      BY <2>2 DEF SuccessIsConnected, Step
    <3>1. /\ Len(report') = Len(report) + 1 /\ Len(report) \in Nat
          /\ Len(report) + 1 \in 1..Len(events)
          /\ success'[t] = success[t] \cup
               {id \in {Current.id} : Reachable(t) /\ Permitted(t, Current)}
      BY <2>2 DEF Step, ReplayTypeOK
    <3>2. /\ Current.id \notin Seen(Len(report))
          /\ success[t] \subseteq Seen(Len(report))
          /\ Current.deps \subseteq Seen(Len(report))
      <4>1. /\ events[Len(report) + 1].deps \subseteq Seen((Len(report) + 1) - 1)
            /\ events[Len(report) + 1].id \notin Seen((Len(report) + 1) - 1)
        BY <3>1 DEF Ordered
      <4> QED
        BY <3>1, <4>1 DEF Ordered, Current
    <3>3. CASE i = Len(report) + 1
      <4>1. events[i] = Current
        BY <3>3 DEF Current
      <4>2. Current.deps \subseteq success'[t] <=> Reachable(t)
        BY <3>1, <3>2 DEF Reachable
      <4> QED
        BY <3>1, <3>2, <4>1, <4>2
    <3>4. CASE i \in 1..Len(report)
      <4>1. events[i].id \in Seen(Len(report))
        BY <3>4 DEF Seen
      <4>2. events[i].deps \subseteq Seen(Len(report))
        <5>1. i \in 1..Len(events) /\ Seen(i - 1) \subseteq Seen(Len(report))
          BY <3>1, <3>4 DEF Seen
        <5> QED
          BY <5>1 DEF Ordered
      <4>3. events[i].id \in success'[t] <=> events[i].id \in success[t]
        BY <3>1, <3>2, <4>1
      <4>4. events[i].deps \subseteq success'[t] <=> events[i].deps \subseteq success[t]
        BY <3>1, <3>2, <4>2
      <4> QED
        BY <3>4, <4>3, <4>4 DEF SuccessIsConnected
    <3> QED
      BY <3>1, <3>3, <3>4
  <2>3. ASSUME NEW e \in Event, Load(e), events' = Append(events, e)
        PROVE  \A i \in 1..Len(events) : events'[i] = events[i]
    BY <2>3 DEF ReplayTypeOK
  <2> QED
    BY <2>1, <2>2, <2>3 DEF ReplayNext, Load, Loaded, Replayed, replay
<1> QED
  BY <1>1, <1>2, ReplayTypeCorrect, OrderHolds, PTL DEF ReplaySpec

----------------------------------------------------------------------------
(***************************************************************************)
(* The bundle under a run ID, for any number of processes and artifacts.   *)
(***************************************************************************)
\* A directory about to be renamed is complete, and one that is still written
\* holds whole files only.
Written ==
  /\ place \in [Writers -> {"idle", "refused", "writing", "written", "renamed",
                            "returned", "cleaning", "raised", "raised_cleaning", "killed"}]
  /\ temporary \in [Writers -> SUBSET Files]
  /\ \A p \in Writers : place[p] \in {"idle", "writing"} => temporary[p] \subseteq Complete
  /\ \A p \in Writers : place[p] = "written" => temporary[p] = Complete

Promise == BundleIsWhole /\ PublishedOnce

LEMMA CompleteIsThere == Complete # {} /\ Complete \subseteq Files
BY DEF Complete, Files

LEMMA InitPromises == BundleInit => Written /\ Promise
BY CompleteIsThere DEF BundleInit, Written, Promise, BundleIsWhole, PublishedOnce

LEMMA NextPromises ==
  Written /\ Promise /\ [BundleNext]_publication => Written' /\ Promise'
<1> SUFFICES ASSUME Written, Promise, [BundleNext]_publication PROVE Written' /\ Promise'
  OBVIOUS
<1> USE DEF Go
<1>1. ASSUME NEW p \in Writers, Check(p) PROVE Written' /\ Promise'
  BY <1>1 DEF Check, Written, Promise, BundleIsWhole, PublishedOnce
<1>2. ASSUME NEW p \in Writers, WriteArtifact(p) PROVE Written' /\ Promise'
  <2>1. PICK f \in Artifacts : temporary' = [temporary EXCEPT ![p] = @ \cup {Whole(f)}]
    BY <1>2 DEF WriteArtifact
  <2>2. Whole(f) \in Complete /\ Whole(f) \in Files
    BY DEF Complete, Files
  <2> QED
    BY <1>2, <2>1, <2>2 DEF WriteArtifact, Written, Promise, BundleIsWhole, PublishedOnce
<1>3. ASSUME NEW p \in Writers, WriteChecksums(p) PROVE Written' /\ Promise'
  <2>1. temporary[p] \cup {Whole("SHA256SUMS")} = Complete
    BY <1>3 DEF WriteChecksums, Written, Complete
  <2> QED
    BY <1>3, <2>1, CompleteIsThere
    DEF WriteChecksums, Written, Promise, BundleIsWhole, PublishedOnce
<1>4. ASSUME NEW p \in Writers, Rename(p) PROVE Written' /\ Promise'
  <2>1. CASE bundle = {}
    <3>1. bundle' = Complete /\ place' = [place EXCEPT ![p] = "renamed"]
          /\ temporary' = [temporary EXCEPT ![p] = {}]
      BY <1>4, <2>1 DEF Rename, Written
    <3>2. \A q \in Writers : place[q] \notin {"renamed", "returned"}
      BY <2>1, CompleteIsThere DEF Promise, PublishedOnce
    <3> QED
      BY <3>1, <3>2, CompleteIsThere DEF Written, Promise, BundleIsWhole, PublishedOnce
  <2>2. CASE bundle # {}
    BY <1>4, <2>2 DEF Rename, Written, Promise, BundleIsWhole, PublishedOnce
  <2> QED
    BY <2>1, <2>2
<1>5. ASSUME NEW p \in Writers, Fail(p) PROVE Written' /\ Promise'
  <2>1. temporary' \in [Writers -> SUBSET Files]
        /\ \A q \in Writers : q # p => temporary'[q] = temporary[q]
    BY <1>5 DEF Fail, Written, Files
  <2> QED
    BY <1>5, <2>1 DEF Fail, Written, Promise, BundleIsWhole, PublishedOnce
<1>6. ASSUME NEW p \in Writers, Clean(p) PROVE Written' /\ Promise'
  <2>1. temporary' \in [Writers -> SUBSET Files]
        /\ \A q \in Writers : q # p => temporary'[q] = temporary[q]
    BY <1>6 DEF Clean, Written
  <2>2. place' \in {[place EXCEPT ![p] = "raised"], [place EXCEPT ![p] = "raised_cleaning"]}
        /\ bundle' = bundle /\ place[p] = "cleaning"
    BY <1>6 DEF Clean
  <2> QED
    BY <2>1, <2>2 DEF Written, Promise, BundleIsWhole, PublishedOnce
<1>7. ASSUME NEW p \in Writers, Kill(p) PROVE Written' /\ Promise'
  BY <1>7 DEF Kill, Written, Promise, BundleIsWhole, PublishedOnce
<1>8. ASSUME NEW p \in Writers, Return(p) \/ Interrupt(p) PROVE Written' /\ Promise'
  BY <1>8 DEF Return, Interrupt, Written, Promise, BundleIsWhole, PublishedOnce
<1>9. CASE UNCHANGED publication
  BY <1>9 DEF publication, Written, Promise, BundleIsWhole, PublishedOnce
<1> QED
  BY <1>1, <1>2, <1>3, <1>4, <1>5, <1>6, <1>7, <1>8, <1>9 DEF BundleNext

\* Only a rename touches the bundle, and only where there is none.
LEMMA NextReplacesNothing == [BundleNext]_publication => (bundle # {} => bundle' = bundle)
BY DEF BundleNext, publication, Check, WriteArtifact, WriteChecksums, Rename, Return,
       Interrupt, Fail, Clean, Kill

\* A bundle under its run ID is complete, whoever failed or died on the way.
THEOREM BundlesAreWhole == BundleSpec => []BundleIsWhole
<1>1. Written /\ Promise => BundleIsWhole
  BY DEF Promise
<1> QED
  BY <1>1, InitPromises, NextPromises, PTL DEF BundleSpec

\* Of any number of processes at most one publishes, what it reports is there
\* whole, and nobody replaces or removes it, reported or not.
THEOREM OneProcessPublishes == BundleSpec => []PublishedOnce /\ NeverReplaced
<1>1. Written /\ Promise => PublishedOnce
  BY DEF Promise
<1>2. BundleSpec => []PublishedOnce
  BY <1>1, InitPromises, NextPromises, PTL DEF BundleSpec
<1>3. BundleSpec => NeverReplaced
  BY NextReplacesNothing, PTL DEF BundleSpec, NeverReplaced
<1> QED
  BY <1>2, <1>3
----------------------------------------------------------------------------
(***************************************************************************)
(* The reference gateway.  Its proof counts markers, its promise speaks of *)
(* answers: the markers of a track name exactly the requests it permitted  *)
(* (MarkersAreForwarded).                                                    *)
(***************************************************************************)
Forwarded(track, id) ==
  {k \in Asked(track, id) : results[k].decision.outcome = "permit"}

MarkedIds == {f.request.id : f \in Fixtures}

Answers ==
  [track : Tracks, fixture : Fixtures, proof : BOOLEAN,
   decision : UNION {{Evaluate(t, f) : f \in Fixtures} : t \in Tracks}]

MarkersAreForwarded ==
  /\ markers \in [Tracks -> Seq(MarkedIds)]
  /\ results \in Seq(Answers)
  /\ \A t \in Tracks, id \in MarkedIds :
       (\E i \in DOMAIN markers[t] : markers[t][i] = id)
         <=> Forwarded(t, id) # {}

\* One marker more is the only one where there was none, and there is none
\* where none was left.
LEMMA CountsTell ==
  ASSUME NEW I, NEW list \in Seq(I), NEW id \in I
  PROVE  /\ Marked(list, id) = 0 <=> ~\E i \in DOMAIN list : list[i] = id
         /\ Marked(Append(list, id), id) = 1 <=> ~\E i \in DOMAIN list : list[i] = id
<1> DEFINE S == {i \in DOMAIN list : list[i] = id}
           T == {i \in DOMAIN Append(list, id) : Append(list, id)[i] = id}
           n == Len(list) + 1
<1>1. IsFiniteSet(DOMAIN list)
  <2>1. IsFiniteSet(1..Len(list))
    BY FS_Interval
  <2> QED BY <2>1
<1>2. IsFiniteSet(S)
  BY <1>1, FS_Subset
<1>3. Cardinality(S) \in Nat /\ (Cardinality(S) = 0 <=> S = {})
  BY <1>2, FS_CardinalityType, FS_EmptySet
<1>4. T = S \cup {n} /\ n \notin S
  <2>1. /\ DOMAIN Append(list, id) = 1..n /\ DOMAIN list = 1..Len(list)
        /\ Append(list, id)[n] = id /\ Len(list) \in Nat
        /\ \A i \in 1..Len(list) : Append(list, id)[i] = list[i]
    OBVIOUS
  <2>2. 1..n = 1..Len(list) \cup {n} /\ n \notin 1..Len(list)
    BY <2>1
  <2> HIDE DEF n
  <2> QED BY <2>1, <2>2
<1>5. Cardinality(T) = Cardinality(S) + 1
  BY <1>2, <1>4, FS_AddElement
<1>6. Marked(list, id) = Cardinality(S) /\ Marked(Append(list, id), id) = Cardinality(T)
  BY DEF Marked
<1>7. S = {} <=> ~\E i \in DOMAIN list : list[i] = id
  OBVIOUS
<1> HIDE DEF S, T, n
<1> QED BY <1>3, <1>5, <1>6, <1>7

\* Every answer keeps markers and answers together, so its count of markers
\* tells of the answers before it.
LEMMA GatewayInductive ==
  MarkersAreForwarded /\ ProofIsHistory /\ [GatewayNext]_gateway
    => MarkersAreForwarded' /\ ProofIsHistory'
<1> SUFFICES ASSUME MarkersAreForwarded, ProofIsHistory, [GatewayNext]_gateway
             PROVE  MarkersAreForwarded' /\ ProofIsHistory'
  OBVIOUS
<1>1. CASE UNCHANGED gateway
  <2>1. UNCHANGED <<markers, results>>
    BY <1>1 DEF gateway
  <2>2. \A t, id : Forwarded(t, id)' = Forwarded(t, id)
    BY <2>1 DEF Forwarded, Asked
  <2>3. MarkersAreForwarded'
    BY <2>1, <2>2 DEF MarkersAreForwarded
  <2>4. ProofIsHistory'
    BY <2>1 DEF ProofIsHistory, Asked
  <2> QED BY <2>3, <2>4
<1>2. ASSUME NEW t \in Tracks, NEW f \in Fixtures, Handle(t, f)
      PROVE  MarkersAreForwarded' /\ ProofIsHistory'
  <2> DEFINE d == Evaluate(t, f)
             id == f.request.id
             permit == d.outcome = "permit"
             left == IF permit THEN [markers EXCEPT ![t] = Append(@, id)] ELSE markers
             proof == Proof(permit, Marked(left[t], id))
             answer == [track |-> t, fixture |-> f, decision |-> d, proof |-> proof]
  <2>0. PICK n \in Nat : n = Len(results) + 1
    BY DEF MarkersAreForwarded
  <2>1. markers' = left /\ results' = Append(results, answer)
    BY <1>2 DEF Handle
  <2>2. id \in MarkedIds
    BY DEF MarkedIds
  <2>3. answer \in Answers
    <3>1. d \in {Evaluate(t, g) : g \in Fixtures}
      OBVIOUS
    <3>2. d \in UNION {{Evaluate(u, g) : g \in Fixtures} : u \in Tracks}
      BY <3>1
    <3>3. proof \in BOOLEAN
      BY DEF Proof
    <3> HIDE DEF d, proof
    <3> QED BY <3>2, <3>3 DEF Answers
  <2>4. /\ answer.track = t /\ answer.fixture = f /\ answer.decision = d
        /\ answer.proof = proof /\ answer.proof \in BOOLEAN
    BY DEF Proof
  <2>5. /\ proof <=> ~\E i \in DOMAIN markers[t] : markers[t][i] = id
        /\ left \in [Tracks -> Seq(MarkedIds)]
        /\ permit => left[t] = Append(markers[t], id)
    <3>1. markers \in [Tracks -> Seq(MarkedIds)]
      BY DEF MarkersAreForwarded
    <3>2. left \in [Tracks -> Seq(MarkedIds)] /\ (permit => left[t] = Append(markers[t], id))
      BY <2>2, <3>1
    <3>3. ~permit => left = markers
      OBVIOUS
    <3> QED BY <2>2, <3>1, <3>2, <3>3, CountsTell DEF Proof
  <2>6. /\ results \in Seq(Answers) /\ results' \in Seq(Answers) /\ Len(results') = n
        /\ results'[n] = answer
        /\ \A k \in 1..Len(results) : results'[k] = results[k]
    <3> HIDE DEF answer
    <3> QED BY <2>0, <2>1, <2>3 DEF MarkersAreForwarded
  <2> HIDE DEF answer, proof, left, d
  <2>7. ASSUME NEW u \in Tracks, NEW x \in MarkedIds
        PROVE  Forwarded(u, x)' # {} <=> Forwarded(u, x) # {} \/ (u = t /\ x = id /\ permit)
    <3>1. \A k : k \in Forwarded(u, x)' <=>
            /\ k \in 1..n
            /\ results'[k].track = u /\ results'[k].fixture.request.id = x
            /\ results'[k].decision.outcome = "permit"
      BY <2>6 DEF Forwarded, Asked
    <3>2. \A k : k \in Forwarded(u, x) <=>
            /\ k \in 1..Len(results)
            /\ results[k].track = u /\ results[k].fixture.request.id = x
            /\ results[k].decision.outcome = "permit"
      BY DEF Forwarded, Asked
    <3>3. \A k \in 1..Len(results) : k \in Forwarded(u, x)' <=> k \in Forwarded(u, x)
      BY <2>0, <2>6, <3>1, <3>2
    <3>4. n \in Forwarded(u, x)' <=> u = t /\ x = id /\ permit
      BY <2>0, <2>4, <2>6, <3>1
    <3>5. \A k \in 1..n : k = n \/ k \in 1..Len(results)
      BY <2>0
    <3>6. Forwarded(u, x)' \subseteq 1..n /\ Forwarded(u, x) \subseteq 1..Len(results)
      BY <3>1, <3>2
    <3> HIDE DEF permit, id
    <3> QED BY <3>3, <3>4, <3>5, <3>6
  <2>8. ASSUME NEW u \in Tracks, NEW x \in MarkedIds
        PROVE  (\E i \in DOMAIN left[u] : left[u][i] = x)
                 <=> (\E i \in DOMAIN markers[u] : markers[u][i] = x) \/ (u = t /\ x = id /\ permit)
    <3>1. CASE permit /\ u = t
      <4>1. left[u] = Append(markers[t], id) /\ markers[t] \in Seq(MarkedIds)
        BY <2>5, <3>1 DEF MarkersAreForwarded
      <4>2. /\ DOMAIN left[u] = 1..(Len(markers[t]) + 1) /\ DOMAIN markers[t] = 1..Len(markers[t])
            /\ left[u][Len(markers[t]) + 1] = id
            /\ \A i \in 1..Len(markers[t]) : left[u][i] = markers[t][i]
        BY <2>2, <4>1
      <4> QED BY <3>1, <4>2
    <3>2. CASE ~(permit /\ u = t)
      <4>1. left[u] = markers[u]
        BY <3>2 DEF left, MarkersAreForwarded
      <4> QED BY <3>2, <4>1
    <3> QED BY <3>1, <3>2
  <2>9. MarkersAreForwarded'
    <3>1. \A u \in Tracks, x \in MarkedIds :
            (\E i \in DOMAIN markers'[u] : markers'[u][i] = x) <=> Forwarded(u, x)' # {}
      <4> SUFFICES ASSUME NEW u \in Tracks, NEW x \in MarkedIds
                   PROVE  (\E i \in DOMAIN left[u] : left[u][i] = x) <=> Forwarded(u, x)' # {}
        BY <2>1
      <4>1. (\E i \in DOMAIN markers[u] : markers[u][i] = x) <=> Forwarded(u, x) # {}
        BY DEF MarkersAreForwarded
      <4> HIDE DEF permit, id
      <4> QED BY <2>7, <2>8, <4>1
    <3> QED BY <2>1, <2>5, <2>6, <3>1 DEF MarkersAreForwarded
  <2>10. ProofIsHistory'
    <3> SUFFICES ASSUME NEW i \in 1..n
                 PROVE  results'[i].proof <=>
                          \A k \in 1..(i - 1) :
                            results'[k].track = results'[i].track
                            /\ results'[k].fixture.request.id = results'[i].fixture.request.id
                              => results'[k].decision.outcome # "permit"
      BY <2>6 DEF ProofIsHistory, Asked
    <3>1. CASE i \in 1..Len(results)
      <4>1. \A k \in 1..i : k \in 1..Len(results) /\ results'[k] = results[k]
        BY <2>0, <2>6, <3>1
      <4>2. results[i].proof <=>
              \A k \in 1..(i - 1) :
                results[k].track = results[i].track
                /\ results[k].fixture.request.id = results[i].fixture.request.id
                  => results[k].decision.outcome # "permit"
        <5>1. \A k \in 1..(i - 1) : k \in 1..Len(results)
          BY <2>0, <3>1
        <5> QED BY <3>1, <5>1 DEF ProofIsHistory, Asked
      <4>3. i \in 1..i /\ \A k \in 1..(i - 1) : k \in 1..i
        BY <2>0, <3>1
      <4> QED BY <4>1, <4>2, <4>3
    <3>2. CASE i = n
      <4>1. results'[i].proof = proof /\ results'[i].track = t /\ results'[i].fixture.request.id = id
        BY <2>0, <2>4, <2>6, <3>2
      <4>2. proof <=> Forwarded(t, id) = {}
        BY <2>2, <2>5 DEF MarkersAreForwarded
      <4>3. \A k \in 1..(i - 1) : k \in 1..Len(results) /\ results'[k] = results[k]
        BY <2>0, <2>6, <3>2
      <4>4. i - 1 = Len(results)
        BY <2>0, <2>6, <3>2
      <4> HIDE DEF permit, id
      <4> QED BY <4>1, <4>2, <4>3, <4>4 DEF Forwarded, Asked
    <3> QED BY <2>0, <3>1, <3>2
  <2> QED BY <2>9, <2>10
<1> QED BY <1>1, <1>2 DEF GatewayNext

\* The proof in an answer of the gateway tells the whole history of its
\* request on its track, for any fixtures and any number of calls.
THEOREM ProofsAreHistories == GatewaySpec => []ProofIsHistory
<1>1. GatewayInit => MarkersAreForwarded /\ ProofIsHistory
  BY DEF GatewayInit, MarkersAreForwarded, ProofIsHistory, Forwarded, Asked
<1> QED BY <1>1, GatewayInductive, PTL DEF GatewaySpec
=============================================================================
