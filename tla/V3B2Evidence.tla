---------------------------- MODULE V3B2Evidence ----------------------------
(***************************************************************************)
(* What a V3B-2 bundle says and what makes it true                         *)
(* (src/kil/v3b2_evidence.py): how the four producers of a track are       *)
(* reduced to public rows, which public manifest they are built into, and  *)
(* what the verifier, which sees the bundle and not the lifecycle, wants   *)
(* of one.  Builder and verifier are two programs: nothing here is shared  *)
(* between them that the code does not share.                              *)
(*                                                                         *)
(* Abstracted: identities, timestamps and names; a digest is a value.  A   *)
(* JSONL file is the sequence of its rows for every track (their order is  *)
(* the tracks').  Topology, policy, content, teardown and the boundary to  *)
(* private text are taken as valid.  A file is <<value>> when it parses    *)
(* and <<>> when not; a checksum is the value it is taken of.              *)
(***************************************************************************)
EXTENDS Naturals, Sequences

CONSTANTS
  Tracks,   \* the three tracks
  Expected  \* the outcome the closed contract expects of each

Outcomes == {"permit", "deny"}

ASSUME ContractAssumption == Expected \in [Tracks -> Outcomes]

----------------------------------------------------------------------------
(***************************************************************************)
(* A track's raw sources: what driver, authorization, Envoy and target     *)
(* wrote.  The driver's readiness record is always there; `driver` holds   *)
(* its result, if any.                                                     *)
(***************************************************************************)
Status(o) == IF o = "permit" THEN 200 ELSE 403
Markers(o) == IF o = "permit" THEN 1 ELSE 0

\* Driver, authorization and Envoy speak of one answer.
SameCall(d, a, e) ==
  /\ d.status = Status(a.outcome)
  /\ e.status = d.status
  /\ d.digest = a.digest
  /\ e.digest = a.digest
  /\ e.upstream <=> a.outcome = "permit"

\* adapt_producer_sources accepts the sources.
Adapts(raw, run) ==
  IF raw.driver = <<>>
    THEN raw.decision = <<>> /\ raw.envoy = <<>> /\ raw.target = <<>>
    ELSE
      /\ Len(raw.decision) = 1
      /\ Len(raw.envoy) = 1
      /\ SameCall(raw.driver[1], raw.decision[1], raw.envoy[1])
      /\ Len(raw.target) = Markers(raw.decision[1].outcome)
      /\ \A i \in DOMAIN raw.target :
           /\ raw.target[i].run = run
           /\ raw.target[i].digest = raw.decision[1].digest

NoRows == [driver |-> <<>>, decision |-> <<>>, envoy |-> <<>>, target |-> <<>>]

\* Its result: the rows that are published.
Reduced(raw) ==
  IF raw.driver = <<>> THEN NoRows
  ELSE LET d == raw.driver[1]  a == raw.decision[1]  e == raw.envoy[1] IN
    [driver |-> <<[decision |-> a.outcome, status |-> d.status,
                   digest |-> d.digest]>>,
     decision |-> <<[decision |-> a.outcome, digest |-> a.digest]>>,
     envoy |-> <<[digest |-> e.digest, upstream |-> a.outcome = "permit",
                  status |-> IF a.outcome = "permit" THEN d.status ELSE 0]>>,
     target |-> [i \in DOMAIN raw.target |-> 1]]

\* Mutant: the published rows are not derived again.
SourcesStand_RowsTrusted(sources, run) ==
  \A t \in Tracks : Adapts(sources[t].raw, run)

\* _records: every track's rows are the reduction of its sources, and there
\* is an answer exactly where the journal holds an instruction.
SourcesStand(sources, run) ==
  \A t \in Tracks :
    /\ Adapts(sources[t].raw, run)
    /\ sources[t].rows = Reduced(sources[t].raw)
    /\ sources[t].rows.driver # <<>> <=> sources[t].instructed

NothingAsked(sources) == \A t \in Tracks : sources[t].rows = NoRows

----------------------------------------------------------------------------
(***************************************************************************)
(* The builder.  A private manifest p holds the run, the sources, the      *)
(* tracks of its request cases, and whether the foreign profiles and the   *)
(* global context are what they were.                                      *)
(***************************************************************************)
\* join_nominal_evidence for one track.
Joins(t, rows) ==
  /\ Len(rows.driver) = 1 /\ Len(rows.decision) = 1 /\ Len(rows.envoy) = 1
  /\ Len(rows.target) = Markers(Expected[t])
  /\ rows.driver[1].digest = rows.decision[1].digest
  /\ rows.envoy[1].digest = rows.decision[1].digest
  /\ rows.driver[1].decision = Expected[t]
  /\ rows.decision[1].decision = Expected[t]
  /\ rows.driver[1].status = Status(Expected[t])
  /\ rows.envoy[1].upstream <=> Expected[t] = "permit"
  /\ rows.envoy[1].status = IF Expected[t] = "permit" THEN 200 ELSE 0

ResultClass(p) ==
  IF ~p.same \/ ~p.context THEN "diagnostic_foreign_state_mismatch"
  ELSE IF p.cases # {} THEN "nominal" ELSE "request-free"

\* Mutant: a mismatch may carry the requests that were answered.
Buildable_AnyMismatch(p) ==
  /\ SourcesStand(p.sources, p.run)
  /\ ResultClass(p) = "nominal" =>
       p.cases = Tracks /\ \A t \in Tracks : Joins(t, p.sources[t].rows)
  /\ ResultClass(p) = "request-free" => NothingAsked(p.sources)

Buildable(p) ==
  /\ SourcesStand(p.sources, p.run)
  /\ ResultClass(p) = "nominal" =>
       p.cases = Tracks /\ \A t \in Tracks : Joins(t, p.sources[t].rows)
  /\ ResultClass(p) # "nominal" => p.cases = {} /\ NothingAsked(p.sources)

Results(p) ==
  [t \in Tracks |->
     IF ResultClass(p) # "nominal" THEN <<>>
     ELSE LET d == p.sources[t].rows.driver[1] IN
       <<[decision |-> d.decision, status |-> d.status, digest |-> d.digest,
          markers |-> Markers(Expected[t])]>>]

SemanticJoins(p) ==
  [t \in Tracks |->
     IF ResultClass(p) # "nominal" THEN <<>>
     ELSE LET rows == p.sources[t].rows IN
       <<[decision |-> Expected[t], status |-> Status(Expected[t]),
          markers |-> Markers(Expected[t]), equal |-> TRUE,
          digest |-> rows.driver[1].digest,
          upstream |-> rows.envoy[1].upstream]>>]

DataFiles == {"requests.jsonl", "decisions.jsonl", "envoy.jsonl",
              "targets.jsonl", "joins.jsonl", "live.html"}
PublicFiles == DataFiles \cup {"manifest.json", "SHA256SUMS"}

\* _artifacts: every data file follows from the manifest alone.
Artifacts(m) ==
  LET Each(F(_)) ==
        [t \in Tracks |-> [i \in DOMAIN m.requests[t] |-> F(m.requests[t][i])]]
      Request(r) == [decision |-> r.decision, status |-> r.status,
                     digest |-> r.digest]
      Decision(r) == [decision |-> r.decision, digest |-> r.digest]
      Proxy(r) == [digest |-> r.digest, upstream |-> r.decision = "permit",
                   status |-> IF r.decision = "permit" THEN r.status ELSE 0]
      Marked == [t \in Tracks |->
                   IF m.requests[t] = <<>> THEN <<>>
                   ELSE [i \in 1..m.requests[t][1].markers |-> i]]
  IN [f \in DataFiles |->
        CASE f = "requests.jsonl" -> Each(Request)
          [] f = "decisions.jsonl" -> Each(Decision)
          [] f = "envoy.jsonl" -> Each(Proxy)
          [] f = "targets.jsonl" -> Marked
          [] f = "joins.jsonl" -> m.joins
          [] f = "live.html" -> m.class]

\* _public_commitment, over the manifest without it and the data files.
Commitment(m, data) ==
  <<[manifest |-> [m EXCEPT !.commitment = <<>>], files |-> data]>>

Committed(m) == [m EXCEPT !.commitment = Commitment(m, Artifacts(m))]

\* _build_public_bundle with its commitment.
Public(p) ==
  Committed([run |-> p.run, class |-> ResultClass(p), sources |-> p.sources,
             requests |-> Results(p), joins |-> SemanticJoins(p),
             same |-> p.same, unchanged |-> p.same, context |-> p.context,
             commitment |-> <<>>])

\* The finished files of prepare_publication.
Sums(payload) == [f \in PublicFiles \ {"SHA256SUMS"} |-> payload[f]]

Payload(m) ==
  LET listed == [f \in PublicFiles \ {"SHA256SUMS"} |->
                   IF f = "manifest.json" THEN <<m>> ELSE <<Artifacts(m)[f]>>]
  IN [f \in PublicFiles |->
        IF f = "SHA256SUMS" THEN <<listed>> ELSE listed[f]]

----------------------------------------------------------------------------
(***************************************************************************)
(* The verifier of a payload: _verify_sums and _verify_v3b2.               *)
(***************************************************************************)
\* _verify_public_source_attestations.
Attested(m, data) ==
  /\ \A t \in Tracks :
       /\ m.sources[t].rows.driver = data["requests.jsonl"][t]
       /\ m.sources[t].rows.decision = data["decisions.jsonl"][t]
       /\ m.sources[t].rows.envoy = data["envoy.jsonl"][t]
       /\ m.sources[t].rows.target = data["targets.jsonl"][t]
  /\ SourcesStand(m.sources, m.run)

\* _verify_nominal_public_records and the tuple before it, for one track.
NominalTrack(t, m, data) ==
  LET o == Expected[t]
      request == m.requests[t]  join == m.joins[t]
      asked == data["requests.jsonl"][t]
      decided == data["decisions.jsonl"][t]
      passed == data["envoy.jsonl"][t]
  IN /\ Len(request) = 1 /\ Len(join) = 1
     /\ Len(asked) = 1 /\ Len(decided) = 1 /\ Len(passed) = 1
     /\ data["targets.jsonl"][t] = [i \in 1..Markers(o) |-> i]
     /\ request[1].decision = o
     /\ request[1].status = Status(o)
     /\ request[1].markers = Markers(o)
     /\ asked[1] = [decision |-> request[1].decision,
                    status |-> request[1].status,
                    digest |-> request[1].digest]
     /\ decided[1].decision = o
     /\ join[1] = [decision |-> o, status |-> Status(o), markers |-> Markers(o),
                   equal |-> TRUE, digest |-> decided[1].digest,
                   upstream |-> o = "permit"]
     /\ passed[1] = [digest |-> decided[1].digest, upstream |-> o = "permit",
                     status |-> IF o = "permit" THEN 200 ELSE 0]
     /\ asked[1].digest = decided[1].digest

NothingIn(rows) == \A t \in Tracks : rows[t] = <<>>

ClassStands(m, data) ==
  /\ \/ /\ m.class = "nominal"
        /\ \A t \in Tracks : NominalTrack(t, m, data)
        /\ m.context /\ m.unchanged
     \/ /\ m.class = "request-free"
        /\ NothingIn(m.requests) /\ NothingIn(m.joins)
        /\ m.context /\ m.unchanged
     \/ /\ m.class = "diagnostic_foreign_state_mismatch"
        /\ NothingIn(m.requests) /\ NothingIn(m.joins)
        /\ \A f \in DataFiles \ {"live.html"} : NothingIn(data[f])
        /\ ~m.unchanged
  /\ Attested(m, data)

\* _verify_sums: each file is the one the checksums were taken of.
SumsMatch(payload) == payload["SHA256SUMS"] = <<Sums(payload)>>

Verifies(payload) ==
  /\ \A f \in PublicFiles : payload[f] # <<>>
  /\ SumsMatch(payload)
  /\ LET m == payload["manifest.json"][1]
         data == [f \in DataFiles |-> payload[f][1]]
     IN /\ m.unchanged = m.same
        /\ ClassStands(m, data)
        /\ m.commitment = Commitment(m, data)
        /\ Artifacts(m) = data

----------------------------------------------------------------------------
\* What nominal evidence is evidence of: on every track, one decision with
\* the contract's outcome, answered to the driver and shown to Envoy as that
\* very decision, and a marker of this run and decision exactly on a permit.
Earned(raw, run, o) ==
  /\ raw.driver # <<>> /\ Len(raw.decision) = 1 /\ Len(raw.envoy) = 1
  /\ raw.decision[1].outcome = o
  /\ raw.driver[1].status = Status(o)
  /\ raw.driver[1].digest = raw.decision[1].digest
  /\ raw.envoy[1].digest = raw.decision[1].digest
  /\ raw.envoy[1].upstream <=> o = "permit"
  /\ Len(raw.target) = Markers(o)
  /\ \A i \in DOMAIN raw.target :
       /\ raw.target[i].run = run
       /\ raw.target[i].digest = raw.decision[1].digest
=============================================================================
