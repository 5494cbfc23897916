------------------------- MODULE V3B2JournalProofs -------------------------
(***************************************************************************)
(* What V3B2Journal guarantees for any number of tracks, with or without   *)
(* committed inputs, and what recovery_plan makes of any of its journals.  *)
(*                                                                         *)
(* Every proof goes through one lemma, Moves: how a step may move one      *)
(* pair.  Settled pairs never move, so a fact about settled pairs, once    *)
(* true, stays true, and only the step that establishes it is left.        *)
(***************************************************************************)
EXTENDS V3B2RecoveryPlan, TLAPS, WellFoundedInduction

Settled == {"complete", "failed", "abandoned"}

\* The pair op is left alone, claimed, answered, or given the terminal s.
Moved(op) ==
  \/ stage'[op] = stage[op]
  \/ /\ IntentAdmitted(op)
     /\ stage'[op] = "pending"
     /\ UNCHANGED <<mode, latched, comparison>>
  \/ /\ op[1] = "request"
     /\ ResultAdmitted(op[2])
     /\ stage'[op] = "complete"
     /\ UNCHANGED <<mode, latched, comparison>>
  \/ \E s \in Settled :
       /\ TerminalAdmitted(op, s)
       /\ stage'[op] = s
       /\ committed => DecisionAdmitted(op, s)
       /\ committed /\ s # "complete" => latched'

----------------------------------------------------------------------------
\* The pairs of the model: a family and its key, the single-key ones once.
LEMMA OpsOf ==
  /\ \A f \in SingleFamilies : Op(f) \in Ops
  /\ \A f \in TrackFamilies, t \in Tracks : <<f, t>> \in Ops
  /\ \A op \in Ops : op = <<op[1], op[2]>>
  /\ \A op \in Ops : op[1] \in TrackFamilies => op[2] \in Tracks
  /\ \A op \in Ops : op[1] \in SingleFamilies => op = Op(op[1])
BY DEF Ops, Op, SingleFamilies, SetupFamilies, CleanupFamilies, TrackFamilies

\* The state is well formed in every reachable state.
LEMMA TypeInit == Init => TypeOK
BY DEF Init, TypeOK, Stages

\* Every operation on the journal keeps the state well formed.
LEMMA TypeStep == TypeOK /\ [Next]_vars => TypeOK'
<1> SUFFICES ASSUME TypeOK, [Next]_vars PROVE TypeOK'
  OBVIOUS
<1> USE DEF TypeOK, Stages
<1>1. ASSUME NEW m \in Modes, SelectMode(m) PROVE TypeOK'
  BY <1>1 DEF SelectMode
<1>2. ASSUME NEW op \in Ops, AppendIntent(op) PROVE TypeOK'
  BY <1>2 DEF AppendIntent
<1>3. ASSUME NEW t \in Tracks, AppendRequestResult(t) PROVE TypeOK'
  BY <1>3 DEF AppendRequestResult
<1>4. ASSUME NEW op \in Ops, NEW s \in {"complete", "failed", "abandoned"},
             AppendTerminal(op, s)
      PROVE TypeOK'
  BY <1>4 DEF AppendTerminal, Compared
<1>5. ASSUME NEW op \in Ops, NEW s \in {"complete", "failed", "abandoned"},
             AppendObservedTerminal(op, s)
      PROVE TypeOK'
  BY <1>5 DEF AppendObservedTerminal, Compared
<1>6. CASE LatchTeardown
  BY <1>6 DEF LatchTeardown
<1>7. CASE LatchRefusal
  BY <1>7 DEF LatchRefusal
<1>8. CASE UNCHANGED vars
  BY <1>8 DEF vars
<1> QED
  BY <1>1, <1>2, <1>3, <1>4, <1>5, <1>6, <1>7, <1>8 DEF Next

\* The table `_validate_history` derives is well formed in every journal the
\* operations can write.
THEOREM TypeCorrect == Spec => []TypeOK
<1>1. Init => TypeOK
  BY TypeInit
<1>2. TypeOK /\ [Next]_vars => TypeOK'
  BY TypeStep
<1> QED
  BY <1>1, <1>2, PTL DEF Spec

----------------------------------------------------------------------------
\* How one step moves one pair.
LEMMA Moves ==
  ASSUME TypeOK, [Next]_vars
  PROVE  \A op \in Ops : Moved(op)
<1> SUFFICES ASSUME NEW op \in Ops PROVE Moved(op)
  OBVIOUS
<1> USE DEF Moved, TypeOK, Settled
<1>1. ASSUME NEW m \in Modes, SelectMode(m) PROVE Moved(op)
  BY <1>1 DEF SelectMode
<1>2. ASSUME NEW p \in Ops, AppendIntent(p) PROVE Moved(op)
  <2>1. CASE p = op
    BY <1>2, <2>1 DEF AppendIntent
  <2>2. CASE p # op
    BY <1>2, <2>2 DEF AppendIntent
  <2> QED
    BY <2>1, <2>2
<1>3. ASSUME NEW t \in Tracks, AppendRequestResult(t) PROVE Moved(op)
  <2>1. CASE op = <<"request", t>>
    BY <1>3, <2>1 DEF AppendRequestResult
  <2>2. CASE op # <<"request", t>>
    BY <1>3, <2>2 DEF AppendRequestResult
  <2> QED
    BY <2>1, <2>2
<1>4. ASSUME NEW p \in Ops, NEW s \in Settled, AppendTerminal(p, s)
      PROVE Moved(op)
  <2>1. CASE p = op
    BY <1>4, <2>1 DEF AppendTerminal
  <2>2. CASE p # op
    BY <1>4, <2>2 DEF AppendTerminal
  <2> QED
    BY <2>1, <2>2
<1>5. ASSUME NEW p \in Ops, NEW s \in Settled, AppendObservedTerminal(p, s)
      PROVE Moved(op)
  <2>1. CASE p = op
    BY <1>5, <2>1 DEF AppendObservedTerminal
  <2>2. CASE p # op
    BY <1>5, <2>2 DEF AppendObservedTerminal
  <2> QED
    BY <2>1, <2>2
<1>6. CASE LatchTeardown
  BY <1>6 DEF LatchTeardown
<1>7. CASE LatchRefusal
  BY <1>7 DEF LatchRefusal
<1>8. CASE UNCHANGED vars
  BY <1>8 DEF vars
<1> QED
  BY <1>1, <1>2, <1>3, <1>4, <1>5, <1>6, <1>7, <1>8 DEF Next

\* A settled pair stays as it is and a claimed pair stays claimed.
LEMMA SettledStays ==
  ASSUME TypeOK, [Next]_vars, NEW op \in Ops
  PROVE  /\ stage[op] \in Settled => stage'[op] = stage[op]
         /\ stage[op] # "none" => stage'[op] # "none"
<1>1. Moved(op)
  BY Moves
<1> QED
  BY <1>1, OpsOf
     DEF Moved, IntentAdmitted, ResultAdmitted, TerminalAdmitted, Settled,
         Request, TrackFamilies

\* The inputs stay committed, the mode is fixed by the first event, the latch
\* never falls, a refusal stands, and the comparison is written only by its
\* pending operation.
LEMMA Frames ==
  ASSUME TypeOK, [Next]_vars
  PROVE  /\ committed' = committed
         /\ mode' = mode \/ (NoEvents /\ stage' = stage)
         /\ latched => latched'
         /\ refused => refused'
         /\ refused' => refused \/ (latched' /\ stage' = stage
                                   /\ Stage("profile_start") = "pending")
         /\ \/ comparison' = comparison
            \/ Stage("foreign_snapshot_comparison") = "pending"
<1>1. ASSUME NEW m \in Modes, SelectMode(m)
      PROVE  /\ NoEvents /\ stage' = stage
             /\ UNCHANGED <<committed, latched, refused, comparison>>
  BY <1>1 DEF SelectMode
<1>2. ASSUME NEW op \in Ops, AppendIntent(op)
      PROVE UNCHANGED <<committed, mode, latched, refused, comparison>>
  BY <1>2 DEF AppendIntent
<1>3. ASSUME NEW t \in Tracks, AppendRequestResult(t)
      PROVE UNCHANGED <<committed, mode, latched, refused, comparison>>
  BY <1>3 DEF AppendRequestResult
<1>4. ASSUME NEW op \in Ops, NEW s \in Settled,
             AppendTerminal(op, s) \/ AppendObservedTerminal(op, s)
      PROVE /\ UNCHANGED <<committed, mode, refused>>
            /\ latched => latched'
            /\ \/ comparison' = comparison
               \/ Stage("foreign_snapshot_comparison") = "pending"
  BY <1>4 DEF AppendTerminal, AppendObservedTerminal, Compared,
     TerminalAdmitted, Stage, TypeOK
<1>5. CASE LatchTeardown
  BY <1>5 DEF LatchTeardown
<1>6. CASE LatchRefusal
  BY <1>6 DEF LatchRefusal
<1>7. CASE UNCHANGED vars
  BY <1>7 DEF vars
<1> QED
  BY <1>1, <1>2, <1>3, <1>4, <1>5, <1>6, <1>7 DEF Next, Settled

----------------------------------------------------------------------------
(***************************************************************************)
(* The inductive invariant.  A request is never failed or abandoned, which *)
(* RequestChain needs to know an earlier claim is answered; and the four   *)
(* links behind a publication are facts of their own, each established     *)
(* when the later operation was intended.                                  *)
(***************************************************************************)
RequestStages == \A t \in Tracks : Request(t) \in {"none", "pending", "complete"}

TeardownLinks ==
  /\ Stage("foreign_snapshot_comparison") # "none" =>
       Done("profile_absence_proof")
  /\ Stage("profile_absence_proof") # "none" =>
       Done("profile_delete") \/ Stage("profile_start") = "failed"
  /\ Stage("profile_delete") # "none" => Done("profile_stop")
  /\ Stage("profile_stop") # "none" =>
       Stage("profile_start") \in {"complete", "abandoned"}

IInv ==
  /\ TypeOK
  /\ RequestStages
  /\ RequestChain
  /\ FailureLatches
  /\ CancelAfterFreeze
  /\ TeardownLinks
  /\ PublicationFollowsTeardown

\* The prepared journal, without events, satisfies the inductive invariant.
LEMMA IInvInit == Init => IInv
<1> SUFFICES ASSUME Init PROVE IInv
  OBVIOUS
<1>1. TypeOK
  BY TypeInit
<1>2. \A op \in Ops : stage[op] = "none"
  BY DEF Init
<1>3. \A t \in Tracks : Request(t) = "none" /\ Cancel(t) = "none"
  BY <1>2, OpsOf DEF Request, Cancel, TrackFamilies
<1>4. \A f \in SingleFamilies : Stage(f) = "none"
  BY <1>2, OpsOf DEF Stage
<1>5. RequestStages /\ RequestChain /\ CancelAfterFreeze
  BY <1>3 DEF RequestStages, RequestChain, CancelAfterFreeze, Claimed
<1>6. FailureLatches
  BY <1>2 DEF FailureLatches, SomeFailed, SomeAbandoned, Init
<1>7. TeardownLinks /\ PublicationFollowsTeardown
  BY <1>4 DEF TeardownLinks, PublicationFollowsTeardown, SingleFamilies,
     CleanupFamilies
<1> QED
  BY <1>1, <1>5, <1>6, <1>7 DEF IInv

\* How the stage of a family's or a track's pair reads in these proofs.
LEMMA Readings ==
  ASSUME TypeOK, [Next]_vars
  PROVE  /\ \A f \in SingleFamilies :
              /\ Moved(Op(f))
              /\ Done(f) => Done(f)'
              /\ Stage(f) \in Settled => Stage(f)' = Stage(f)
              /\ Stage(f) # "none" => Stage(f)' # "none"
         /\ \A t \in Tracks :
              /\ Moved(<<"request", t>>)
              /\ Moved(<<"driver_cancel", t>>)
              /\ Request(t) = "complete" => Request(t)' = "complete"
              /\ t \in Started => t \in Started'
              /\ t \in Claimed => t \in Claimed'
<1>1. \A op \in Ops : Moved(op)
  BY Moves
<1>2. \A op \in Ops : /\ stage[op] \in Settled => stage'[op] = stage[op]
                      /\ stage[op] # "none" => stage'[op] # "none"
  BY SettledStays
<1>3. ASSUME NEW f \in SingleFamilies
      PROVE  /\ Moved(Op(f))
             /\ Done(f) => Done(f)'
             /\ Stage(f) \in Settled => Stage(f)' = Stage(f)
             /\ Stage(f) # "none" => Stage(f)' # "none"
  <2>1. Op(f) \in Ops
    BY OpsOf
  <2> QED
    BY <1>1, <1>2, <2>1 DEF Done, Stage, Settled, Op
<1>4. ASSUME NEW t \in Tracks
      PROVE  /\ Moved(<<"request", t>>)
             /\ Moved(<<"driver_cancel", t>>)
             /\ Request(t) = "complete" => Request(t)' = "complete"
             /\ t \in Started => t \in Started'
             /\ t \in Claimed => t \in Claimed'
  <2>1. \A f \in TrackFamilies : <<f, t>> \in Ops
    BY OpsOf
  <2> QED
    BY <1>1, <1>2, <2>1 DEF TrackFamilies, Request, Started, Claimed, Start,
       Cancel, Settled, Tracks
<1> QED
  BY <1>3, <1>4

----------------------------------------------------------------------------
\* Every step keeps the inductive invariant.
LEMMA IInvStep == IInv /\ [Next]_vars => IInv'
<1> SUFFICES ASSUME IInv, [Next]_vars PROVE IInv'
  OBVIOUS
<1>t. TypeOK
  BY DEF IInv
<1>r. /\ \A f \in SingleFamilies :
           /\ Moved(Op(f))
           /\ Done(f) => Done(f)'
           /\ Stage(f) \in Settled => Stage(f)' = Stage(f)
           /\ Stage(f) # "none" => Stage(f)' # "none"
      /\ \A t \in Tracks :
           /\ Moved(<<"request", t>>)
           /\ Moved(<<"driver_cancel", t>>)
           /\ Request(t) = "complete" => Request(t)' = "complete"
           /\ t \in Started => t \in Started'
           /\ t \in Claimed => t \in Claimed'
  BY <1>t, Readings
<1>f. /\ committed' = committed
      /\ mode' = mode \/ (NoEvents /\ stage' = stage)
      /\ latched => latched'
      /\ refused' => refused \/ (latched' /\ stage' = stage
                                /\ Stage("profile_start") = "pending")
      /\ \/ comparison' = comparison
         \/ Stage("foreign_snapshot_comparison") = "pending"
  BY <1>t, Frames
<1>s. {"profile_start", "readiness", "evidence_freeze", "profile_stop",
       "profile_delete", "profile_absence_proof",
       "foreign_snapshot_comparison", "publication"} \subseteq SingleFamilies
  BY DEF SingleFamilies, SetupFamilies, CleanupFamilies
<1>n. NoEvents => \A t \in Tracks : Request(t) = "none" /\ Cancel(t) = "none"
  BY OpsOf DEF NoEvents, Request, Cancel, TrackFamilies
<1>b. \A t \in Tracks : Before(t) \subseteq Tracks
  BY NumTracksAssumption DEF Before, Tracks
<1>1. TypeOK'
  BY <1>t, TypeStep
<1>2. RequestStages'
  <2> SUFFICES ASSUME NEW t \in Tracks
               PROVE  Request(t)' \in {"none", "pending", "complete"}
    BY DEF RequestStages, Tracks
  <2>1. Request(t) \in {"none", "pending", "complete"}
    BY DEF IInv, RequestStages
  <2>2. Moved(<<"request", t>>)
    BY <1>r
  <2> QED
    BY <2>1, <2>2 DEF Moved, TerminalAdmitted, Request
<1>3. RequestChain'
  <2> SUFFICES ASSUME NEW t \in Tracks, t \in Claimed'
               PROVE  /\ mode' = "nominal"
                      /\ Done("readiness")'
                      /\ t \in Started'
                      /\ \A u \in Before(t) : Request(u)' = "complete"
    BY DEF RequestChain, Claimed, Tracks, Before
  <2>1. /\ mode = "nominal" /\ mode' = mode
        /\ Done("readiness")
        /\ t \in Started
        /\ \A u \in Before(t) : Request(u) = "complete"
    <3>1. CASE t \in Claimed
      BY <3>1, <1>f, <1>n DEF IInv, RequestChain, Claimed
    <3>2. CASE t \notin Claimed
      <4>1. IntentAdmitted(<<"request", t>>) /\ mode' = mode
        BY <3>2, <1>r DEF Moved, Claimed, Request, ResultAdmitted,
           TerminalAdmitted
      <4>2. RequestOrder(t) /\ RequestAllows("request")
        BY <4>1 DEF IntentAdmitted
      <4>3. ~RequestPending
        BY <4>2 DEF RequestOrder, RequestAllows, BeforeFreeze, RequestAbandoned
      <4>4. \A u \in Before(t) : Request(u) = "complete"
        BY <4>2, <4>3, <1>b DEF RequestOrder, RequestPending, Claimed, IInv,
           RequestStages
      <4> QED
        BY <4>1, <4>2, <4>4 DEF RequestOrder, BeforeFreeze
    <3> QED
      BY <3>1, <3>2
  <2> QED
    BY <2>1, <1>r, <1>s, <1>b
<1>4. FailureLatches'
  <2>1. ASSUME committed, NEW op \in Ops, stage'[op] \in {"failed", "abandoned"}
        PROVE  latched'
    <3>1. CASE stage'[op] = stage[op]
      BY <2>1, <3>1, <1>f DEF IInv, FailureLatches, SomeFailed, SomeAbandoned
    <3>2. CASE stage'[op] # stage[op]
      <4>1. Moved(op)
        BY <1>t, Moves
      <4> QED
        BY <2>1, <3>2, <4>1 DEF Moved, Settled
    <3> QED
      BY <3>1, <3>2
  <2>2. ASSUME refused'
        PROVE  latched' /\ Stage("profile_start")' = "pending"
    <3>1. CASE refused
      <4>1. latched /\ Stage("profile_start") = "pending"
        BY <3>1 DEF IInv, FailureLatches
      <4>2. Moved(Op("profile_start"))
        BY <1>r, <1>s
      <4>3. Stage("profile_start")' = Stage("profile_start")
        BY <3>1, <4>2 DEF Moved, IntentAdmitted, TerminalAdmitted, Stage, Op
      <4> QED
        BY <4>1, <4>3, <1>f
    <3>2. CASE ~refused
      BY <2>2, <3>2, <1>f DEF Stage
    <3> QED
      BY <3>1, <3>2
  <2>3. ASSUME committed', (SomeFailed \/ SomeAbandoned)'
        PROVE  latched'
    <3>1. committed
      BY <2>3, <1>f
    <3>2. PICK op \in Ops : stage'[op] \in {"failed", "abandoned"}
      BY <2>3 DEF SomeFailed, SomeAbandoned
    <3> QED
      BY <2>1, <3>1, <3>2
  <2> QED
    BY <2>2, <2>3 DEF FailureLatches
<1>5. CancelAfterFreeze'
  <2> SUFFICES ASSUME mode' = "nominal", NEW t \in Tracks, Cancel(t)' # "none"
               PROVE  Done("evidence_freeze")'
    BY DEF CancelAfterFreeze, Tracks
  <2>1. mode = "nominal"
    BY <1>f, <1>n DEF Cancel
  <2>2. Done("evidence_freeze")
    <3>1. CASE Cancel(t) # "none"
      BY <3>1, <2>1 DEF IInv, CancelAfterFreeze
    <3>2. CASE Cancel(t) = "none"
      <4>1. IntentAdmitted(<<"driver_cancel", t>>)
        BY <3>2, <1>r DEF Moved, Cancel, TerminalAdmitted
      <4> QED
        BY <4>1, <2>1 DEF IntentAdmitted, DriverCancelOrder
    <3> QED
      BY <3>1, <3>2
  <2> QED
    BY <2>2, <1>r, <1>s
<1>i. ASSUME NEW f \in SingleFamilies, Stage(f) = "none", Stage(f)' # "none"
      PROVE  /\ IntentAdmitted(Op(f))
             /\ TeardownOrder(f)
             /\ f = "publication" => PublicationOrder
             /\ comparison' = comparison
  <2>1. IntentAdmitted(Op(f)) /\ comparison' = comparison
    <3>1. Moved(Op(f))
      BY <1>r
    <3>2. f # "request"
      BY DEF SingleFamilies, SetupFamilies, CleanupFamilies
    <3> QED
      BY <1>i, <3>1, <3>2 DEF Moved, Stage, TerminalAdmitted, Op
  <2> QED
    BY <2>1 DEF IntentAdmitted, Op
<1>6. TeardownLinks'
  <2>1. /\ Stage("foreign_snapshot_comparison")' # "none" =>
             Done("profile_absence_proof")
        /\ Stage("profile_absence_proof")' # "none" =>
             Done("profile_delete") \/ Stage("profile_start") = "failed"
        /\ Stage("profile_delete")' # "none" => Done("profile_stop")
        /\ Stage("profile_stop")' # "none" =>
             Stage("profile_start") \in {"complete", "abandoned"}
    BY <1>i, <1>s DEF IInv, TeardownLinks, TeardownOrder
  <2> QED
    BY <2>1, <1>r, <1>s DEF TeardownLinks, Settled, Done
<1>7. PublicationFollowsTeardown'
  <2> SUFFICES ASSUME Stage("publication")' # "none"
               PROVE  PublicationFollowsTeardown'
    BY DEF PublicationFollowsTeardown, Stage
  <2>1. CASE Stage("publication") # "none"
    BY <2>1, <1>r, <1>s, <1>f DEF IInv, PublicationFollowsTeardown, Done
  <2>2. CASE Stage("publication") = "none"
    <3>1. PublicationOrder /\ comparison' = comparison
      BY <2>2, <1>i, <1>s
    <3>2. Stage("profile_start") \notin {"failed", "abandoned"}
      BY <3>1, <1>s, OpsOf DEF PublicationOrder, TeardownOnly, SomeFailed,
         SomeAbandoned, Stage
    <3>3. \A f \in {"profile_start", "profile_stop", "profile_delete",
                    "profile_absence_proof", "foreign_snapshot_comparison"} :
            Done(f)
      BY <3>1, <3>2 DEF PublicationOrder, IInv, TeardownLinks, Done
    <3> QED
      BY <3>1, <3>3, <1>r, <1>s DEF PublicationOrder,
         PublicationFollowsTeardown
  <2> QED
    BY <2>1, <2>2
<1> QED
  BY <1>1, <1>2, <1>3, <1>4, <1>5, <1>6, <1>7 DEF IInv

\* Every journal the operations can write satisfies the inductive invariant.
THEOREM Invariance == Spec => []IInv
<1>1. Init => IInv
  BY IInvInit
<1>2. IInv /\ [Next]_vars => IInv'
  BY IInvStep
<1> QED
  BY <1>1, <1>2, PTL DEF Spec

----------------------------------------------------------------------------
\* A claimed request has a proved driver and only answered predecessors.
THEOREM RequestsInOrder == Spec => []RequestChain
<1>1. IInv => RequestChain
  BY DEF IInv
<1> QED
  BY <1>1, Invariance, PTL

\* A failure or an abandonment is never left unlatched.
THEOREM FailuresLatch == Spec => []FailureLatches
<1>1. IInv => FailureLatches
  BY DEF IInv
<1> QED
  BY <1>1, Invariance, PTL

\* A nominal lifecycle cancels no driver before its evidence is frozen.
THEOREM CancelsWait == Spec => []CancelAfterFreeze
<1>1. IInv => CancelAfterFreeze
  BY DEF IInv
<1> QED
  BY <1>1, Invariance, PTL

\* A publication stands behind a complete teardown and an unchanged host.
THEOREM PublicationsWait == Spec => []PublicationFollowsTeardown
<1>1. IInv => PublicationFollowsTeardown
  BY DEF IInv
<1> QED
  BY <1>1, Invariance, PTL

\* What is in a journal was written behind what it rests on.
THEOREM HistoriesInOrder == Spec => []HistoryInOrder
<1>1. IInv => HistoryInOrder
  BY DEF IInv, HistoryInOrder
<1> QED
  BY <1>1, Invariance, PTL

\* No request moves once a freeze was intended or teardown latched.
THEOREM NoLateResults == Spec => LateResultsClosed
<1>1. IInv /\ [Next]_vars =>
        [Stage("evidence_freeze") # "none" \/ latched =>
           \A t \in Tracks : Request(t)' = Request(t)]_vars
  <2> SUFFICES ASSUME IInv, [Next]_vars,
                      Stage("evidence_freeze") # "none" \/ latched,
                      NEW t \in Tracks
               PROVE  Request(t)' = Request(t)
    OBVIOUS
  <2>1. Moved(<<"request", t>>)
    BY Readings DEF IInv
  <2>2. ~ResultAdmitted(t)
    BY DEF ResultAdmitted
  <2>3. ~IntentAdmitted(<<"request", t>>)
    <3> SUFFICES ASSUME IntentAdmitted(<<"request", t>>) PROVE FALSE
      OBVIOUS
    <3>1. /\ Idle /\ ~TeardownOnly /\ ~Done("evidence_freeze")
      BY DEF IntentAdmitted, RequestOrder, BeforeFreeze, CleanupFamilies
    <3>2. Op("evidence_freeze") \in Ops
      BY OpsOf DEF SingleFamilies, CleanupFamilies
    <3>3. Stage("evidence_freeze") \in Stages
      BY <3>2 DEF IInv, TypeOK, Stage
    <3>4. Stage("evidence_freeze") # "pending"
      BY <3>1, <3>2 DEF Idle, Active, Stage, Op
    <3>5. Stage("evidence_freeze") \notin {"failed", "abandoned"}
      BY <3>1, <3>2 DEF TeardownOnly, SomeFailed, SomeAbandoned, Stage
    <3> QED
      BY <3>1, <3>3, <3>4, <3>5 DEF Stages, Done, TeardownOnly
  <2> QED
    BY <2>1, <2>2, <2>3 DEF Moved, Request, TerminalAdmitted
<1> QED
  BY <1>1, Invariance, PTL DEF Spec, LateResultsClosed

\* A committed journal that may only tear down claims and completes no
\* forward work.
THEOREM NoForwardWork == Spec => ForwardClosed
<1>1. IInv /\ [Next]_vars =>
        [TeardownOnly /\ committed =>
           \A op \in Ops :
             /\ op[1] \in SetupFamilies \cup {"driver_start", "request"} =>
                  (stage'[op] = "complete" => stage[op] = "complete")
             /\ op[1] \notin CleanupFamilies \cup {"driver_cancel"} =>
                  (stage[op] = "none" => stage'[op] = "none")]_vars
  <2> SUFFICES ASSUME IInv, [Next]_vars, TeardownOnly, committed, NEW op \in Ops
               PROVE
                 /\ op[1] \in SetupFamilies \cup {"driver_start", "request"} =>
                      (stage'[op] = "complete" => stage[op] = "complete")
                 /\ op[1] \notin CleanupFamilies \cup {"driver_cancel"} =>
                      (stage[op] = "none" => stage'[op] = "none")
    OBVIOUS
  <2>1. latched
    BY DEF TeardownOnly, IInv, FailureLatches
  <2>2. Moved(op)
    BY Moves DEF IInv
  <2>3. stage'[op] = "complete" /\ stage[op] # "complete" =>
          op[1] \notin SetupFamilies \cup {"driver_start", "request"}
    BY <2>1, <2>2 DEF Moved, ResultAdmitted, TerminalAdmitted, DecisionAdmitted
  <2>4. stage[op] = "none" /\ stage'[op] # "none" =>
          op[1] \in CleanupFamilies \cup {"driver_cancel"}
    BY <2>1, <2>2 DEF Moved, ResultAdmitted, TerminalAdmitted, IntentAdmitted
  <2> QED
    BY <2>3, <2>4
<1> QED
  BY <1>1, Invariance, PTL DEF Spec, ForwardClosed

----------------------------------------------------------------------------
(***************************************************************************)
(* The recovery plan.  What it repeats or proposes rests on two facts of   *)
(* every history that the invariant above does not say: at most one        *)
(* operation is pending, so nothing a pending one rests on can move; and   *)
(* only a ready runtime has drivers.                                       *)
(***************************************************************************)
OnePending == \A a, b \in Ops : Active(a) /\ Active(b) => a = b

DriversReady ==
  \A t \in Tracks : Start(t) # "none" \/ Cancel(t) # "none" => Done("readiness")

DestructionRests ==
  /\ Stage("cluster_delete") = "pending" => Started = Cancelled
  /\ Stage("profile_stop") = "pending" =>
       Done("cluster_absence_proof") \/ ~ClusterOwned

PlanInv == OnePending /\ DriversReady /\ DestructionRests

\* No step moves two pairs.
LEMMA OneMoves ==
  ASSUME TypeOK, [Next]_vars, NEW a \in Ops, NEW b \in Ops,
         stage'[a] # stage[a], stage'[b] # stage[b]
  PROVE  a = b
<1> USE DEF TypeOK
<1>1. ASSUME NEW p \in Ops, AppendIntent(p) PROVE a = b
  BY <1>1 DEF AppendIntent
<1>2. ASSUME NEW t \in Tracks, AppendRequestResult(t) PROVE a = b
  <2>1. <<"request", t>> \in Ops
    BY OpsOf DEF TrackFamilies
  <2> QED
    BY <1>2, <2>1 DEF AppendRequestResult
<1>3. ASSUME NEW p \in Ops, NEW s \in Settled,
             AppendTerminal(p, s) \/ AppendObservedTerminal(p, s)
      PROVE a = b
  BY <1>3 DEF AppendTerminal, AppendObservedTerminal
<1>4. stage' # stage
  OBVIOUS
<1>5. /\ \A m \in Modes : ~SelectMode(m)
      /\ ~LatchTeardown /\ ~LatchRefusal /\ ~UNCHANGED vars
  BY <1>4 DEF SelectMode, LatchTeardown, LatchRefusal, vars
<1> QED
  BY <1>1, <1>2, <1>3, <1>5 DEF Next, Settled

\* Beside a pending operation only requests move.
LEMMA WhilePending ==
  ASSUME TypeOK, OnePending, [Next]_vars, NEW op \in Ops,
         op[1] # "request", stage'[op] = "pending"
  PROVE  /\ \A b \in Ops : b # op /\ b[1] # "request" => stage'[b] = stage[b]
         /\ stage[op] # "pending" => IntentAdmitted(op)
<1>1. Moved(op)
  BY Moves
<1>2. stage[op] # "pending" => IntentAdmitted(op)
  BY <1>1 DEF Moved, Settled
<1>3. ASSUME NEW b \in Ops, b # op, b[1] # "request" PROVE stage'[b] = stage[b]
  <2>1. CASE stage[op] # "pending"
    BY <1>3, <2>1, OneMoves
  <2>2. CASE stage[op] = "pending"
    <3>1. Moved(b) /\ Active(op)
      BY <2>2, Moves DEF Active
    <3>2. ~Active(b) /\ ~Idle
      BY <1>3, <3>1 DEF OnePending, Idle
    <3> QED
      BY <1>3, <3>1, <3>2 DEF Moved, IntentAdmitted, TerminalAdmitted, Active
  <2> QED
    BY <2>1, <2>2
<1> QED
  BY <1>2, <1>3

\* An empty history satisfies what the plan rests on.
LEMMA PlanInvInit == Init => PlanInv
<1> SUFFICES ASSUME Init PROVE PlanInv
  OBVIOUS
<1>1. \A op \in Ops : stage[op] = "none"
  BY DEF Init
<1>2. \A t \in Tracks : Start(t) = "none" /\ Cancel(t) = "none"
  BY <1>1, OpsOf DEF Start, Cancel, TrackFamilies
<1>3. Stage("cluster_delete") = "none" /\ Stage("profile_stop") = "none"
  BY <1>1, OpsOf DEF Stage, SingleFamilies, CleanupFamilies
<1> QED
  BY <1>1, <1>2, <1>3 DEF PlanInv, OnePending, Active, DriversReady, DestructionRests

\* Every step keeps it.
LEMMA PlanInvStep == TypeOK /\ PlanInv /\ [Next]_vars => PlanInv'
<1> SUFFICES ASSUME TypeOK, PlanInv, [Next]_vars PROVE PlanInv'
  OBVIOUS
<1>p. OnePending /\ DriversReady /\ DestructionRests
  BY DEF PlanInv
<1>s. {"readiness", "cluster_create", "cluster_delete", "cluster_absence_proof",
       "profile_stop"} \subseteq SingleFamilies
  BY DEF SingleFamilies, SetupFamilies, CleanupFamilies
<1>o. \A f \in SingleFamilies : Op(f) \in Ops /\ Op(f)[1] = f /\ f # "request"
  BY OpsOf DEF Op, SingleFamilies, SetupFamilies, CleanupFamilies
<1>t. \A t \in Tracks : /\ <<"driver_start", t>> \in Ops /\ <<"driver_cancel", t>> \in Ops
  BY OpsOf DEF TrackFamilies
<1>1. OnePending'
  <2> SUFFICES ASSUME NEW a \in Ops, NEW b \in Ops, Active(a)', Active(b)', a # b
               PROVE  FALSE
    BY DEF OnePending
  <2>1. a[1] # "request" /\ stage'[a] = "pending" /\ b[1] # "request" /\ stage'[b] = "pending"
    BY DEF Active
  <2>2. stage'[b] = stage[b]
    BY <1>p, <2>1, WhilePending
  <2>3. stage'[a] = stage[a]
    BY <1>p, <2>1, WhilePending
  <2> QED
    BY <1>p, <2>1, <2>2, <2>3 DEF OnePending, Active
<1>2. DriversReady'
  <2> SUFFICES ASSUME NEW t \in Tracks, Start(t)' # "none" \/ Cancel(t)' # "none"
               PROVE  Done("readiness")'
    BY DEF DriversReady, Tracks
  <2>1. Done("readiness") => Done("readiness")'
    BY Readings, <1>s
  <2>2. CASE Start(t) # "none" \/ Cancel(t) # "none"
    BY <1>p, <2>1, <2>2 DEF DriversReady
  <2>3. ASSUME Start(t) = "none", Cancel(t) = "none" PROVE Done("readiness")
    <3>1. Moved(<<"driver_start", t>>) /\ Moved(<<"driver_cancel", t>>)
      BY Moves, <1>t
    <3>2. CASE Start(t)' # "none"
      <4>1. IntentAdmitted(<<"driver_start", t>>)
        BY <2>3, <3>1, <3>2 DEF Moved, Start, TerminalAdmitted
      <4> QED
        BY <4>1 DEF IntentAdmitted, DriverStartOrder, BeforeFreeze
    <3>3. CASE Cancel(t)' # "none"
      <4>1. IntentAdmitted(<<"driver_cancel", t>>)
        BY <2>3, <3>1, <3>3 DEF Moved, Cancel, TerminalAdmitted
      <4> QED
        BY <2>3, <4>1 DEF IntentAdmitted, DriverCancelOrder, Started
    <3> QED
      BY <3>2, <3>3
  <2> QED
    BY <2>1, <2>2, <2>3
<1>3. DestructionRests'
  <2>1. ASSUME Stage("cluster_delete")' = "pending" PROVE Started' = Cancelled'
    <3> DEFINE op == Op("cluster_delete")
    <3>1. op \in Ops /\ op[1] = "cluster_delete" /\ stage'[op] = "pending"
      BY <2>1, <1>s, <1>o DEF Stage
    <3>2. /\ \A b \in Ops : b # op /\ b[1] # "request" => stage'[b] = stage[b]
          /\ stage[op] # "pending" => IntentAdmitted(op)
      BY <1>p, <3>1, WhilePending
    <3>3. \A t \in Tracks : Start(t)' = Start(t) /\ Cancel(t)' = Cancel(t)
      <4> SUFFICES ASSUME NEW t \in Tracks
                   PROVE  Start(t)' = Start(t) /\ Cancel(t)' = Cancel(t)
        OBVIOUS
      <4>1. /\ <<"driver_start", t>> # op /\ <<"driver_start", t>>[1] # "request"
            /\ <<"driver_cancel", t>> # op /\ <<"driver_cancel", t>>[1] # "request"
        BY <3>1
      <4> QED
        BY <1>t, <3>2, <4>1 DEF Start, Cancel
    <3>4. Started' = Started /\ Cancelled' = Cancelled
      BY <3>3 DEF Started, Cancelled, Tracks
    <3>5. Started = Cancelled
      BY <1>p, <3>1, <3>2 DEF DestructionRests, Stage, IntentAdmitted, TeardownOrder
    <3> QED
      BY <3>4, <3>5
  <2>2. ASSUME Stage("profile_stop")' = "pending"
        PROVE  (Done("cluster_absence_proof") \/ ~ClusterOwned)'
    <3> DEFINE op == Op("profile_stop")
    <3>1. op \in Ops /\ op[1] = "profile_stop" /\ stage'[op] = "pending"
      BY <2>2, <1>s, <1>o DEF Stage
    <3>2. /\ \A b \in Ops : b # op /\ b[1] # "request" => stage'[b] = stage[b]
          /\ stage[op] # "pending" => IntentAdmitted(op)
      BY <1>p, <3>1, WhilePending
    <3>3. /\ Stage("cluster_absence_proof")' = Stage("cluster_absence_proof")
          /\ Stage("cluster_create")' = Stage("cluster_create")
      BY <1>s, <1>o, <3>1, <3>2 DEF Stage
    <3>4. Done("cluster_absence_proof") \/ ~ClusterOwned
      BY <1>p, <3>1, <3>2 DEF DestructionRests, Stage, IntentAdmitted, TeardownOrder
    <3> QED
      BY <3>3, <3>4 DEF Done, ClusterOwned
  <2> QED
    BY <2>1, <2>2 DEF DestructionRests
<1> QED
  BY <1>1, <1>2, <1>3 DEF PlanInv

\* What the plan rests on holds of every journal the operations can write.
THEOREM PlanInvariance == Spec => []PlanInv
<1>1. Init => PlanInv
  BY PlanInvInit
<1>2. IInv /\ PlanInv /\ [Next]_vars => PlanInv'
  BY PlanInvStep DEF IInv
<1> QED
  BY <1>1, <1>2, Invariance, PTL DEF Spec

\* Whatever is observed, what the plan repeats it repeats in the order of
\* teardown (recovery_plan).
THEOREM PlanRepeatsInOrder == Spec => []PlanKeepsOrder
<1>1. IInv /\ PlanInv => PlanKeepsOrder
  <2> SUFFICES ASSUME IInv, PlanInv, NEW o \in Observations
               PROVE LET op == RecoveryPlan(o).repeat IN
                 /\ op[1] = "driver_cancel" /\ mode = "nominal" => Done("evidence_freeze")
                 /\ op = Op("cluster_delete") => Started = Cancelled
                 /\ op = Op("profile_stop") => Done("cluster_absence_proof") \/ ~ClusterOwned
    BY DEF PlanKeepsOrder
  <2> DEFINE op == RecoveryPlan(o).repeat
  <2>1. op = None \/ op \in PendingEvents
    <3>1. (\E p \in PendingEvents : Repeatable(p, o)) =>
            (CHOOSE p \in PendingEvents : Repeatable(p, o)) \in PendingEvents
      OBVIOUS
    <3> QED
      BY <3>1 DEF RecoveryPlan
  <2>2. None[1] = "none" /\ Op("cluster_delete")[1] = "cluster_delete"
        /\ Op("profile_stop")[1] = "profile_stop"
    BY DEF None, Op
  <2> HIDE DEF op
  <2>3. op \in PendingEvents => op \in Ops /\ stage[op] = "pending"
    BY DEF PendingEvents, Active
  <2>4. op[1] = "driver_cancel" /\ mode = "nominal" => Done("evidence_freeze")
    <3> SUFFICES ASSUME op[1] = "driver_cancel", mode = "nominal"
                 PROVE  Done("evidence_freeze")
      OBVIOUS
    <3>1. PICK t \in Tracks : op = <<"driver_cancel", t>>
      BY <2>1, <2>2, <2>3, OpsOf DEF TrackFamilies
    <3>2. Cancel(t) = "pending"
      BY <2>1, <2>2, <2>3, <3>1 DEF Cancel
    <3> QED
      BY <3>2 DEF IInv, CancelAfterFreeze
  <2>5. op = Op("cluster_delete") => Started = Cancelled
    BY <2>1, <2>2, <2>3 DEF PlanInv, DestructionRests, Stage
  <2>6. op = Op("profile_stop") => Done("cluster_absence_proof") \/ ~ClusterOwned
    BY <2>1, <2>2, <2>3 DEF PlanInv, DestructionRests, Stage
  <2> QED
    BY <2>4, <2>5, <2>6 DEF op
<1> QED
  BY <1>1, Invariance, PlanInvariance, PTL

----------------------------------------------------------------------------
\* A set of numbers has a least one.
LEMMA SomeLeast ==
  ASSUME NEW S \in SUBSET Nat, S # {}
  PROVE  \E t \in S : \A u \in S : t <= u
<1> DEFINE Lower == {p \in Nat \X Nat : p[1] < p[2]}
<1>1. IsWellFoundedOn(Lower, Nat)
  BY NatLessThanWellFounded DEF OpToRel
<1>2. PICK t \in S : \A u \in S : <<u, t>> \notin Lower
  <2> HIDE DEF Lower
  <2> QED
    BY <1>1, WFMin
<1>3. \A u \in S : t <= u
  <2> SUFFICES ASSUME NEW u \in S PROVE t <= u
    OBVIOUS
  <2>1. u \in Nat /\ t \in Nat /\ <<u, t>> \notin Lower
    BY <1>2
  <2>2. ~(u < t)
    BY <2>1
  <2> QED
    BY <2>1, <2>2
<1> QED
  BY <1>3

\* So the first of them is one of them.
LEMMA FirstIn ==
  ASSUME NEW S \in SUBSET Nat, S # {}
  PROVE  FirstOf(S) \in S /\ \A u \in S : FirstOf(S) <= u
BY SomeLeast DEF FirstOf

\* In an unbroken history at rest an operation is complete or not begun.
LEMMA AtRest ==
  ASSUME TypeOK, RequestStages, Unbroken, PendingEvents = {}
  PROVE  /\ Idle
         /\ \A op \in Ops : op[1] # "request" => stage[op] \in {"none", "complete"}
<1>1. \A op \in Ops : ~Active(op)
  BY DEF PendingEvents
<1> QED
  BY <1>1 DEF Idle, Active, TypeOK, Stages, Unbroken, SomeFailed, SomeAbandoned

\* The intent that the plan proposes is one the journal admits.
LEMMA PlanAdmitted ==
  ASSUME IInv, PlanInv, Unbroken, PendingEvents = {}, FreezeReady, Proposed # None
  PROVE  IntentAdmitted(Proposed)
<1>r. /\ Idle
      /\ \A op \in Ops : op[1] # "request" => stage[op] \in {"none", "complete"}
  BY AtRest DEF IInv
<1>f. \A f \in SingleFamilies : Op(f) \in Ops /\ Op(f)[1] = f /\ Stage(f) \in {"none", "complete"}
  BY <1>r, OpsOf DEF Op, Stage, SingleFamilies, SetupFamilies, CleanupFamilies
<1>t. \A t \in Tracks : Start(t) \in {"none", "complete"} /\ Cancel(t) \in {"none", "complete"}
  <2> SUFFICES ASSUME NEW t \in Tracks
               PROVE  Start(t) \in {"none", "complete"} /\ Cancel(t) \in {"none", "complete"}
    OBVIOUS
  <2>1. /\ <<"driver_start", t>> \in Ops /\ <<"driver_start", t>>[1] # "request"
        /\ <<"driver_cancel", t>> \in Ops /\ <<"driver_cancel", t>>[1] # "request"
    BY OpsOf DEF TrackFamilies
  <2> QED
    BY <1>r, <2>1 DEF Start, Cancel
<1>d. CompletedDrivers \subseteq Nat /\ OwingSteps \subseteq Nat
  BY DEF CompletedDrivers, OwingSteps, Tracks
<1>u. ~refused /\ ~SomeFailed /\ ~SomeAbandoned
  BY DEF Unbroken
<1>c. Claimed # {} => Done("readiness") /\ mode = "nominal"
  BY DEF IInv, RequestChain
<1>1. CASE FreezeFirst
  <2>1. Proposed = Op("evidence_freeze") /\ ~Done("evidence_freeze")
    BY <1>1 DEF Proposed, FreezeFirst
  <2>2. Stage("evidence_freeze") = "none" /\ Done("readiness")
    BY <1>1, <1>f, <1>c, <2>1 DEF FreezeFirst, Done, SingleFamilies, CleanupFamilies
  <2>3. FreezeOrder
    BY <2>2 DEF FreezeOrder, FreezeReady, Done
  <2> QED
    BY <1>r, <1>u, <2>1, <2>2, <2>3 DEF IntentAdmitted, RequestAllows, RequestAbandoned,
       SetupOrder, TeardownOrder, CleanupFamilies, Op, Stage
<1>2. CASE ~FreezeFirst /\ Done("evidence_freeze") /\ CompletedDrivers # {}
  <2> DEFINE t == FirstOf(CompletedDrivers)
  <2>1. Proposed = <<"driver_cancel", t>>
    BY <1>2 DEF Proposed
  <2>2. t \in CompletedDrivers /\ \A u \in CompletedDrivers : t <= u
    BY <1>2, <1>d, FirstIn
  <2> HIDE DEF t
  <2>3. t \in Tracks /\ Start(t) = "complete" /\ Cancel(t) = "none"
    BY <2>2, <1>t DEF CompletedDrivers
  <2>4. ASSUME NEW u \in Before(t), u \in Started PROVE u \in Cancelled
    <3>1. u \in Tracks /\ u < t /\ u \in Nat /\ t \in Nat
      BY <2>3, <2>4, NumTracksAssumption DEF Before, Tracks
    <3>2. u \notin CompletedDrivers
      BY <2>2, <3>1
    <3> QED
      BY <1>t, <2>4, <3>1, <3>2 DEF CompletedDrivers, Started, Cancelled
  <2>5. DriverCancelOrder(t)
    BY <1>2, <2>3, <2>4 DEF DriverCancelOrder, Started, Cancelled
  <2> QED
    BY <1>r, <1>u, <1>2, <2>1, <2>3, <2>5 DEF IntentAdmitted, RequestAllows, RequestAbandoned,
       SetupOrder, TeardownOrder, Cancel, Done
<1>3. CASE ~FreezeFirst /\ ~(Done("evidence_freeze") /\ CompletedDrivers # {})
  <2> DEFINE i == FirstOf(OwingSteps)
             g == Chain[i][2]
  <2>1. OwingSteps # {} /\ Proposed = Op(g)
    BY <1>3 DEF Proposed
  <2>2. i \in OwingSteps /\ \A j \in OwingSteps : i <= j
    BY <1>d, <2>1, FirstIn
  <2>3. i \in 1..5 /\ Done(Chain[i][1]) /\ ~Done(g) /\ \A j \in 1..(i-1) : j \notin OwingSteps
    BY <2>2 DEF OwingSteps, Owing
  <2> HIDE DEF i
  <2>4. Started = Cancelled
    <3>1. CASE Done("evidence_freeze")
      <4>1. CompletedDrivers = {}
        BY <1>3, <3>1
      <4> QED
        BY <1>t, <4>1 DEF CompletedDrivers, Started, Cancelled
    <3>2. CASE ~Done("evidence_freeze")
      <4>1. ~Done("readiness")
        BY <1>3, <3>2 DEF FreezeFirst
      <4>2. \A t \in Tracks : Start(t) = "none" /\ Cancel(t) = "none"
        BY <4>1 DEF PlanInv, DriversReady
      <4> QED
        BY <4>2 DEF Started, Cancelled
    <3> QED
      BY <3>1, <3>2
  <2>5. RequestPending => RequestAbandoned
    BY <1>3 DEF RequestPending, RequestAbandoned, FreezeFirst, Claimed
  <2>6. /\ Done("readiness") => Done("evidence_freeze")
        /\ ClusterOwned => Done("cluster_create")
    BY <1>3, <1>f DEF FreezeFirst, ClusterOwned, Done, SingleFamilies, SetupFamilies
  <2>7. /\ g \in {"cluster_delete", "cluster_absence_proof", "profile_stop", "profile_delete",
                  "profile_absence_proof"}
        /\ TeardownOrder(g)
    <3>1. CASE i = 1
      BY <2>3, <2>4, <2>6, <3>1 DEF Chain, TeardownOrder, ClusterOwned, Done
    <3>2. CASE i = 2
      BY <2>3, <3>2 DEF Chain, TeardownOrder
    <3>3. CASE i = 3
      <4>1. 1 \notin OwingSteps /\ 2 \notin OwingSteps
        BY <2>3, <3>3
      <4>2. ClusterOwned => Done("cluster_absence_proof")
        BY <2>6, <4>1 DEF OwingSteps, Owing, Chain
      <4> QED
        BY <2>3, <3>3, <4>2 DEF Chain, TeardownOrder, Done
    <3>4. CASE i = 4
      BY <2>3, <3>4 DEF Chain, TeardownOrder
    <3>5. CASE i = 5
      BY <2>3, <3>5 DEF Chain, TeardownOrder
    <3> QED
      BY <2>3, <3>1, <3>2, <3>3, <3>4, <3>5
  <2>8. g \in SingleFamilies /\ g \in CleanupFamilies \ {"envoy_quiesce", "evidence_freeze"}
    BY <2>7 DEF SingleFamilies, CleanupFamilies
  <2>9. stage[Op(g)] = "none" /\ Op(g)[1] = g
    BY <1>f, <2>3, <2>8 DEF Done, Stage
  <2> HIDE DEF g
  <2>10. SetupOrder(g) /\ RequestAllows(g)
    BY <2>5, <2>7, <2>8 DEF SetupOrder, RequestAllows
  <2> QED
    BY <1>r, <1>u, <2>1, <2>7, <2>8, <2>9, <2>10 DEF IntentAdmitted, CleanupFamilies
<1> QED
  BY <1>1, <1>2, <1>3

\* Whoever follows the plan of an unbroken lifecycle is neither refused by the
\* journal nor left without a step while something is owned (recovery_plan).
THEOREM PlanIsFollowed == Spec => []PlanLeadsOn
<1>1. IInv /\ PlanInv => PlanLeadsOn
  <2> SUFFICES ASSUME IInv, PlanInv, Unbroken PROVE PlanLeadsOn
    BY DEF PlanLeadsOn
  <2> DEFINE op == RecoveryPlan(Unseen).intent
  <2>1. op = IF PendingEvents = {} THEN Proposed ELSE None
    BY DEF RecoveryPlan, Unseen
  <2> HIDE DEF op
  <2>2. FreezeReady /\ op # None => IntentAdmitted(op)
    BY <2>1, PlanAdmitted
  <2>3. PendingEvents = {} /\ Done("profile_start") =>
          op # None \/ Done("profile_absence_proof")
    <3> SUFFICES ASSUME PendingEvents = {}, Done("profile_start"), op = None
                 PROVE  Done("profile_absence_proof")
      OBVIOUS
    <3>1. Proposed = None
      BY <2>1
    <3>2. OwingSteps = {}
      <4> SUFFICES ASSUME OwingSteps # {} PROVE FALSE
        OBVIOUS
      <4>1. FirstOf(OwingSteps) \in 1..5
        BY FirstIn DEF OwingSteps
      <4>2. \A i \in 1..5 : Chain[i][2] # "none"
        BY DEF Chain
      <4>3. Op(Chain[FirstOf(OwingSteps)][2]) # None
        BY <4>1, <4>2 DEF Op, None
      <4>4. Op("evidence_freeze") # None /\ \A t : <<"driver_cancel", t>> # None
        BY DEF Op, None
      <4> QED
        BY <3>1, <4>3, <4>4 DEF Proposed
    <3>3. 3 \notin OwingSteps /\ 4 \notin OwingSteps /\ 5 \notin OwingSteps
      BY <3>2
    <3> QED
      BY <3>3 DEF OwingSteps, Owing, Chain
  <2> QED
    BY <2>2, <2>3 DEF PlanLeadsOn, op
<1> QED
  BY <1>1, Invariance, PlanInvariance, PTL
=============================================================================
