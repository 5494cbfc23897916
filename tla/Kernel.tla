------------------------------- MODULE Kernel -------------------------------
(***************************************************************************)
(* The decision kernel (src/kil/engine.py, decay.py, domain.py), the check *)
(* of a signed state (q_state.py) and the adapter of the three tracks      *)
(* (live_authz.py), as operators: they keep no state.                      *)
(*                                                                         *)
(* A charge is a natural number.  What the decimal context computes for an *)
(* exponential or a power is a constant, any value at all, so that what is *)
(* shown of a decision rests on the kernel's own clamps and comparisons;   *)
(* arithmetic that raises is a constant set of its arguments.              *)
(*                                                                         *)
(* Abstracted: the types and the wire format of the fields (a token that   *)
(* cannot be parsed, or whose claims are not valid, is not `genuine`), and *)
(* digests.  Missing evidence, a missing profile and stale evidence go the *)
(* same way: evidence that is not `fresh`.                                 *)
(***************************************************************************)
EXTENDS Integers

CONSTANTS
  Names,        \* identities, classes, state IDs, keys
  Amounts,      \* charges, thresholds, losses
  Rates,        \* decay rates
  Times,        \* seconds
  Divergences,  \* how far the local observation is from the signed state
  InBand,       \* divergences up to the profile's divergence_threshold
  Computed,     \* charge * exp(-rate * elapsed) in the decimal context
  DecayRaises,  \* rates and times whose decay raises
  Penalty,      \* loss_rate * (divergence / threshold) ** exponent
  LossRaises,   \* divergences whose penalty raises
  Slip,         \* what rounding adds to a difference
  MaxValidity   \* MAX_VALIDITY_SECONDS

Elapsed == {IF t > u THEN t - u ELSE 0 : t \in Times, u \in Times}

ASSUME AmountsAssumption == Amounts \subseteq Nat /\ Times \subseteq Nat
ASSUME ComputedAssumption == Computed \in [Amounts \X Rates \X Elapsed -> Int]
ASSUME PenaltyAssumption == Penalty \in [Divergences -> Nat]
ASSUME RaisesAssumption ==
  /\ DecayRaises \subseteq Rates \X Elapsed
  /\ LossRaises \subseteq Divergences /\ InBand \subseteq Divergences
ASSUME SlipAssumption == Slip \in Int /\ MaxValidity \in Nat

Tracks == {"baseline", "signed", "local"}
KilTracks == {"signed", "local"}

Requests == [id : Names, identity : Names, class : Names, time : Times]
Evidence == [fresh : BOOLEAN, divergence : Divergences, loss : Amounts]
States ==
  [identity : Names, class : Names, issued : Times, notBefore : Times, expires : Times,
   charge : Amounts, threshold : Amounts, maximum : Amounts, rate : Rates,
   history : Nat, minimum : Nat,
   authentic : BOOLEAN, vetoClear : BOOLEAN, envelope : BOOLEAN]

\* CompositeState refuses any other.
ValidState(s) ==
  /\ s.issued <= s.notBefore /\ s.notBefore < s.expires
  /\ s.charge <= s.maximum

----------------------------------------------------------------------------
Least(a, b) == IF a < b THEN a ELSE b
Greatest(a, b) == IF a < b THEN b ELSE a

Age(s, now) == IF now > s.issued THEN now - s.issued ELSE 0

\* passive_decay
Decayed(s, now) ==
  Least(s.charge, Greatest(0, Computed[<<s.charge, s.rate, Age(s, now)>>]))

\* superlinear_loss
Loss(e) == IF e.divergence \in InBand THEN 0 ELSE Penalty[e.divergence]

\* Mutant: the loss is taken off the signed charge, not the decayed one.
Reduced_Signed(decayed, s, e) ==
  Least(s.maximum, Greatest(0, s.charge - Loss(e) - e.loss + Slip))

\* local_effective_charge
Reduced(decayed, s, e) ==
  Least(s.maximum, Least(decayed, Greatest(0, decayed - Loss(e) - e.loss + Slip)))

\* Local evidence counts in the reducing mode, when it is there and fresh.
Reduces(mode, e) == mode = "local" /\ e.fresh
Stale(mode, e) == mode = "local" /\ ~e.fresh
Raises(s, now, mode, e) ==
  \/ <<s.rate, Age(s, now)>> \in DecayRaises
  \/ Reduces(mode, e) /\ e.divergence \in LossRaises \ InBand

DecayedCharge(s, now, mode, e) == IF Raises(s, now, mode, e) THEN 0 ELSE Decayed(s, now)
EffectiveCharge(s, now, mode, e) ==
  IF Raises(s, now, mode, e) THEN 0
  ELSE IF Reduces(mode, e) THEN Reduced(Decayed(s, now), s, e) ELSE Decayed(s, now)

\* The refusals that need no arithmetic.
Refusals(r, s) ==
  (IF r.identity # s.identity THEN {"identity_mismatch"} ELSE {})
  \cup (IF r.class # s.class THEN {"class_mismatch"} ELSE {})
  \cup (IF ~s.vetoClear THEN {"veto"} ELSE {})
  \cup (IF ~s.envelope THEN {"outside_envelope"} ELSE {})
  \cup (IF ~s.authentic THEN {"state_unauthentic"} ELSE {})
  \cup (IF r.time < s.notBefore THEN {"state_not_yet_valid"} ELSE {})
  \cup (IF r.time >= s.expires THEN {"state_expired"} ELSE {})

Reasons(r, s, mode, e) ==
  Refusals(r, s)
  \cup (IF Raises(s, r.time, mode, e) THEN {"arithmetic_failure"} ELSE {})
  \cup (IF Stale(mode, e) /\ ~Raises(s, r.time, mode, e) THEN {"local_evidence_stale"} ELSE {})
  \cup (IF EffectiveCharge(s, r.time, mode, e) < s.threshold THEN {"insufficient_charge"} ELSE {})
  \cup (IF s.history < s.minimum THEN {"insufficient_history"} ELSE {})

\* decide; only staleness may constrain instead of deny, where the caller asks.
Decide(r, s, mode, e, disposition) ==
  LET reasons == Reasons(r, s, mode, e)
  IN [mode |-> mode,
      outcome |-> IF reasons = {} THEN "permit"
                  ELSE IF reasons = {"local_evidence_stale"} /\ disposition = "constrained"
                       THEN "constrain" ELSE "deny",
      reasons |-> IF reasons = {} THEN {"permitted"} ELSE reasons,
      signed |-> s.charge,
      decayed |-> DecayedCharge(s, r.time, mode, e),
      effective |-> EffectiveCharge(s, r.time, mode, e)]

\* What DecisionRecord insists on; decide raises over any other record.
ValidDecision(d) ==
  /\ 0 <= d.effective /\ d.effective <= d.decayed /\ d.decayed <= d.signed
  /\ d.outcome = "permit" <=> d.reasons = {"permitted"}
  /\ "permitted" \in d.reasons => d.reasons = {"permitted"}
  /\ d.reasons # {}

\* Every caller leaves the failure_disposition closed.
Permits(r, s, mode, e) == Decide(r, s, mode, e, "closed").outcome = "permit"
----------------------------------------------------------------------------
(***************************************************************************)
(* Signed states and the adapter of a track.  A token is a composite state *)
(* with the claims that bind it to an audience, an action and a key.       *)
(***************************************************************************)
Claims == [id : Names, audience : Names, action : Names, horizon : Times, state : States]
Tokens == [genuine : BOOLEAN, key : Names, claims : Claims]

\* QStateClaims; the state it makes is authentic by construction.
ValidClaims(c) ==
  /\ ValidState(c.state) /\ c.state.authentic
  /\ c.state.expires - c.state.issued <= MaxValidity
  /\ c.horizon <= c.state.issued
  /\ c.state.threshold <= c.state.maximum

\* verify_q_state
Verifies(t, keys, revoked, r, audience, action) ==
  /\ t.genuine /\ t.key \in keys /\ ValidClaims(t.claims)
  /\ t.claims.id \notin revoked
  /\ t.claims.state.notBefore <= r.time /\ r.time < t.claims.state.expires
  /\ t.claims.state.identity = r.identity /\ t.claims.state.class = r.class
  /\ t.claims.audience = audience /\ t.claims.action = action
=============================================================================
