-------------------------- MODULE ReferenceGateway --------------------------
(***************************************************************************)
(* The reference gateway (src/kil/reference_gateway.py): an adapter fixed  *)
(* to one track (src/kil/live_authz.py) decides a request, and a permitted *)
(* request leaves a marker at the target.  The gateway of each track may   *)
(* be asked any number of times, for the same request again and again and  *)
(* with any token.                                                         *)
(*                                                                         *)
(* Abstracted: untrusted headers, of which only the fact that they are     *)
(* ignored would be said, and the decision's digest.                       *)
(***************************************************************************)
EXTENDS Kernel, Sequences, FiniteSets

CONSTANTS
  Fixtures,    \* what may be asked: the facts of LiveFixture
  Keys,        \* verification keys of the KIL tracks
  Revoked,     \* revoked_state_ids
  MaxCalls     \* how often the gateways are asked

Audience == [signed |-> "kil-v3-signed", local |-> "kil-v3-local"]

ASSUME FixturesAssumption ==
  Fixtures \subseteq [request : Requests, action : Names, credential : BOOLEAN,
                      policy : BOOLEAN, tokens : SUBSET Tokens, evidence : Evidence]
ASSUME CallsAssumption == MaxCalls \in Nat

VARIABLES
  markers,   \* TargetMarker: the request IDs of each track, in order
  results    \* the answers of handle, in order

gateway == <<markers, results>>

----------------------------------------------------------------------------
\* `tokens` holds the one token of the fixture, or none.
Token(f) == CHOOSE t \in f.tokens : TRUE

Verified(track, f) ==
  /\ f.tokens # {}
  /\ Verifies(Token(f), Keys, Revoked, f.request, Audience[track], f.action)

\* AuthorizationAdapter.evaluate; there is no record without a verified state.
Evaluate(track, f) ==
  IF track = "baseline"
  THEN [outcome |-> IF f.credential /\ f.policy THEN "permit" ELSE "deny", reasons |-> {}]
  ELSE IF Verified(track, f)
       THEN LET d == Decide(f.request, Token(f).claims.state, track, f.evidence, "closed")
            IN [outcome |-> d.outcome, reasons |-> d.reasons]
       ELSE [outcome |-> "deny", reasons |-> {}]

\* marker_count
Marked(list, id) == Cardinality({i \in DOMAIN list : list[i] = id})

\* Mutant: any marker of the request proves a permit.
Proof_AnyMarker(permit, count) == permit <=> count > 0

\* proof_valid
Proof(permit, count) == IF permit THEN count = 1 ELSE count = 0

Handle(track, f) ==
  LET d == Evaluate(track, f)
      left == IF d.outcome = "permit"
              THEN [markers EXCEPT ![track] = Append(@, f.request.id)] ELSE markers
  IN /\ Len(results) < MaxCalls
     /\ markers' = left
     /\ results' = Append(results,
          [track |-> track, fixture |-> f, decision |-> d,
           proof |-> Proof(d.outcome = "permit", Marked(left[track], f.request.id))])

GatewayInit ==
  /\ markers = [t \in Tracks |-> <<>>]
  /\ results = <<>>

GatewayNext == \E t \in Tracks, f \in Fixtures : Handle(t, f)

GatewaySpec == GatewayInit /\ [][GatewayNext]_gateway
----------------------------------------------------------------------------
Asked(track, id) == {i \in 1..Len(results) :
  results[i].track = track /\ results[i].fixture.request.id = id}

\* A proof stands for the whole history of its request on its track: all that
\* was answered up to it was a refusal, or it is itself the first permit
\* (proof_valid counts the markers of every earlier call).
ProofIsHistory ==
  \A i \in 1..Len(results) :
    results[i].proof <=>
      \A k \in 1..(i - 1) : k \in Asked(results[i].track, results[i].fixture.request.id)
        => results[k].decision.outcome # "permit"
=============================================================================
