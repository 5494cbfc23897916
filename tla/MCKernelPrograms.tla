-------------------------- MODULE MCKernelPrograms --------------------------
EXTENDS KernelPrograms

CONSTANTS e1, e2, e3, alice, bob, admin, lab, gone, used

MCIds == {e1, e2, e3}
MCNames == MCIds \cup {alice, bob, admin, lab, gone, used, "kil-v3-signed", "kil-v3-local"}
MCAmounts == 0..5
MCTimes == 0..12
MCRates == {"none", "fast", "huge"}
\* Rounding may carry a charge that does not decay above itself.
MCComputed ==
  [x \in MCAmounts \X MCRates \X MCTimes |->
     IF x[2] = "none" THEN x[1] + 1 ELSE x[1] - x[3]]
MCDecayRaises == {"huge"} \X (1..12)
MCPenalty == [d \in 0..3 |-> d * d]

Good ==
  [identity |-> alice, class |-> admin, issued |-> 1, notBefore |-> 2, expires |-> 8,
   charge |-> 4, threshold |-> 2, maximum |-> 5, rate |-> "none",
   history |-> 2, minimum |-> 2,
   authentic |-> TRUE, vetoClear |-> TRUE, envelope |-> TRUE]
Near == [fresh |-> TRUE, divergence |-> 0, loss |-> 0]

Body == [time |-> 5, state |-> Good, evidence |-> Near, credential |-> TRUE, policy |-> TRUE]
MCBodies ==
  {Body,                                              \* every track permits
   [Body EXCEPT !.evidence.divergence = 2],           \* the reducing track refuses
   [Body EXCEPT !.evidence.divergence = 3],           \* and so does its arithmetic
   [Body EXCEPT !.evidence.fresh = FALSE, !.policy = FALSE],
   [Body EXCEPT !.state.rate = "fast"],               \* the decayed charge is too low
   [Body EXCEPT !.state.rate = "huge"],               \* its decay raises
   [Body EXCEPT !.state.expires = 2]}                 \* no window: refused by the loader

Genuine(audience) ==
  [genuine |-> TRUE, key |-> lab,
   claims |-> [id |-> used, audience |-> audience, action |-> admin, horizon |-> 1,
               state |-> Good]]
Signed == Genuine("kil-v3-signed")
Local == Genuine("kil-v3-local")

Ask(token) ==
  [request |-> [id |-> e1, identity |-> alice, class |-> admin, time |-> 5],
   action |-> admin, credential |-> TRUE, policy |-> TRUE, tokens |-> {token},
   evidence |-> Near]
MCFixtures ==
  {Ask(Signed), Ask(Local),
   [Ask(Signed) EXCEPT !.request.time = 8],           \* expired
   [Ask(Local) EXCEPT !.request.time = 1],            \* not yet valid
   [Ask(Local) EXCEPT !.evidence.divergence = 2],
   [Ask(Signed) EXCEPT !.request.id = e2],
   [Ask(Signed) EXCEPT !.request.identity = bob, !.credential = FALSE],
   [Ask(Signed) EXCEPT !.tokens = {}, !.policy = FALSE],
   Ask([Signed EXCEPT !.genuine = FALSE]),
   Ask([Signed EXCEPT !.claims.id = gone]),
   Ask([Local EXCEPT !.claims.state.expires = 12])}   \* valid for too long
=============================================================================
