--------------------------- MODULE OwnedLifecycle ---------------------------
(***************************************************************************)
(* What a V3B-2 lifecycle promises to whoever reads its bundle, without    *)
(* the journal, the process and the host (design sections 10 and 11): each *)
(* request is sent at most once and one at a time, the evidence is sealed  *)
(* before what produced it is destroyed, a lifecycle once closed never     *)
(* sends, accepts or publishes again, and only one that ended well and     *)
(* left nothing behind becomes public.                                     *)
(***************************************************************************)
CONSTANT Tracks

VARIABLES
  sent,      \* tracks whose request reached its driver
  answered,  \* tracks whose answer is part of the record
  sealed,    \* the evidence is frozen
  closed,    \* no forward work any more
  absent,    \* nothing owned is left, proved
  verdict,   \* the foreign comparison: "none", "same" or "changed"
  public     \* the bundle is at its public place

vars == <<sent, answered, sealed, closed, absent, verdict, public>>

Init ==
  /\ sent = {} /\ answered = {}
  /\ sealed = FALSE /\ closed = FALSE /\ absent = FALSE
  /\ verdict = "none"
  /\ public = FALSE

\* Mutant: a sealed record takes further requests.
Open_Unsealed == ~closed

Open == ~closed /\ ~sealed /\ ~absent

Send(t) ==
  /\ Open /\ t \notin sent
  /\ sent = answered
  /\ sent' = sent \cup {t}
  /\ UNCHANGED <<answered, sealed, closed, absent, verdict, public>>

\* Mutant: an answer is taken without its request.
Answer_Unsolicited(t) ==
  /\ Open /\ t \notin answered
  /\ answered' = answered \cup {t}
  /\ UNCHANGED <<sent, sealed, closed, absent, verdict, public>>

Answer(t) ==
  /\ Open /\ t \in sent \ answered
  /\ answered' = answered \cup {t}
  /\ UNCHANGED <<sent, sealed, closed, absent, verdict, public>>

Seal ==
  /\ ~sealed /\ ~absent
  /\ sealed' = TRUE
  /\ UNCHANGED <<sent, answered, closed, absent, verdict, public>>

Close ==
  /\ ~closed
  /\ closed' = TRUE
  /\ UNCHANGED <<sent, answered, sealed, absent, verdict, public>>

ProveAbsence ==
  /\ ~absent
  /\ sealed \/ sent = {}
  /\ absent' = TRUE
  /\ UNCHANGED <<sent, answered, sealed, closed, verdict, public>>

Compare ==
  /\ absent /\ verdict = "none"
  /\ verdict' \in {"same", "changed"}
  /\ UNCHANGED <<sent, answered, sealed, closed, absent, public>>

\* Mutant: publication does not wait for the outstanding answer.
Publish_Unanswered ==
  /\ ~closed /\ ~public
  /\ sealed /\ verdict = "same"
  /\ public' = TRUE
  /\ UNCHANGED <<sent, answered, sealed, closed, absent, verdict>>

Publish ==
  /\ ~closed /\ ~public
  /\ sealed /\ verdict = "same" /\ sent = answered
  /\ public' = TRUE
  /\ UNCHANGED <<sent, answered, sealed, closed, absent, verdict>>

Next ==
  \/ \E t \in Tracks : Send(t) \/ Answer(t)
  \/ Seal \/ Close \/ ProveAbsence \/ Compare \/ Publish

Spec == Init /\ [][Next]_vars

----------------------------------------------------------------------------
\* Type correctness.
TypeOK ==
  /\ sent \subseteq Tracks /\ answered \subseteq sent
  /\ sealed \in BOOLEAN /\ closed \in BOOLEAN /\ absent \in BOOLEAN
  /\ verdict \in {"none", "same", "changed"}
  /\ public \in BOOLEAN

\* What is public is complete: no request is outstanding, the evidence is
\* sealed, nothing owned is left and nothing foreign changed (_publish).
PublicIsComplete ==
  public => sent = answered /\ sealed /\ absent /\ verdict = "same"

\* What was published stays true: no later step adds a request or an answer to
\* the lifecycle the bundle tells of, or takes back anything it says.
PublicIsFinal ==
  [][public => UNCHANGED <<sent, answered, sealed, absent, verdict, public>>]_vars
=============================================================================
