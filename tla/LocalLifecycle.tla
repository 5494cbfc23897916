--------------------------- MODULE LocalLifecycle ---------------------------
(***************************************************************************)
(* What a V3B-1 lifecycle promises to whoever reads its bundle, without    *)
(* the journal, the process and the host (tools/v3b1_local_envoy.py, down):*)
(* no request is sent once the evidence is frozen or the environment gone, *)
(* an environment that sent something is removed only with its evidence    *)
(* frozen or given up for lost, a bundle is published afterwards, of the   *)
(* class the evidence has earned, and one archived lifecycle is final.     *)
(***************************************************************************)
CONSTANT Tracks

VARIABLES
  sent,      \* tracks whose request left its driver
  frozen,    \* the sources are copied, as far as they could be
  lost,      \* the lifecycle is known to have failed
  gone,      \* nothing owned is left
  verdict,   \* the foreign comparison: "none", "same" or "changed"
  public,    \* the bundle at its public place: "none", "complete" or "incomplete"
  archived   \* the journal is put away, and the lifecycle over

vars == <<sent, frozen, lost, gone, verdict, public, archived>>

Init ==
  /\ sent = {}
  /\ frozen = FALSE /\ lost = FALSE /\ gone = FALSE
  /\ verdict = "none" /\ public = "none" /\ archived = FALSE

Send(t) ==
  /\ ~frozen /\ ~gone /\ t \notin sent
  /\ sent' = sent \cup {t}
  /\ UNCHANGED <<frozen, lost, gone, verdict, public, archived>>

Freeze ==
  /\ ~gone
  /\ frozen' = TRUE
  /\ UNCHANGED <<sent, lost, gone, verdict, public, archived>>

\* What is public or archived is not declared a failure afterwards.
Lose ==
  /\ public = "none" /\ ~archived
  /\ lost' = TRUE
  /\ UNCHANGED <<sent, frozen, gone, verdict, public, archived>>

Remove ==
  /\ frozen \/ lost \/ sent = {}
  /\ gone' = TRUE
  /\ UNCHANGED <<sent, frozen, lost, verdict, public, archived>>

Compare ==
  /\ gone /\ verdict = "none"
  /\ verdict' \in {"same", "changed"}
  /\ UNCHANGED <<sent, frozen, lost, gone, public, archived>>

Publish(class) ==
  /\ gone /\ verdict # "none" /\ public = "none" /\ ~archived
  /\ class = "complete" => frozen /\ ~lost /\ verdict = "same" /\ sent = Tracks
  /\ class = "incomplete" => lost \/ verdict = "same"
  /\ public' = class
  /\ UNCHANGED <<sent, frozen, lost, gone, verdict, archived>>

\* A publication that could not be recorded is taken back.
Withdraw ==
  /\ ~archived
  /\ public' = "none"
  /\ UNCHANGED <<sent, frozen, lost, gone, verdict, archived>>

Archive ==
  /\ gone /\ verdict # "none" /\ ~archived
  /\ public # "none" \/ sent = {}
  /\ archived' = TRUE
  /\ UNCHANGED <<sent, frozen, lost, gone, verdict, public>>

Next ==
  \/ \E t \in Tracks : Send(t)
  \/ Freeze \/ Lose \/ Remove \/ Compare
  \/ \E class \in {"complete", "incomplete"} : Publish(class)
  \/ Withdraw \/ Archive

Spec == Init /\ [][Next]_vars

----------------------------------------------------------------------------
\* What is public tells of a lifecycle of which nothing is left, and a complete
\* bundle of one that sent every request, froze its evidence, was never known to
\* fail and changed nothing foreign; what is archived sent nothing, or has its
\* bundle (finalize_publication, down).
Accountable ==
  /\ public # "none" => gone /\ verdict # "none"
  /\ public = "complete" => sent = Tracks /\ frozen /\ ~lost /\ verdict = "same"
  /\ archived => gone /\ verdict # "none" /\ (public # "none" \/ sent = {})

\* What a public bundle tells of stays as it was, also if it is withdrawn, and
\* once a lifecycle is archived its bundle stays too.
SettledIsFinal ==
  [][/\ public # "none" \/ archived => UNCHANGED <<sent, frozen, lost, gone, verdict>>
     /\ archived => UNCHANGED <<public, archived>>]_vars
=============================================================================
