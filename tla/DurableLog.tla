----------------------------- MODULE DurableLog -----------------------------
(***************************************************************************)
(* What the journal file promises whoever writes to it                     *)
(* (src/kil/v3b2_journal.py): it is a log that only grows, a write that    *)
(* was acknowledged is never lost, and a power loss takes at most what was *)
(* not.  Neither files nor processes appear here; V3B2Files implements it. *)
(***************************************************************************)
EXTENDS Naturals, SequencesExt

VARIABLES
  log,          \* what was written, the oldest first
  acknowledged  \* how many of these writes were acknowledged

LogInit == log = <<>> /\ acknowledged = 0

\* One writer at a time adds to what all others wrote.
Write == IsStrictPrefix(log, log') /\ UNCHANGED acknowledged

Acknowledge ==
  /\ acknowledged' \in acknowledged..Len(log)
  /\ UNCHANGED log

PowerLoss ==
  /\ \E n \in acknowledged..Len(log) : log' = SubSeq(log, 1, n)
  /\ UNCHANGED acknowledged

LogSpec == LogInit /\ [][Write \/ Acknowledge \/ PowerLoss]_<<log, acknowledged>>
=============================================================================
