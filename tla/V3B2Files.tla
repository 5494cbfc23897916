----------------------------- MODULE V3B2Files -----------------------------
(***************************************************************************)
(* How a V3B-2 lifecycle keeps its journal, its proofs and its bundle on   *)
(* disk: several controller processes on one private root, any of which    *)
(* may die at any step, and a machine that may lose its power.             *)
(*                                                                         *)
(* V3B2Journal and V3B2Lifecycle have every family and one process, and    *)
(* take each write as done.  Here a write is made of its system calls      *)
(* (v3b2_journal.py: create_journal, _journal_append_lock,                 *)
(* _replace_journal, _publish_observed_proof, append_observed_terminal;    *)
(* v3b2_controller.py: _write_exclusive, _journal_pair, recover, _publish; *)
(* v3b2_evidence.py: publish_prepared) and of the families one of each     *)
(* kind is kept: "setup" (profile_start), "delete" (profile_delete, for    *)
(* the cleanup families that repeat their command) and "publication".      *)
(*                                                                         *)
(* A proof file is named after its intent and the digest of its content,   *)
(* here the family, whether the context was teardown-only and what was     *)
(* observed; under that name it is Whole or Absent.  A proof of an unknown *)
(* outcome is read by nobody and not kept here; the sync that publishes it *)
(* is.                                                                     *)
(***************************************************************************)
EXTENDS Naturals, Sequences, DurableDirectory

CONSTANTS
  Controllers,  \* the processes that may work on the private root
  Whole,        \* content of a file other than the journal, complete
  MaxFaults     \* bound on deaths, raised errors and power losses

ASSUME WholeAssumption == Whole \notin {Absent, Torn}
ASSUME FaultsAssumption == MaxFaults \in Nat

VARIABLES
  private,  \* the private root: inputs, journal and proofs
  public,   \* the public parent: staging directory and bundle
  lock,     \* the holder of the append lock, if any
  at,       \* where each controller is
  job,      \* the operation each has in hand
  read,     \* the journal each loaded under the lock
  runtime,  \* the owned profile: "absent" or "present"
  flight,   \* the command each controller waits for
  orphans,  \* commands whose controller died
  sent,     \* families whose command was ever started
  acked,    \* how many journal writes were acknowledged
  told,     \* nominal() returned its bundle
  faults

disk == <<private, public, lock, read, acked, told>>
host == <<runtime, flight, orphans, sent>>
vars == <<disk, at, job, host, faults>>

----------------------------------------------------------------------------
Families == {"setup", "delete", "publication"}
Commands == {"setup", "delete"}
Sights == {"present", "absent", "unreadable"}

Inputs == <<"inputs">>
Journal == <<"journal">>
Proofs == {"proof"} \X Families \X BOOLEAN \X Sights
PrivateNames == {Inputs, Journal} \cup Proofs

Staging == "staging"
Bundle == "bundle"

Events ==
  [family : Families, stage : {"intent"}, proof : {Absent}]
    \cup [family : Families, stage : {"complete", "failed", "abandoned"},
          proof : Proofs]
\* latch is teardown_from_sequence, 0 for None.
Journals == [events : Seq(Events), latch : Nat]
NewJournal == [events |-> <<>>, latch |-> 0]

ASSUME JournalsAssumption == {Absent, Torn} \cap Journals = {}

Jobs == [family : Families, teardown : BOOLEAN, saw : Sights,
         forward : BOOLEAN, repeated : BOOLEAN]
Idle == [family |-> "setup", teardown |-> FALSE, saw |-> "unreadable",
         forward |-> FALSE, repeated |-> FALSE]
ProofOf(j) == <<"proof", j.family, j.teardown, j.saw>>

Preparing == {"inputs", "inputs filled", "create", "journal", "journal filled"}
Publishing == {"staging", "staged", "rename", "renamed"}
Places ==
  Preparing \cup Publishing
    \cup {"idle", "intent", "check", "launch", "await", "latch", "latched",
          "advance", "look", "prove", "proof", "record", "terminal",
          "unknown", "publish"}

journal == private[Journal].seen
Usable(x) == x \notin {Absent, Torn}
Loads == Usable(journal) /\ private[Inputs].seen = Whole

LastOf(x) == x.events[Len(x.events)]
Pending(x) == x.events # <<>> /\ LastOf(x).stage = "intent"
With(x, e) == [x EXCEPT !.events = Append(@, e)]
Intent(f) == [family |-> f, stage |-> "intent", proof |-> Absent]

\* The order of V3B2Journal, for these three families.
Admitted(x, f) ==
  /\ ~Pending(x)
  /\ f = "setup" => x.events = <<>> /\ x.latch = 0
  /\ f = "delete" => /\ x.events # <<>>
                     /\ LastOf(x).family = "setup"
                     /\ LastOf(x).stage # "failed"
  /\ f = "publication" => /\ x.events # <<>>
                          /\ LastOf(x).family = "delete"
                          /\ x.latch = 0

\* decide: what an observation makes of the pending operation.
Outcome(j) ==
  CASE j.family = "setup" /\ j.saw = "absent" -> "failed"
    [] j.family = "setup" /\ j.saw = "present" ->
         IF j.teardown THEN "abandoned" ELSE "complete"
    [] j.family = "delete" /\ j.saw = "absent" -> "complete"
    [] j.family = "publication" /\ j.saw = "present" /\ ~j.teardown ->
         "complete"
    [] OTHER -> "unknown"

Sight(f) ==
  IF f = "publication"
  THEN IF public[Bundle].seen = Whole THEN "present" ELSE "absent"
  ELSE runtime

\* Mutant: the latch begins with the terminal itself.
Settled_LatchesItself(x, j) ==
  LET done == With(x, [family |-> j.family, stage |-> Outcome(j),
                       proof |-> ProofOf(j)])
  IN  IF Outcome(j) # "complete" /\ x.latch = 0
      THEN [done EXCEPT !.latch = Len(done.events)]
      ELSE done

\* The journal with its terminal; one that is not complete latches teardown.
Settled(x, j) ==
  LET done == With(x, [family |-> j.family, stage |-> Outcome(j),
                       proof |-> ProofOf(j)])
  IN  IF Outcome(j) # "complete" /\ x.latch = 0
      THEN [done EXCEPT !.latch = Len(done.events) + 1]
      ELSE done

\* expected_context, for one event: whether a proof was teardown-only is read
\* off the latch and the terminal's position, and what was observed decides.
Rederived(x, i) ==
  \E j \in Jobs :
    /\ j.teardown = (x.latch # 0 /\ x.latch <= i)
    /\ x.events[i] = [family |-> x.events[i - 1].family,
                      stage |-> Outcome(j), proof |-> ProofOf(j)]

\* load_expected_context: every proof is read and rederived.
Replays ==
  \A i \in 1..Len(journal.events) :
    journal.events[i].stage # "intent" =>
      /\ private[journal.events[i].proof].seen = Whole
      /\ Rederived(journal, i)

\* The writes a journal amounts to, its latch among them.
LatchWrite == [family |-> "latch", stage |-> "latch", proof |-> Absent]
Writes(x) ==
  IF ~Usable(x) THEN <<>>
  ELSE IF x.latch = 0 THEN x.events
  ELSE SubSeq(x.events, 1, x.latch - 1) \o <<LatchWrite>>
         \o SubSeq(x.events, x.latch, Len(x.events))

----------------------------------------------------------------------------
Init ==
  /\ private = Empty(PrivateNames)
  /\ public = Empty({Staging, Bundle})
  /\ lock = {}
  /\ at = [c \in Controllers |-> "idle"]
  /\ job = [c \in Controllers |-> Idle]
  /\ read = [c \in Controllers |-> Absent]
  /\ runtime = "absent"
  /\ flight = [c \in Controllers |-> "none"]
  /\ orphans = {}
  /\ sent = {}
  /\ acked = 0
  /\ told = FALSE
  /\ faults = 0

Goes(c, from, to) == at[c] = from /\ at' = [at EXCEPT ![c] = to]

\* A locked append: load, validate, write a synced temporary file, replace.
Replace(c, x) ==
  /\ lock = {}
  /\ Loads
  /\ lock' = {c}
  /\ private' = Stored(private, Journal, x)

\* The end of it: sync the directory, release the lock, return.
Return(c) ==
  /\ private' = Synced(private)
  /\ lock' = lock \ {c}
  /\ acked' = Len(Writes(journal))

OnlyPrivate == UNCHANGED <<public, read, told, host, faults>>

----------------------------------------------------------------------------
(***************************************************************************)
(* preflight: the expected inputs, then the journal that commits to them.  *)
(* Both are created exclusively, so what a death leaves is never resumed.  *)
(***************************************************************************)
CreateInputs(c) ==
  /\ Goes(c, "idle", "inputs")
  /\ journal = Absent
  /\ private[Inputs].seen = Absent
  /\ private' = Stored(private, Inputs, Torn)
  /\ OnlyPrivate /\ UNCHANGED <<lock, job, acked>>

FillInputs(c) ==
  /\ Goes(c, "inputs", "inputs filled")
  /\ private' = Filled(private, Inputs, Whole)
  /\ OnlyPrivate /\ UNCHANGED <<lock, job, acked>>

SyncInputs(c) ==
  /\ Goes(c, "inputs filled", "create")
  /\ private' = Synced(private)
  /\ OnlyPrivate /\ UNCHANGED <<lock, job, acked>>

CreateJournal(c) ==
  /\ Goes(c, "create", "journal")
  /\ journal = Absent
  /\ private' = Stored(private, Journal, Torn)
  /\ OnlyPrivate /\ UNCHANGED <<lock, job, acked>>

FillJournal(c) ==
  /\ Goes(c, "journal", "journal filled")
  /\ private' = Filled(private, Journal, NewJournal)
  /\ OnlyPrivate /\ UNCHANGED <<lock, job, acked>>

\* A write or its sync fails: the name is removed, the inputs stay.
FillJournalFails(c) ==
  /\ Goes(c, "journal", "idle")
  /\ faults < MaxFaults /\ faults' = faults + 1
  /\ private' = Stored(private, Journal, Absent)
  /\ UNCHANGED <<public, lock, read, acked, told, job, host>>

SyncJournal(c) ==
  /\ Goes(c, "journal filled", "idle")
  /\ private' = Synced(private)
  /\ OnlyPrivate /\ UNCHANGED <<lock, job, acked>>

\* Nobody works on a private root whose preparation still runs.
Prepared == Loads /\ \A d \in Controllers : at[d] \notin Preparing

----------------------------------------------------------------------------
(***************************************************************************)
(* The forward program: setup, delete, publication, each an intent, its    *)
(* command and its observed terminal.                                      *)
(***************************************************************************)
Appends(c, f, forward) ==
  /\ Admitted(journal, f)
  /\ Replace(c, With(journal, Intent(f)))
  /\ job' = [job EXCEPT ![c] = [Idle EXCEPT !.family = f,
                                            !.forward = forward]]
  /\ OnlyPrivate /\ UNCHANGED acked

IntendSetup(c) ==
  /\ Goes(c, "idle", "intent")
  /\ Prepared
  /\ Appends(c, "setup", TRUE)

\* _advance_teardown, from the program or from recover.
IntendDelete(c) ==
  /\ Goes(c, "advance", "intent")
  /\ Appends(c, "delete", job[c].forward)

IntendPublication(c) ==
  /\ Goes(c, "publish", "intent")
  /\ Appends(c, "publication", TRUE)

\* Where an operation goes from its durable intent.
First == [setup |-> "check", delete |-> "look", publication |-> "staging"]

\* Mutant: the command is not held back until the directory is synced.
SyncIntent_Skipped(c) ==
  /\ Goes(c, "intent", First[job[c].family])
  /\ lock' = lock \ {c}
  /\ UNCHANGED <<private, acked>>
  /\ OnlyPrivate /\ UNCHANGED job

SyncIntent(c) ==
  /\ Goes(c, "intent", First[job[c].family])
  /\ Return(c)
  /\ OnlyPrivate /\ UNCHANGED job

\* _observe: a command is checked against the journal and then started.
Check(c) ==
  /\ Goes(c, "check", "launch")
  /\ Loads
  /\ job[c].family = "setup" => journal.latch = 0
  /\ UNCHANGED <<disk, job, host, faults>>

Launch(c) ==
  /\ Goes(c, "launch", "await")
  /\ flight' = [flight EXCEPT ![c] = job[c].family]
  /\ sent' = sent \cup {job[c].family}
  /\ UNCHANGED <<disk, job, runtime, orphans, faults>>

Effect(f) == IF f = "setup" THEN "present" ELSE "absent"

\* A running command takes effect, or ends without.
Acts(c) ==
  /\ flight[c] # "none"
  /\ runtime' \in {runtime, Effect(flight[c])}
  /\ flight' = [flight EXCEPT ![c] = "none"]
  /\ UNCHANGED <<disk, at, job, orphans, sent, faults>>

OrphanActs(f) ==
  /\ runtime' \in {runtime, Effect(f)}
  /\ orphans' = orphans \ {f}
  /\ UNCHANGED <<disk, at, job, flight, sent, faults>>

CommandReturns(c) ==
  /\ Goes(c, "await", "look")
  /\ flight[c] = "none"
  /\ UNCHANGED <<disk, job, host, faults>>

\* The program fails: from here on it is _recover_to_owned_absence.
Unwinds(c, from) ==
  /\ Goes(c, from, "latch")
  /\ job' = [job EXCEPT ![c] = Idle]
  /\ UNCHANGED <<disk, host, faults>>

SetupFails(c) ==
  \/ /\ Loads /\ job[c].family = "setup" /\ journal.latch # 0
     /\ Unwinds(c, "check")
  \/ /\ flight[c] = "none" /\ job[c].family = "setup"
     /\ Unwinds(c, "await")
PublicationRefused(c) ==
  Loads /\ ~Admitted(journal, "publication") /\ Unwinds(c, "publish")

----------------------------------------------------------------------------
(***************************************************************************)
(* recover, and the observed terminal that it shares with the program.     *)
(***************************************************************************)
BeginRecover(c) ==
  /\ Goes(c, "idle", "look")
  /\ Prepared
  /\ job' = [job EXCEPT ![c] = Idle]
  /\ UNCHANGED <<disk, host, faults>>

\* Context and observation are taken without the lock.
Observe(c) ==
  /\ at[c] \in {"look", "advance"}
  /\ Loads
  /\ Replays
  /\ Pending(journal)
  /\ LET f == LastOf(journal).family
     IN  \E s \in {Sight(f), "unreadable"} :
           job' = [job EXCEPT ![c].family = f, ![c].saw = s,
                              ![c].teardown = (journal.latch # 0)]
  /\ at' = [at EXCEPT ![c] = "prove"]
  /\ UNCHANGED <<disk, host, faults>>

NothingPending(c) ==
  /\ Goes(c, "look", IF job[c].forward THEN "advance" ELSE "latch")
  /\ Loads
  /\ ~Pending(journal)
  /\ UNCHANGED <<disk, job, host, faults>>

\* latch_teardown; one that finds the latch set writes and syncs nothing.
Latch(c) ==
  /\ Goes(c, "latch", "latched")
  /\ Loads
  /\ journal.latch = 0
  /\ Replace(c, [journal EXCEPT !.latch = Len(journal.events) + 1])
  /\ OnlyPrivate /\ UNCHANGED <<job, acked>>

SyncLatch(c) ==
  /\ Goes(c, "latched", "advance")
  /\ Return(c)
  /\ OnlyPrivate /\ UNCHANGED job

LatchedAlready(c) ==
  /\ Goes(c, "latch", "advance")
  /\ lock = {}
  /\ Loads
  /\ journal.latch # 0
  /\ UNCHANGED <<disk, job, host, faults>>

\* Teardown has nothing left to do, or another controller did it.
NothingToAdvance(c) ==
  /\ Goes(c, "advance", "idle")
  /\ Loads
  /\ ~Pending(journal)
  /\ ~Admitted(journal, "delete")
  /\ job' = [job EXCEPT ![c] = Idle]
  /\ UNCHANGED <<disk, host, faults>>

\* The journal must replay, and must still imply the context.
Current(c) ==
  /\ Replays
  /\ Pending(journal)
  /\ LastOf(journal).family = job[c].family
  /\ job[c].teardown = (journal.latch # 0)

PublishedProof(j) ==
  IF Outcome(j) = "unknown" THEN private
                            ELSE Stored(private, ProofOf(j), Whole)

\* Mutant: the terminal is written without taking the append lock.
Prove_Unlocked(c) ==
  /\ Goes(c, "prove", "proof")
  /\ Loads
  /\ Current(c)
  /\ read' = [read EXCEPT ![c] = journal]
  /\ private' = PublishedProof(job[c])
  /\ UNCHANGED <<public, lock, acked, told, job, host, faults>>

\* append_observed_terminal takes the lock and publishes the proof first.
Prove(c) ==
  /\ Goes(c, "prove", "proof")
  /\ lock = {}
  /\ Loads
  /\ Current(c)
  /\ lock' = {c}
  /\ read' = [read EXCEPT ![c] = journal]
  /\ private' = PublishedProof(job[c])
  /\ UNCHANGED <<public, acked, told, job, host, faults>>

\* "observed context differs from immutable expected inputs"
ProveRefused(c) ==
  /\ lock = {}
  /\ Loads
  /\ ~Current(c)
  /\ IF job[c].forward THEN Unwinds(c, "prove")
     ELSE /\ Goes(c, "prove", "idle")
          /\ job' = [job EXCEPT ![c] = Idle]
          /\ UNCHANGED <<disk, host, faults>>

\* An unknown outcome ends here, with its proof kept.
Decided(c) ==
  IF Outcome(job[c]) = "unknown"
  THEN /\ Goes(c, "proof", "unknown")
       /\ lock' = lock \ {c}
       /\ read' = [read EXCEPT ![c] = Absent]
  ELSE Goes(c, "proof", "record") /\ UNCHANGED <<lock, read>>

\* Mutant: the proof's directory is not synced before the terminal.
SyncProof_Skipped(c) ==
  /\ Decided(c)
  /\ UNCHANGED <<private, public, acked, told, job, host, faults>>

SyncProof(c) ==
  /\ Decided(c)
  /\ private' = Synced(private)
  /\ UNCHANGED <<public, acked, told, job, host, faults>>

Record(c) ==
  /\ Goes(c, "record", "terminal")
  /\ private' = Stored(private, Journal, Settled(read[c], job[c]))
  /\ UNCHANGED <<public, lock, read, acked, told, job, host, faults>>

\* The program goes on from a complete operation, and unwinds from another.
Onward(j) ==
  CASE j.forward /\ Outcome(j) # "complete" -> "latch"
    [] j.forward /\ Outcome(j) = "complete" /\ j.family = "setup" -> "advance"
    [] j.forward /\ Outcome(j) = "complete" /\ j.family = "delete" -> "publish"
    [] OTHER -> "idle"

SyncTerminal(c) ==
  /\ Goes(c, "terminal", Onward(job[c]))
  /\ Return(c)
  /\ told' = (told \/ (job[c].forward /\ job[c].family = "publication"))
  /\ job' = [job EXCEPT ![c] = [Idle EXCEPT !.forward =
               job[c].forward /\ Outcome(job[c]) = "complete"
                 /\ job[c].family # "publication"]]
  /\ read' = [read EXCEPT ![c] = Absent]
  /\ UNCHANGED <<public, host, faults>>

\* Mutant: the command of any pending operation is repeated.
Repeatable_Any(j) == ~j.repeated

\* cleanup_commands: a deletion is repeated, once a call, a setup never.
Repeatable(j) == j.family = "delete" /\ j.saw = "present" /\ ~j.repeated

Cleanup(c) ==
  /\ Goes(c, "unknown", "check")
  /\ Repeatable(job[c])
  /\ job' = [job EXCEPT ![c].repeated = TRUE]
  /\ UNCHANGED <<disk, host, faults>>

Undecided(c) ==
  /\ ~Repeatable(job[c])
  /\ Goes(c, "unknown", IF job[c].forward THEN "latch" ELSE "idle")
  /\ job' = [job EXCEPT ![c] = Idle]
  /\ UNCHANGED <<disk, host, faults>>

----------------------------------------------------------------------------
(***************************************************************************)
(* publish_prepared: a staging directory, synced, verified and renamed.    *)
(***************************************************************************)
OnlyPublic == UNCHANGED <<private, lock, read, acked, told, job, host>>

Stage(c) ==
  /\ Goes(c, "staging", "staged")
  /\ public[Bundle].seen = Absent
  /\ public' = Stored(public, Staging, Torn)
  /\ OnlyPublic /\ UNCHANGED faults

FillStaging(c) ==
  /\ Goes(c, "staged", "rename")
  /\ public' = Filled(public, Staging, Whole)
  /\ OnlyPublic /\ UNCHANGED faults

Rename(c) ==
  /\ Goes(c, "rename", "renamed")
  /\ public[Bundle].seen = Absent
  /\ public' = Renamed(public, Staging, Bundle)
  /\ OnlyPublic /\ UNCHANGED faults

\* Mutant: the public parent is not synced after the rename.
SyncPublic_Skipped(c) ==
  /\ Goes(c, "renamed", "look")
  /\ public' = public
  /\ OnlyPublic /\ UNCHANGED faults

SyncPublic(c) ==
  /\ Goes(c, "renamed", "look")
  /\ public' = Synced(public)
  /\ OnlyPublic /\ UNCHANGED faults

\* Before the rename the staging directory is removed, after it nothing is.
PublishFails(c) ==
  /\ at[c] \in Publishing
  /\ faults < MaxFaults /\ faults' = faults + 1
  /\ at' = [at EXCEPT ![c] = "latch"]
  /\ job' = [job EXCEPT ![c] = Idle]
  /\ public' \in IF at[c] \in {"staged", "rename"}
                 THEN {public, Stored(public, Staging, Absent)} ELSE {public}
  /\ UNCHANGED <<private, lock, read, acked, told, host>>

----------------------------------------------------------------------------
\* A process dies, or an error (a failed fsync among them) leaves it: the
\* kernel drops its lock, its command may go on.
Dies(c) ==
  /\ at[c] # "idle"
  /\ faults < MaxFaults /\ faults' = faults + 1
  /\ at' = [at EXCEPT ![c] = "idle"]
  /\ job' = [job EXCEPT ![c] = Idle]
  /\ read' = [read EXCEPT ![c] = Absent]
  /\ lock' = lock \ {c}
  /\ flight' = [flight EXCEPT ![c] = "none"]
  /\ orphans' = orphans \cup ({flight[c]} \ {"none"})
  /\ UNCHANGED <<private, public, acked, told, runtime, sent>>

PowerLoss ==
  /\ faults < MaxFaults /\ faults' = faults + 1
  /\ private' \in Leavings(private)
  /\ public' \in Leavings(public)
  /\ lock' = {}
  /\ at' = [c \in Controllers |-> "idle"]
  /\ job' = [c \in Controllers |-> Idle]
  /\ read' = [c \in Controllers |-> Absent]
  /\ flight' = [c \in Controllers |-> "none"]
  /\ orphans' = {}
  /\ UNCHANGED <<runtime, sent, acked, told>>

Prepares(c) ==
  \/ CreateInputs(c) \/ FillInputs(c) \/ SyncInputs(c)
  \/ CreateJournal(c) \/ FillJournal(c) \/ FillJournalFails(c)
  \/ SyncJournal(c)

Appending(c) ==
  \/ IntendSetup(c) \/ IntendDelete(c) \/ IntendPublication(c)
  \/ SyncIntent(c) \/ Latch(c) \/ SyncLatch(c)

Commanding(c) ==
  \/ Check(c) \/ Launch(c) \/ Acts(c) \/ CommandReturns(c) \/ SetupFails(c)

Recovering(c) ==
  \/ BeginRecover(c) \/ Observe(c) \/ NothingPending(c)
  \/ LatchedAlready(c) \/ NothingToAdvance(c)
  \/ Cleanup(c) \/ Undecided(c) \/ PublicationRefused(c)

Proving(c) ==
  \/ Prove(c) \/ ProveRefused(c) \/ SyncProof(c) \/ Record(c)
  \/ SyncTerminal(c)

Publishes(c) ==
  \/ Stage(c) \/ FillStaging(c) \/ Rename(c) \/ SyncPublic(c)
  \/ PublishFails(c)

Next ==
  \/ \E c \in Controllers :
       \/ Prepares(c) \/ Appending(c) \/ Commanding(c) \/ Recovering(c)
       \/ Proving(c) \/ Publishes(c) \/ Dies(c)
  \/ \E f \in orphans : OrphanActs(f)
  \/ PowerLoss

Spec == Init /\ [][Next]_vars

----------------------------------------------------------------------------
\* Every journal that is there or that a power loss would leave.
Surviving == private[Journal].may \ {Absent, Torn}

Holds(x, f) == \E i \in 1..Len(x.events) : x.events[i] = Intent(f)

(***************************************************************************)
(* A command that ever ran has its intent in every journal that can be     *)
(* found later, after any death and any power loss (design, section 7:     *)
(* intents are written ahead).  Also for the deletion a recovery repeats,  *)
(* whose intent it may have read before anybody synced it.                 *)
(***************************************************************************)
MutationIsRecorded ==
  \A f \in sent : \A x \in private[Journal].may :
    Usable(x) /\ Holds(x, f)

(***************************************************************************)
(* A terminal event that can be found has its proof beside it, whole: a    *)
(* journal is never left that load_expected_context cannot replay.         *)
(***************************************************************************)
TerminalHasItsProof ==
  \A x \in Surviving : \A i \in 1..Len(x.events) :
    x.events[i].stage # "intent" => private[x.events[i].proof].may = {Whole}

(***************************************************************************)
(* expected_context rederives each proof: whether it was teardown-only is  *)
(* read off the latch and the terminal's position, not off the proof, and  *)
(* must agree with it; the outcome then follows from what was observed.    *)
(***************************************************************************)
ProofsReplay ==
  \A x \in Surviving : \A i \in 1..Len(x.events) :
    x.events[i].stage # "intent" => Rederived(x, i)

(***************************************************************************)
(* A journal that can be found has the inputs it commits to.               *)
(***************************************************************************)
JournalHasItsInputs ==
  private[Journal].may # {Absent} => private[Inputs].may = {Whole}

(***************************************************************************)
(* Whoever finds the bundle's name finds all of it, and when nominal() has *)
(* returned its bundle no power loss takes the bundle or the event that    *)
(* says it is published.                                                   *)
(***************************************************************************)
PublishedIsDurable ==
  /\ public[Bundle].may \subseteq {Absent, Whole}
  /\ told => /\ public[Bundle].may = {Whole}
             /\ \A x \in private[Journal].may :
                  Usable(x) /\ x.events # <<>>
                    /\ LastOf(x).family = "publication"
                    /\ LastOf(x).stage = "complete"

(***************************************************************************)
(* The setup command is started at most once in the life of a private      *)
(* root, however many controllers are started on it and however they end.  *)
(***************************************************************************)
SetupSentOnce ==
  [][\A c \in Controllers :
       flight'[c] = "setup" /\ flight[c] # "setup" => "setup" \notin sent]_vars

Log == INSTANCE DurableLog WITH log <- Writes(journal), acknowledged <- acked

(***************************************************************************)
(* The journal is a log: nobody's acknowledged write is lost, to another   *)
(* controller, to a death or to a power loss.                              *)
(***************************************************************************)
KeepsTheLog == Log!LogSpec
=============================================================================
