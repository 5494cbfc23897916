-------------------------- MODULE V3B2FilesProofs --------------------------
(***************************************************************************)
(* What survives on disk, for any number of controllers, deaths and power  *)
(* losses.                                                                 *)
(***************************************************************************)
EXTENDS V3B2Files, SequenceTheorems, TLAPS

Contents == Journals \cup {Absent, Torn, Whole}

\* What a name holds is among what it may hold.
Sane(dir) == \A n \in DOMAIN dir : dir[n].seen \in dir[n].may

DiskOK ==
  /\ private \in Directory(PrivateNames, Contents)
  /\ Sane(private)
  /\ private[Journal].may \subseteq Journals \cup {Absent, Torn}
  /\ TerminalHasItsProof
  /\ JournalHasItsInputs

FilesTypeOK ==
  /\ at \in [Controllers -> Places]
  /\ job \in [Controllers -> Jobs]
  /\ read \in [Controllers -> Contents]
  /\ lock \in SUBSET Controllers
  /\ runtime \in {"present", "absent"}
  /\ sent \in SUBSET Families

Recorded(f) == \A x \in private[Journal].may : Usable(x) /\ Holds(x, f)

\* What a controller knows of the pending operation between its reading the
\* journal under the lock and its writing the terminal.
Pends(c) ==
  /\ Usable(journal) /\ read[c] = journal
  /\ Pending(journal) /\ LastOf(journal).family = job[c].family
Witnessed(c) ==
  Outcome(job[c]) # "unknown" => private[ProofOf(job[c])].seen = Whole
Durable(c) ==
  Outcome(job[c]) # "unknown" /\ private[ProofOf(job[c])].may = {Whole}

LockedPlaces == {"intent", "latched", "proof", "record", "terminal"}

Locking ==
  /\ \A c, d \in lock : c = d
  /\ \A c \in Controllers : at[c] \in LockedPlaces => c \in lock

\* What each controller may rely on where it is.
Relies(c) ==
  /\ at[c] = "intent" => Usable(journal) /\ Holds(journal, job[c].family)
  /\ at[c] \in {"proof", "record"} => Pends(c)
  /\ at[c] = "proof" => Witnessed(c)
  /\ at[c] = "record" => Durable(c)
  /\ at[c] \in {"check", "launch", "unknown"} => Recorded(job[c].family)

\* A preparation is alone, and as far as its place says.
Prep(c) ==
  /\ at[c] \in Preparing => /\ private[Inputs].seen # Absent
                            /\ \A d \in Controllers : at[d] \in Preparing => d = c
  /\ at[c] = "inputs" => private[Inputs].seen = Torn
  /\ at[c] = "inputs filled" => private[Inputs].seen = Whole
  /\ at[c] \in {"create", "journal", "journal filled"} =>
       private[Inputs].may = {Whole}
  /\ at[c] = "journal" => journal = Torn

IInv ==
  /\ FilesTypeOK
  /\ DiskOK
  /\ Locking
  /\ \A c \in Controllers : Relies(c) /\ Prep(c)
  /\ MutationIsRecorded

----------------------------------------------------------------------------
LEMMA NamesDiffer ==
  /\ Journal \in PrivateNames /\ Inputs \in PrivateNames
  /\ Journal # Inputs
  /\ \A p \in Proofs : p \in PrivateNames /\ p # Journal /\ p # Inputs
BY DEF Journal, Inputs, Proofs, PrivateNames

LEMMA JobsProve == ASSUME NEW j \in Jobs PROVE ProofOf(j) \in Proofs
BY DEF Jobs, ProofOf, Proofs

LEMMA ContentsApart ==
  /\ Absent # Torn /\ Whole # Absent /\ Whole # Torn
BY ContentsDiffer, WholeAssumption

\* What each operation of a directory does to its entries.
LEMMA StoredEntries ==
  ASSUME NEW names, NEW contents, NEW dir \in Directory(names, contents),
         Sane(dir), NEW n \in names, NEW x \in contents
  PROVE  LET new == Stored(dir, n, x)
         IN  /\ new \in Directory(names, contents) /\ Sane(new)
             /\ new[n] = [seen |-> x, may |-> dir[n].may \cup {x}]
             /\ \A m \in names \ {n} : new[m] = dir[m]
BY DEF Stored, Directory, Sane

LEMMA FilledEntries ==
  ASSUME NEW names, NEW contents, NEW dir \in Directory(names, contents),
         Sane(dir), NEW n \in names, NEW x \in contents
  PROVE  LET new == Filled(dir, n, x)
         IN  /\ new \in Directory(names, contents) /\ Sane(new)
             /\ new[n] = [seen |-> x, may |-> (dir[n].may \ {Torn}) \cup {x}]
             /\ \A m \in names \ {n} : new[m] = dir[m]
BY DEF Filled, Directory, Sane

LEMMA SyncedEntries ==
  ASSUME NEW names, NEW contents, NEW dir \in Directory(names, contents)
  PROVE  /\ Synced(dir) \in Directory(names, contents) /\ Sane(Synced(dir))
         /\ \A n \in names : /\ Synced(dir)[n].seen = dir[n].seen
                              /\ Synced(dir)[n].may = {dir[n].seen}
BY DEF Synced, Directory, Sane

LEMMA LeftEntries ==
  ASSUME NEW names, NEW contents, NEW dir \in Directory(names, contents),
         Sane(dir), NEW left \in Leavings(dir)
  PROVE  /\ left \in Directory(names, contents) /\ Sane(left)
         /\ \A n \in names : left[n].seen \in dir[n].may
                             /\ left[n].may = {left[n].seen}
<1> DEFINE loose == {n \in DOMAIN dir : dir[n].may # {dir[n].seen}}
           picks == {p \in [loose -> UNION {dir[n].may : n \in loose}] :
                       \A n \in loose : p[n] \in dir[n].may}
           chosen(p) == [n \in DOMAIN dir |-> IF n \in loose THEN p[n]
                                                             ELSE dir[n].seen]
<1>1. DOMAIN dir = names
  BY DEF Directory
<1>2. PICK p \in picks :
        left = [n \in DOMAIN dir |-> [seen |-> chosen(p)[n],
                                      may |-> {chosen(p)[n]}]]
  BY DEF Leavings
<1>3. \A n \in names : chosen(p)[n] \in dir[n].may
  BY <1>1, <1>2 DEF Sane
<1>4. \A n \in names : dir[n].may \subseteq contents
  BY DEF Directory
<1>5. \A n \in names : left[n] = [seen |-> chosen(p)[n], may |-> {chosen(p)[n]}]
  BY <1>1, <1>2
<1> HIDE DEF chosen
<1>6. ASSUME NEW n \in names
      PROVE  left[n].seen \in dir[n].may /\ left[n].may = {left[n].seen}
  <2>1. left[n] = [seen |-> chosen(p)[n], may |-> {chosen(p)[n]}]
    BY <1>5
  <2> QED
    BY <1>3, <2>1
<1>7. left \in Directory(names, contents)
  BY <1>1, <1>2, <1>3, <1>4, <1>5 DEF Directory
<1>8. Sane(left)
  BY <1>6, <1>7 DEF Sane, Directory
<1> QED
  BY <1>6, <1>7, <1>8

----------------------------------------------------------------------------
(***************************************************************************)
(* What each change of the private root keeps: that it is in order, and    *)
(* every intent that was in all journals that may be found.                *)
(***************************************************************************)
Keeps == \A f \in Families : Recorded(f) => Recorded(f)'

Extends(y, x) ==
  /\ y \in Journals
  /\ Len(x.events) <= Len(y.events)
  /\ \A i \in 1..Len(x.events) : y.events[i] = x.events[i]

Proved(e) == e.stage # "intent" => private[e.proof].may = {Whole}

Others(n) == \A m \in PrivateNames \ {n} : private'[m] = private[m]

LEMMA EventsProve ==
  ASSUME NEW x \in Journals, NEW i \in 1..Len(x.events),
         x.events[i].stage # "intent"
  PROVE  x.events[i].proof \in Proofs
BY DEF Journals, Events

LEMMA JournalsAreUsable ==
  /\ \A x \in Journals : Usable(x)
  /\ DiskOK => Surviving \subseteq Journals
BY JournalsAssumption DEF Usable, DiskOK, Surviving

LEMMA JournalGrows ==
  ASSUME DiskOK, Usable(journal), NEW y, Extends(y, journal),
         \A i \in 1..Len(y.events) : i > Len(journal.events) => Proved(y.events[i]),
         private' = Stored(private, Journal, y)
  PROVE  DiskOK' /\ Keeps /\ Others(Journal) /\ journal' = y
<1>1. y \in Contents /\ y \in Journals /\ Usable(y)
  BY JournalsAreUsable DEF Extends, Contents
<1>2. /\ private' \in Directory(PrivateNames, Contents) /\ Sane(private')
      /\ private'[Journal] = [seen |-> y, may |-> private[Journal].may \cup {y}]
      /\ Others(Journal)
  BY <1>1, StoredEntries, NamesDiffer DEF DiskOK, Others
<1>3. journal \in Journals /\ journal \in private[Journal].may
  BY NamesDiffer DEF DiskOK, Sane, Usable, Directory, journal
<1>4. private'[Journal].may \subseteq Journals \cup {Absent, Torn}
  BY <1>1, <1>2 DEF DiskOK
<1>5. Keeps
  <2> SUFFICES ASSUME NEW f \in Families, Recorded(f) PROVE Recorded(f)'
    BY DEF Keeps
  <2>1. Holds(journal, f)
    BY <1>3 DEF Recorded
  <2>2. PICK i \in 1..Len(journal.events) : journal.events[i] = Intent(f)
    BY <2>1 DEF Holds
  <2>3. i \in 1..Len(y.events) /\ y.events[i] = Intent(f)
    BY <1>1, <1>3, <2>2 DEF Extends, Journals
  <2>4. Holds(y, f)
    BY <2>3 DEF Holds
  <2> QED
    BY <1>1, <1>2, <2>4 DEF Recorded
<1>6. TerminalHasItsProof'
  <2> SUFFICES ASSUME NEW x \in Surviving', NEW i \in 1..Len(x.events),
                      x.events[i].stage # "intent"
               PROVE  private'[x.events[i].proof].may = {Whole}
    BY DEF TerminalHasItsProof
  <2>1. x \in Journals /\ (x \in Surviving \/ x = y)
    BY <1>1, <1>2, JournalsAreUsable DEF Surviving
  <2>2. private'[x.events[i].proof] = private[x.events[i].proof]
    BY <2>1, <1>2, EventsProve, NamesDiffer DEF Others
  <2>3. CASE x \in Surviving
    BY <2>2, <2>3 DEF DiskOK, TerminalHasItsProof
  <2>4. CASE x = y /\ i <= Len(journal.events)
    <3>1. x.events[i] = journal.events[i] /\ i \in 1..Len(journal.events)
      BY <1>3, <2>4 DEF Extends, Journals
    <3>2. journal \in Surviving
      BY <1>3, JournalsAreUsable DEF Surviving, Usable
    <3> QED
      BY <2>2, <3>1, <3>2 DEF DiskOK, TerminalHasItsProof
  <2>5. CASE x = y /\ i > Len(journal.events)
    BY <2>2, <2>5 DEF Proved
  <2> QED
    BY <1>3, <2>1, <2>3, <2>4, <2>5 DEF Journals
<1>7. JournalHasItsInputs'
  BY <1>2, <1>3, JournalsAreUsable, NamesDiffer
     DEF JournalHasItsInputs, DiskOK, Others, Usable
<1> QED
  BY <1>2, <1>4, <1>5, <1>6, <1>7 DEF DiskOK, journal

InOrder == private \in Directory(PrivateNames, Contents) /\ Sane(private)

LEMMA JournalUntouched ==
  ASSUME DiskOK, InOrder', private'[Journal] = private[Journal],
         \A p \in Proofs : private[p].may = {Whole} => private'[p].may = {Whole},
         JournalHasItsInputs'
  PROVE  DiskOK' /\ Keeps /\ journal' = journal
<1>1. TerminalHasItsProof'
  BY EventsProve, JournalsAreUsable
     DEF DiskOK, TerminalHasItsProof, Surviving
<1>2. Keeps
  BY DEF Keeps, Recorded
<1> QED
  BY <1>1, <1>2 DEF DiskOK, InOrder, journal

\* The root after a sync, or after a power loss.
LEMMA DiskSettles ==
  ASSUME DiskOK, InOrder',
         \A n \in PrivateNames : /\ private'[n].seen \in private[n].may
                                /\ private'[n].may = {private'[n].seen}
  PROVE  DiskOK' /\ Keeps
<1>1. private'[Journal].may \subseteq Journals \cup {Absent, Torn}
  BY NamesDiffer DEF DiskOK
<1>2. TerminalHasItsProof'
  <2> SUFFICES ASSUME NEW x \in Surviving', NEW i \in 1..Len(x.events),
                      x.events[i].stage # "intent"
               PROVE  private'[x.events[i].proof].may = {Whole}
    BY DEF TerminalHasItsProof
  <2>1. x \in Surviving /\ x \in Journals
    BY NamesDiffer, JournalsAreUsable DEF Surviving
  <2>2. private[x.events[i].proof].may = {Whole}
    BY <2>1 DEF DiskOK, TerminalHasItsProof
  <2>3. x.events[i].proof \in PrivateNames
    BY <2>1, EventsProve, NamesDiffer
  <2> QED
    BY <2>2, <2>3
<1>3. JournalHasItsInputs'
  <2> SUFFICES ASSUME private'[Journal].may # {Absent}
               PROVE  private'[Inputs].may = {Whole}
    BY DEF JournalHasItsInputs
  <2>1. private[Journal].may # {Absent}
    BY NamesDiffer
  <2>2. private[Inputs].may = {Whole}
    BY <2>1 DEF DiskOK, JournalHasItsInputs
  <2> QED
    BY <2>2, NamesDiffer
<1>4. Keeps
  BY NamesDiffer DEF Keeps, Recorded
<1> QED
  BY <1>1, <1>2, <1>3, <1>4 DEF DiskOK, InOrder

LEMMA DiskSynced ==
  ASSUME DiskOK, private' = Synced(private)
  PROVE  /\ DiskOK' /\ Keeps /\ journal' = journal
         /\ \A n \in PrivateNames : /\ private'[n].seen = private[n].seen
                                    /\ private'[n].may = {private[n].seen}
<1>1. InOrder'
  BY SyncedEntries DEF DiskOK, InOrder
<1>2. \A n \in PrivateNames : /\ private'[n].seen = private[n].seen
                              /\ private'[n].may = {private[n].seen}
  BY SyncedEntries DEF DiskOK
<1>3. \A n \in PrivateNames : private[n].seen \in private[n].may
  BY DEF DiskOK, Sane, Directory
<1>4. \A n \in PrivateNames : /\ private'[n].seen \in private[n].may
                              /\ private'[n].may = {private'[n].seen}
  BY <1>2, <1>3
<1>5. DiskOK' /\ Keeps
  BY <1>1, <1>4, DiskSettles
<1>6. journal' = journal
  BY <1>2, NamesDiffer DEF journal
<1> QED
  BY <1>2, <1>5, <1>6

LEMMA DiskLeft ==
  ASSUME DiskOK, private' \in Leavings(private)
  PROVE  DiskOK' /\ Keeps
<1>1. InOrder' /\ \A n \in PrivateNames :
        private'[n].seen \in private[n].may /\ private'[n].may = {private'[n].seen}
  BY LeftEntries DEF DiskOK, InOrder
<1> QED
  BY <1>1, DiskSettles

LEMMA ProofStored ==
  ASSUME DiskOK, NEW p \in Proofs, private' = Stored(private, p, Whole)
  PROVE  /\ DiskOK' /\ Keeps /\ journal' = journal /\ Others(p)
         /\ private'[p] = [seen |-> Whole, may |-> private[p].may \cup {Whole}]
<1>1. /\ InOrder' /\ Others(p)
      /\ private'[p] = [seen |-> Whole, may |-> private[p].may \cup {Whole}]
  BY StoredEntries, NamesDiffer DEF DiskOK, InOrder, Others, Contents
<1>2. private'[Journal] = private[Journal] /\ private'[Inputs] = private[Inputs]
  BY <1>1, NamesDiffer DEF Others
<1>3. \A q \in Proofs : private[q].may = {Whole} => private'[q].may = {Whole}
  BY <1>1, NamesDiffer DEF Others
<1>4. JournalHasItsInputs'
  BY <1>2 DEF DiskOK, JournalHasItsInputs
<1> QED
  BY <1>1, <1>2, <1>3, <1>4, JournalUntouched

\* The journal is created, filled or removed: there was none to be read.
LEMMA JournalBegins ==
  ASSUME DiskOK, ~Usable(journal), NEW x \in {Absent, Torn, NewJournal},
         \/ private' = Stored(private, Journal, x)
         \/ private' = Filled(private, Journal, x),
         private[Inputs].may = {Whole}
  PROVE  DiskOK' /\ Keeps /\ Others(Journal) /\ journal' = x
<1>1. NewJournal \in Journals /\ NewJournal.events = <<>>
  BY DEF NewJournal, Journals
<1>2. x \in Contents
  BY <1>1 DEF Contents
<1>3. /\ InOrder' /\ Others(Journal)
      /\ private'[Journal].seen = x
      /\ private'[Journal].may \subseteq private[Journal].may \cup {x}
  <2>1. CASE private' = Stored(private, Journal, x)
    <3>1. /\ private' \in Directory(PrivateNames, Contents) /\ Sane(private')
          /\ private'[Journal] = [seen |-> x, may |-> private[Journal].may \cup {x}]
          /\ \A m \in PrivateNames \ {Journal} : private'[m] = private[m]
      BY <1>2, <2>1, StoredEntries, NamesDiffer DEF DiskOK
    <3> QED
      BY <3>1 DEF InOrder, Others
  <2>2. CASE private' = Filled(private, Journal, x)
    <3>1. /\ private' \in Directory(PrivateNames, Contents) /\ Sane(private')
          /\ private'[Journal] = [seen |-> x, may |-> (private[Journal].may \ {Torn}) \cup {x}]
          /\ \A m \in PrivateNames \ {Journal} : private'[m] = private[m]
      BY <1>2, <2>2, FilledEntries, NamesDiffer DEF DiskOK
    <3> QED
      BY <3>1 DEF InOrder, Others
  <2> QED
    BY <2>1, <2>2
<1>4. Keeps
  <2>1. journal \in private[Journal].may
    BY NamesDiffer DEF DiskOK, Sane, Directory, journal
  <2>2. \A f \in Families : ~Recorded(f)
    BY <2>1 DEF Recorded
  <2> QED
    BY <2>2 DEF Keeps
<1>5. TerminalHasItsProof'
  <2> SUFFICES ASSUME NEW y \in Surviving', NEW i \in 1..Len(y.events),
                      y.events[i].stage # "intent"
               PROVE  private'[y.events[i].proof].may = {Whole}
    BY DEF TerminalHasItsProof
  <2>1. y \in Surviving \/ y = NewJournal
    BY <1>3 DEF Surviving
  <2>2. y # NewJournal
    BY <1>1
  <2>3. y \in Journals /\ private[y.events[i].proof].may = {Whole}
    BY <2>1, <2>2, JournalsAreUsable DEF DiskOK, TerminalHasItsProof
  <2> QED
    BY <2>3, <1>3, EventsProve, NamesDiffer DEF Others
<1>6. JournalHasItsInputs'
  BY <1>3, NamesDiffer DEF Others, JournalHasItsInputs
<1>7. private'[Journal].may \subseteq Journals \cup {Absent, Torn}
  BY <1>1, <1>3 DEF DiskOK
<1> QED
  BY <1>3, <1>4, <1>5, <1>6, <1>7 DEF DiskOK, InOrder, journal

----------------------------------------------------------------------------
(***************************************************************************)
(* A step of one controller that is not part of a preparation: what the    *)
(* others rely on stays, whoever they are.                                 *)
(***************************************************************************)
Moves(c) ==
  \A d \in Controllers \ {c} :
    at'[d] = at[d] /\ job'[d] = job[d] /\ read'[d] = read[d]

ProofsStay ==
  \A p \in Proofs : /\ private[p].seen = Whole => private'[p].seen = Whole
                    /\ private[p].may = {Whole} => private'[p].may = {Whole}

InputsStay ==
  /\ private'[Inputs].seen = private[Inputs].seen
  /\ private[Inputs].may = {Whole} => private'[Inputs].may = {Whole}

OnJournal == {"intent", "proof", "record", "journal"}

LEMMA OthersRely ==
  ASSUME IInv, Keeps, ProofsStay, NEW d \in Controllers,
         at'[d] = at[d], job'[d] = job[d], read'[d] = read[d],
         at[d] \in OnJournal => journal' = journal
  PROVE  Relies(d)'
<1> job[d] \in Jobs /\ job[d].family \in Families
  BY DEF IInv, FilesTypeOK, Jobs
<1> Relies(d)
  BY DEF IInv
<1>1. at[d] = "intent" => Relies(d)'
  BY DEF Relies, OnJournal
<1>2. at[d] \in {"proof", "record"} => Pends(d)'
  BY DEF Relies, Pends, OnJournal
<1>3. at[d] = "proof" => Witnessed(d)'
  BY JobsProve DEF Relies, Witnessed, ProofsStay
<1>4. at[d] = "record" => Durable(d)'
  BY JobsProve DEF Relies, Durable, ProofsStay
<1>5. at[d] \in {"check", "launch", "unknown"} => Recorded(job[d].family)'
  BY DEF Relies, Keeps
<1> QED
  BY <1>1, <1>2, <1>3, <1>4, <1>5 DEF Relies

LEMMA OthersPrepare ==
  ASSUME IInv, InputsStay, NEW d \in Controllers, at'[d] = at[d],
         at[d] \in OnJournal => journal' = journal,
         \A e \in Controllers : at'[e] \in Preparing => at[e] \in Preparing
  PROVE  Prep(d)'
<1> Prep(d)
  BY DEF IInv
<1> QED
  BY DEF Prep, InputsStay, OnJournal

LEMMA StepOf ==
  ASSUME IInv, NEW c \in Controllers, Moves(c), DiskOK', Keeps,
         ProofsStay, InputsStay,
         \A d \in Controllers \ {c} : at[d] \in OnJournal => journal' = journal,
         at'[c] \notin Preparing, FilesTypeOK', Locking', Relies(c)',
         \A f \in sent' \ sent : Recorded(f)'
  PROVE  IInv'
<1>1. \A d \in Controllers \ {c} : Relies(d)'
  BY OthersRely DEF Moves
<1>2. \A d \in Controllers \ {c} : Prep(d)'
  BY OthersPrepare DEF Moves
<1>3. Prep(c)'
  BY DEF Prep, Preparing
<1>4. MutationIsRecorded'
  <2> SUFFICES ASSUME NEW f \in sent' PROVE Recorded(f)'
    BY DEF MutationIsRecorded, Recorded
  <2>1. CASE f \in sent
    BY <2>1 DEF IInv, FilesTypeOK, MutationIsRecorded, Recorded, Keeps
  <2> QED
    BY <2>1
<1> QED
  BY <1>1, <1>2, <1>3, <1>4 DEF IInv

\* The private root is left alone.
LEMMA Untouched ==
  ASSUME IInv, UNCHANGED private
  PROVE  DiskOK' /\ Keeps /\ ProofsStay /\ InputsStay /\ journal' = journal
<1>1. Keeps /\ ProofsStay /\ InputsStay /\ journal' = journal
  BY DEF Keeps, Recorded, ProofsStay, InputsStay, journal
<1>2. DiskOK'
  BY DEF IInv, DiskOK, TerminalHasItsProof, JournalHasItsInputs, Surviving
<1> QED
  BY <1>1, <1>2

LEMMA QuietStep ==
  ASSUME IInv, NEW c \in Controllers, Moves(c), UNCHANGED private,
         at'[c] \notin Preparing, FilesTypeOK', Locking', Relies(c)',
         \A f \in sent' \ sent : Recorded(f)
  PROVE  IInv'
<1>1. \A f : Recorded(f) => Recorded(f)'
  BY DEF Recorded
<1> QED
  BY <1>1, Untouched, StepOf

LEMMA SyncedStays ==
  ASSUME IInv, private' = Synced(private)
  PROVE  /\ DiskOK' /\ Keeps /\ ProofsStay /\ InputsStay /\ journal' = journal
         /\ \A n \in PrivateNames : private'[n].may = {private[n].seen}
<1>1. /\ DiskOK' /\ Keeps /\ journal' = journal
      /\ \A n \in PrivateNames : /\ private'[n].seen = private[n].seen
                                 /\ private'[n].may = {private[n].seen}
  BY DiskSynced DEF IInv
<1>2. \A n \in PrivateNames : private[n].seen \in private[n].may
  BY DEF IInv, DiskOK, Sane, Directory
<1>3. ProofsStay /\ InputsStay
  BY <1>1, <1>2, NamesDiffer DEF ProofsStay, InputsStay
<1> QED
  BY <1>1, <1>3

LEMMA OthersStay ==
  ASSUME Others(Journal) PROVE ProofsStay /\ InputsStay
BY NamesDiffer DEF Others, ProofsStay, InputsStay

----------------------------------------------------------------------------
\* The steps of a preparation.
LEMMA PrepareStep ==
  ASSUME IInv, NEW c \in Controllers, NEW to \in Preparing \cup {"idle"},
         at[c] \in Preparing \cup {"idle"}, at' = [at EXCEPT ![c] = to],
         UNCHANGED <<job, read, lock, runtime, sent>>,
         DiskOK', Keeps, ProofsStay,
         journal' = journal \/ (~Usable(journal) /\ at[c] \in Preparing),
         \A d \in Controllers \ {c} : at[d] \notin Preparing,
         Prep(c)'
  PROVE  IInv'
<1>1. FilesTypeOK'
  BY DEF IInv, FilesTypeOK, Places
<1>2. at'[c] = to /\ \A d \in Controllers \ {c} : at'[d] = at[d]
  BY DEF IInv, FilesTypeOK
<1>3. Locking'
  BY <1>2 DEF IInv, Locking, LockedPlaces, Preparing
<1>4. ASSUME NEW d \in Controllers \ {c} PROVE Relies(d)' /\ Prep(d)'
  <2>1. at[d] \in OnJournal => journal' = journal
    BY DEF IInv, Relies, Pends, OnJournal, Preparing
  <2>2. Relies(d)'
    BY <1>2, <2>1, OthersRely
  <2> QED
    BY <1>2, <2>2 DEF Prep, Preparing
<1>5. Relies(c)'
  BY <1>2 DEF Relies, Preparing
<1>6. MutationIsRecorded'
  BY DEF IInv, FilesTypeOK, MutationIsRecorded, Keeps, Recorded
<1> QED
  BY <1>1, <1>3, <1>4, <1>5, <1>6 DEF IInv

LEMMA Alone ==
  ASSUME IInv, NEW c \in Controllers,
         at[c] \in Preparing \/ private[Inputs].seen = Absent
  PROVE  \A d \in Controllers \ {c} : at[d] \notin Preparing
BY DEF IInv, Prep

LEMMA InputsStored ==
  ASSUME IInv, NEW x \in {Torn, Whole}, private[Inputs].may # {Whole},
         \/ x = Torn /\ private' = Stored(private, Inputs, x)
         \/ x = Whole /\ private' = Filled(private, Inputs, x)
  PROVE  /\ DiskOK' /\ Keeps /\ ProofsStay /\ journal' = journal
         /\ private'[Inputs].seen = x
<1>1. x \in Contents
  BY DEF Contents
<1>2. /\ private' \in Directory(PrivateNames, Contents) /\ Sane(private')
      /\ private'[Inputs].seen = x
      /\ \A m \in PrivateNames \ {Inputs} : private'[m] = private[m]
  <2>1. CASE private' = Stored(private, Inputs, x)
    <3>1. /\ private' \in Directory(PrivateNames, Contents) /\ Sane(private')
          /\ private'[Inputs] = [seen |-> x, may |-> private[Inputs].may \cup {x}]
          /\ \A m \in PrivateNames \ {Inputs} : private'[m] = private[m]
      BY <1>1, <2>1, StoredEntries, NamesDiffer DEF IInv, DiskOK
    <3> QED
      BY <3>1
  <2>2. CASE private' = Filled(private, Inputs, x)
    <3>1. /\ private' \in Directory(PrivateNames, Contents) /\ Sane(private')
          /\ private'[Inputs] = [seen |-> x, may |-> (private[Inputs].may \ {Torn}) \cup {x}]
          /\ \A m \in PrivateNames \ {Inputs} : private'[m] = private[m]
      BY <1>1, <2>2, FilledEntries, NamesDiffer DEF IInv, DiskOK
    <3> QED
      BY <3>1
  <2> QED
    BY <2>1, <2>2
<1>3. /\ private'[Journal] = private[Journal]
      /\ \A p \in Proofs : private'[p] = private[p]
  BY <1>2, NamesDiffer
<1>4. private[Journal].may = {Absent}
  BY DEF IInv, DiskOK, JournalHasItsInputs
<1>5. JournalHasItsInputs'
  BY <1>3, <1>4 DEF JournalHasItsInputs
<1>6. DiskOK' /\ Keeps /\ journal' = journal
  BY <1>2, <1>3, <1>5, JournalUntouched DEF IInv, InOrder
<1> QED
  BY <1>2, <1>3, <1>6 DEF ProofsStay

LEMMA CreateInputsStep ==
  ASSUME IInv, NEW c \in Controllers, CreateInputs(c) PROVE IInv'
<1>1. private[Inputs].may # {Whole}
  BY NamesDiffer, ContentsApart
     DEF IInv, DiskOK, Sane, Directory, CreateInputs
<1>2. /\ DiskOK' /\ Keeps /\ ProofsStay /\ journal' = journal
      /\ private'[Inputs].seen = Torn
  BY <1>1, InputsStored DEF CreateInputs
<1>3. \A d \in Controllers \ {c} : at[d] \notin Preparing
  BY Alone DEF CreateInputs
<1>4. at[c] = "idle" /\ at' = [at EXCEPT ![c] = "inputs"]
      /\ UNCHANGED <<job, read, lock, runtime, sent>>
  BY DEF CreateInputs, Goes, OnlyPrivate, host
<1>5. Prep(c)'
  BY <1>2, <1>3, <1>4, ContentsApart DEF Prep, IInv, FilesTypeOK
<1> QED
  BY <1>2, <1>3, <1>4, <1>5, PrepareStep DEF Preparing

LEMMA FillInputsStep ==
  ASSUME IInv, NEW c \in Controllers, FillInputs(c) PROVE IInv'
<1>1. at[c] = "inputs" /\ at' = [at EXCEPT ![c] = "inputs filled"]
      /\ UNCHANGED <<job, read, lock, runtime, sent>>
  BY DEF FillInputs, Goes, OnlyPrivate, host
<1>2. private[Inputs].may # {Whole}
  BY <1>1, NamesDiffer, ContentsApart DEF IInv, DiskOK, Sane, Directory, Prep
<1>3. /\ DiskOK' /\ Keeps /\ ProofsStay /\ journal' = journal
      /\ private'[Inputs].seen = Whole
  BY <1>2, InputsStored DEF FillInputs
<1>4. \A d \in Controllers \ {c} : at[d] \notin Preparing
  BY <1>1, Alone DEF Preparing
<1>5. Prep(c)'
  BY <1>1, <1>3, <1>4, ContentsApart DEF Prep, IInv, FilesTypeOK
<1> QED
  BY <1>1, <1>3, <1>4, <1>5, PrepareStep DEF Preparing

LEMMA SyncInputsStep ==
  ASSUME IInv, NEW c \in Controllers, SyncInputs(c) PROVE IInv'
<1>1. at[c] = "inputs filled" /\ at' = [at EXCEPT ![c] = "create"]
      /\ UNCHANGED <<job, read, lock, runtime, sent>>
  BY DEF SyncInputs, Goes, OnlyPrivate, host
<1>2. /\ DiskOK' /\ Keeps /\ ProofsStay /\ InputsStay /\ journal' = journal
      /\ private'[Inputs].may = {private[Inputs].seen}
  BY SyncedStays, NamesDiffer DEF SyncInputs
<1>3. \A d \in Controllers \ {c} : at[d] \notin Preparing
  BY <1>1, Alone DEF Preparing
<1>4. private[Inputs].seen = Whole
  BY <1>1 DEF IInv, Prep
<1>5. Prep(c)'
  BY <1>1, <1>2, <1>3, <1>4, ContentsApart
     DEF Prep, IInv, FilesTypeOK, InputsStay
<1> QED
  BY <1>1, <1>2, <1>3, <1>5, PrepareStep DEF Preparing

\* A step that begins, fills or removes the journal.
Begins(x) ==
  /\ x \in {Absent, Torn, NewJournal}
  /\ \/ private' = Stored(private, Journal, x)
     \/ private' = Filled(private, Journal, x)

LEMMA BeginStep ==
  ASSUME IInv, NEW c \in Controllers, NEW to \in Preparing \cup {"idle"},
         at[c] \in {"create", "journal"}, ~Usable(journal),
         at' = [at EXCEPT ![c] = to],
         UNCHANGED <<job, read, lock, runtime, sent>>,
         NEW x, Begins(x),
         to \in {"journal filled", "idle"} \/ (to = "journal" /\ x = Torn)
  PROVE  IInv'
<1>1. private[Inputs].may = {Whole} /\ private[Inputs].seen # Absent
  BY DEF IInv, Prep, Preparing
<1>2. DiskOK' /\ Keeps /\ Others(Journal) /\ journal' = x
  BY <1>1, JournalBegins DEF IInv, Begins
<1>3. ProofsStay /\ InputsStay
  BY <1>2, OthersStay
<1>4. \A d \in Controllers \ {c} : at[d] \notin Preparing
  BY Alone DEF Preparing
<1>5. Prep(c)'
  BY <1>1, <1>2, <1>3, <1>4 DEF Prep, IInv, FilesTypeOK, InputsStay, Preparing
<1> QED
  BY <1>2, <1>3, <1>4, <1>5, PrepareStep DEF Preparing

LEMMA SyncJournalStep ==
  ASSUME IInv, NEW c \in Controllers, SyncJournal(c) PROVE IInv'
<1>1. at[c] = "journal filled" /\ at' = [at EXCEPT ![c] = "idle"]
      /\ UNCHANGED <<job, read, lock, runtime, sent>>
  BY DEF SyncJournal, Goes, OnlyPrivate, host
<1>2. DiskOK' /\ Keeps /\ ProofsStay /\ journal' = journal
  BY SyncedStays DEF SyncJournal
<1>3. \A d \in Controllers \ {c} : at[d] \notin Preparing
  BY <1>1, Alone DEF Preparing
<1>4. Prep(c)'
  BY <1>1 DEF Prep, IInv, FilesTypeOK, Preparing
<1> QED
  BY <1>1, <1>2, <1>3, <1>4, PrepareStep DEF Preparing

LEMMA PreparesStep ==
  ASSUME IInv, NEW c \in Controllers, Prepares(c) PROVE IInv'
<1>1. ASSUME CreateJournal(c) PROVE IInv'
  <2>1. at[c] = "create" /\ ~Usable(journal)
        /\ at' = [at EXCEPT ![c] = "journal"]
        /\ UNCHANGED <<job, read, lock, runtime, sent>>
        /\ Begins(Torn)
    BY <1>1 DEF CreateJournal, Goes, OnlyPrivate, host, Usable, Begins
  <2> QED
    BY <2>1, BeginStep DEF Preparing
<1>2. ASSUME FillJournal(c) PROVE IInv'
  <2>1. at[c] = "journal" /\ at' = [at EXCEPT ![c] = "journal filled"]
        /\ UNCHANGED <<job, read, lock, runtime, sent>>
        /\ Begins(NewJournal)
    BY <1>2 DEF FillJournal, Goes, OnlyPrivate, host, Begins
  <2>2. ~Usable(journal)
    BY <2>1 DEF IInv, Prep, Usable
  <2> QED
    BY <2>1, <2>2, BeginStep DEF Preparing
<1>3. ASSUME FillJournalFails(c) PROVE IInv'
  <2>1. at[c] = "journal" /\ at' = [at EXCEPT ![c] = "idle"]
        /\ UNCHANGED <<job, read, lock, runtime, sent>>
        /\ Begins(Absent)
    BY <1>3 DEF FillJournalFails, Goes, host, Begins
  <2>2. ~Usable(journal)
    BY <2>1 DEF IInv, Prep, Usable
  <2> QED
    BY <2>1, <2>2, BeginStep DEF Preparing
<1> QED
  BY <1>1, <1>2, <1>3, CreateInputsStep, FillInputsStep, SyncInputsStep,
     SyncJournalStep DEF Prepares

----------------------------------------------------------------------------
\* A step to a place where a controller relies on nothing.
Carefree == Places \ (Preparing \cup LockedPlaces \cup {"check", "launch", "unknown"})

LEMMA CarefreeStep ==
  ASSUME IInv, NEW c \in Controllers, NEW to \in Carefree,
         at' = [at EXCEPT ![c] = to],
         NEW j \in Jobs, job' = job \/ job' = [job EXCEPT ![c] = j],
         NEW r \in Contents, read' = read \/ read' = [read EXCEPT ![c] = r],
         lock' = lock \/ lock' = lock \ {c},
         runtime' = runtime, sent' = sent \/ sent' = sent \cup {job[c].family},
         sent' = sent \/ Recorded(job[c].family),
         DiskOK', Keeps, ProofsStay, InputsStay, journal' = journal
  PROVE  IInv'
<1>1. Moves(c) /\ at'[c] = to
  BY DEF Moves, IInv, FilesTypeOK
<1>2. to \in Places /\ to \notin Preparing /\ to \notin LockedPlaces
      /\ to \notin {"check", "launch", "unknown"}
  BY DEF Carefree
<1>3. job[c].family \in Families
  BY DEF IInv, FilesTypeOK, Jobs
<1>4. FilesTypeOK'
  BY <1>2, <1>3 DEF IInv, FilesTypeOK
<1>5. Locking'
  BY <1>1, <1>2 DEF IInv, Locking, Moves
<1>6. Relies(c)'
  BY <1>1, <1>2 DEF Relies, LockedPlaces
<1>7. \A f \in sent' \ sent : Recorded(f)'
  BY <1>3 DEF Keeps
<1> QED
  BY <1>1, <1>2, <1>4, <1>5, <1>6, <1>7, StepOf

\* The same, when the private root is left alone.
LEMMA CarefreeQuiet ==
  ASSUME IInv, NEW c \in Controllers, NEW to \in Carefree,
         at' = [at EXCEPT ![c] = to],
         NEW j \in Jobs, job' = job \/ job' = [job EXCEPT ![c] = j],
         UNCHANGED <<private, read, lock, runtime, sent>>
  PROVE  IInv'
<1>1. Absent \in Contents
  BY DEF Contents
<1> QED
  BY <1>1, Untouched, CarefreeStep

LEMMA IdleIsJob == Idle \in Jobs
BY DEF Idle, Jobs, Families, Sights

LEMMA AnyFrom ==
  /\ {"idle", "await", "look", "latch", "advance", "prove", "publish",
      "staging", "staged", "rename", "renamed"} \subseteq Carefree
  /\ Publishing \subseteq Carefree
BY DEF Carefree, Places, Preparing, Publishing, LockedPlaces

LEMMA PublishesStep ==
  ASSUME IInv, NEW c \in Controllers, Publishes(c) PROVE IInv'
<1>1. PICK to \in Carefree : at' = [at EXCEPT ![c] = to]
  BY AnyFrom DEF Publishes, Stage, FillStaging, Rename, SyncPublic,
     PublishFails, Goes
<1>2. /\ job' = job \/ job' = [job EXCEPT ![c] = Idle]
      /\ UNCHANGED <<private, read, lock, runtime, sent>>
  BY DEF Publishes, Stage, FillStaging, Rename, SyncPublic, PublishFails,
     OnlyPublic, host
<1> QED
  BY <1>1, <1>2, IdleIsJob, CarefreeQuiet

LEMMA DiesStep ==
  ASSUME IInv, NEW c \in Controllers, Dies(c) PROVE IInv'
<1>1. Absent \in Contents /\ "idle" \in Carefree
  BY AnyFrom DEF Contents
<1>2. DiskOK' /\ Keeps /\ ProofsStay /\ InputsStay /\ journal' = journal
  BY Untouched DEF Dies
<1>3. /\ at' = [at EXCEPT ![c] = "idle"] /\ job' = [job EXCEPT ![c] = Idle]
      /\ read' = [read EXCEPT ![c] = Absent] /\ lock' = lock \ {c}
      /\ runtime' = runtime /\ sent' = sent
  BY DEF Dies
<1> QED
  BY <1>1, <1>2, <1>3, IdleIsJob, CarefreeStep

LEMMA PowerLossStep ==
  ASSUME IInv, PowerLoss PROVE IInv'
<1>1. DiskOK' /\ Keeps
  BY DiskLeft DEF IInv, PowerLoss
<1>2. FilesTypeOK'
  BY IdleIsJob DEF IInv, FilesTypeOK, PowerLoss, Contents, Places
<1>3. Locking'
  BY DEF PowerLoss, Locking, LockedPlaces
<1>4. \A c \in Controllers : Relies(c)' /\ Prep(c)'
  BY DEF PowerLoss, Relies, Prep, Preparing
<1>5. MutationIsRecorded'
  BY <1>1 DEF IInv, FilesTypeOK, PowerLoss, MutationIsRecorded, Keeps, Recorded
<1> QED
  BY <1>1, <1>2, <1>3, <1>4, <1>5 DEF IInv

\* The command alone acts.
LEMMA HostStep ==
  ASSUME IInv, UNCHANGED <<disk, at, job, sent>>,
         runtime' \in {"present", "absent"}
  PROVE  IInv'
<1>1. UNCHANGED <<private, read, lock, at, job, sent>>
  BY DEF disk
<1>2. DiskOK' /\ ProofsStay /\ InputsStay /\ journal' = journal /\ Keeps
  BY <1>1, Untouched
<1>3. FilesTypeOK' /\ Locking'
  BY <1>1 DEF IInv, FilesTypeOK, Locking
<1>4. \A c \in Controllers : Relies(c)'
  BY <1>1, <1>2, OthersRely
<1>5. \A c \in Controllers : Prep(c)'
  BY <1>1, <1>2, OthersPrepare
<1>6. MutationIsRecorded'
  BY <1>1 DEF IInv, MutationIsRecorded
<1> QED
  BY <1>2, <1>3, <1>4, <1>5, <1>6 DEF IInv

----------------------------------------------------------------------------
LEMMA UnwindsStep ==
  ASSUME IInv, NEW c \in Controllers, NEW from, Unwinds(c, from) PROVE IInv'
BY AnyFrom, IdleIsJob, CarefreeQuiet DEF Unwinds, Goes, disk, host

LEMMA JournalIsTyped ==
  ASSUME IInv, Usable(journal)
  PROVE  /\ journal \in Journals
         /\ journal.events # <<>> => LastOf(journal) \in Events
<1>1. journal \in Journals
  BY NamesDiffer DEF IInv, DiskOK, Sane, Directory, Usable, journal
<1> QED
  BY <1>1 DEF Journals, LastOf

LEMMA ObserveStep ==
  ASSUME IInv, NEW c \in Controllers, Observe(c) PROVE IInv'
<1>1. Usable(journal) /\ journal.events # <<>>
  BY DEF Observe, Loads, Pending
<1>2. LastOf(journal).family \in Families
  BY <1>1, JournalIsTyped DEF Events
<1>3. PICK s \in {Sight(LastOf(journal).family), "unreadable"} :
        job' = [job EXCEPT ![c].family = LastOf(journal).family, ![c].saw = s,
                           ![c].teardown = (journal.latch # 0)]
  BY DEF Observe
<1>4. s \in Sights
  BY DEF Sight, Sights, IInv, FilesTypeOK
<1> DEFINE j == [job[c] EXCEPT !.family = LastOf(journal).family, !.saw = s,
                               !.teardown = (journal.latch # 0)]
<1>5. j \in Jobs
  BY <1>2, <1>4 DEF IInv, FilesTypeOK, Jobs
<1>6. job' = [job EXCEPT ![c] = j]
  BY <1>3 DEF IInv, FilesTypeOK, Jobs
<1> HIDE DEF j
<1>7. at' = [at EXCEPT ![c] = "prove"]
      /\ UNCHANGED <<private, read, lock, runtime, sent>>
  BY DEF Observe, disk, host
<1> QED
  BY <1>5, <1>6, <1>7, AnyFrom, CarefreeQuiet

LEMMA CleanupStep ==
  ASSUME IInv, NEW c \in Controllers, Cleanup(c) PROVE IInv'
<1>1. at[c] = "unknown" /\ at' = [at EXCEPT ![c] = "check"]
      /\ job' = [job EXCEPT ![c].repeated = TRUE]
      /\ UNCHANGED <<private, read, lock, runtime, sent>>
  BY DEF Cleanup, Goes, disk, host
<1>2. Moves(c) /\ at'[c] = "check" /\ job'[c].family = job[c].family
  BY <1>1 DEF Moves, IInv, FilesTypeOK, Jobs
<1>3. FilesTypeOK'
  BY <1>1 DEF IInv, FilesTypeOK, Jobs, Places
<1>4. Locking'
  BY <1>1, <1>2 DEF IInv, Locking, LockedPlaces, Moves
<1>5. Recorded(job[c].family)
  BY <1>1 DEF IInv, Relies
<1>6. Relies(c)'
  BY <1>1, <1>2, <1>5 DEF Relies, Recorded
<1> QED
  BY <1>1, <1>2, <1>3, <1>4, <1>6, QuietStep DEF Preparing

LEMMA RecoveringStep ==
  ASSUME IInv, NEW c \in Controllers, Recovering(c) PROVE IInv'
<1>1. ASSUME BeginRecover(c) PROVE IInv'
  BY <1>1, AnyFrom, IdleIsJob, CarefreeQuiet DEF BeginRecover, Goes, disk, host
<1>2. ASSUME NothingPending(c) PROVE IInv'
  <2>1. PICK to \in Carefree : at' = [at EXCEPT ![c] = to]
    BY <1>2, AnyFrom DEF NothingPending, Goes
  <2> QED
    BY <1>2, <2>1, IdleIsJob, CarefreeQuiet DEF NothingPending, disk, host
<1>3. ASSUME LatchedAlready(c) PROVE IInv'
  BY <1>3, AnyFrom, IdleIsJob, CarefreeQuiet DEF LatchedAlready, Goes, disk, host
<1>4. ASSUME NothingToAdvance(c) PROVE IInv'
  BY <1>4, AnyFrom, IdleIsJob, CarefreeQuiet DEF NothingToAdvance, Goes, disk, host
<1>5. ASSUME Undecided(c) PROVE IInv'
  <2>1. PICK to \in Carefree : at' = [at EXCEPT ![c] = to]
    BY <1>5, AnyFrom DEF Undecided, Goes
  <2> QED
    BY <1>5, <2>1, IdleIsJob, CarefreeQuiet DEF Undecided, disk, host
<1>6. ASSUME PublicationRefused(c) PROVE IInv'
  BY <1>6, UnwindsStep DEF PublicationRefused
<1> QED
  BY <1>1, <1>2, <1>3, <1>4, <1>5, <1>6, ObserveStep, CleanupStep DEF Recovering

----------------------------------------------------------------------------
LEMMA CheckStep ==
  ASSUME IInv, NEW c \in Controllers, Check(c) PROVE IInv'
<1>1. at[c] = "check" /\ at' = [at EXCEPT ![c] = "launch"]
      /\ UNCHANGED <<private, read, lock, job, runtime, sent>>
  BY DEF Check, Goes, disk, host
<1>2. Moves(c) /\ at'[c] = "launch"
  BY <1>1 DEF Moves, IInv, FilesTypeOK
<1>3. FilesTypeOK' /\ Locking'
  BY <1>1, <1>2 DEF IInv, FilesTypeOK, Places, Locking, LockedPlaces, Moves
<1>4. Relies(c)'
  BY <1>1, <1>2 DEF IInv, Relies, Recorded
<1> QED
  BY <1>1, <1>2, <1>3, <1>4, QuietStep DEF Preparing

LEMMA LaunchStep ==
  ASSUME IInv, NEW c \in Controllers, Launch(c) PROVE IInv'
<1>1. at[c] = "launch" /\ at' = [at EXCEPT ![c] = "await"]
      /\ sent' = sent \cup {job[c].family}
      /\ UNCHANGED <<private, read, lock, job, runtime>>
  BY DEF Launch, Goes, disk
<1>2. Recorded(job[c].family)
  BY <1>1 DEF IInv, Relies
<1>3. "await" \in Carefree /\ Absent \in Contents
  BY AnyFrom DEF Contents
<1>4. DiskOK' /\ Keeps /\ ProofsStay /\ InputsStay /\ journal' = journal
  BY <1>1, Untouched
<1> QED
  BY <1>1, <1>2, <1>3, <1>4, IdleIsJob, CarefreeStep

LEMMA CommandingStep ==
  ASSUME IInv, NEW c \in Controllers, Commanding(c) PROVE IInv'
<1>1. ASSUME Acts(c) PROVE IInv'
  BY <1>1, HostStep DEF Acts, Effect, IInv, FilesTypeOK
<1>2. ASSUME CommandReturns(c) PROVE IInv'
  BY <1>2, AnyFrom, IdleIsJob, CarefreeQuiet DEF CommandReturns, Goes, disk, host
<1>3. ASSUME SetupFails(c) PROVE IInv'
  BY <1>3, UnwindsStep DEF SetupFails
<1> QED
  BY <1>1, <1>2, <1>3, CheckStep, LaunchStep DEF Commanding

----------------------------------------------------------------------------
LEMMA WithExtends ==
  ASSUME NEW x \in Journals, NEW e \in Events
  PROVE  /\ Extends(With(x, e), x)
         /\ Len(With(x, e).events) = Len(x.events) + 1
         /\ With(x, e).events[Len(x.events) + 1] = e
BY DEF With, Extends, Journals

LEMMA IntentIsEvent == \A f \in Families : Intent(f) \in Events
BY DEF Intent, Events

\* A locked append of what is not a terminal.
LEMMA ReplaceStep ==
  ASSUME IInv, NEW c \in Controllers, NEW y, Replace(c, y),
         NEW to \in {"intent", "latched"}, at' = [at EXCEPT ![c] = to],
         UNCHANGED <<read, runtime, sent>>,
         Extends(y, journal),
         \A i \in 1..Len(y.events) :
           i > Len(journal.events) => y.events[i].stage = "intent",
         NEW j \in Jobs, job' = [job EXCEPT ![c] = j],
         to = "intent" => Holds(y, j.family)
  PROVE  IInv'
<1>1. /\ lock = {} /\ lock' = {c} /\ Usable(journal)
      /\ private' = Stored(private, Journal, y)
  BY DEF Replace, Loads
<1>2. \A i \in 1..Len(y.events) : i > Len(journal.events) => Proved(y.events[i])
  BY DEF Proved
<1>3. DiskOK' /\ Keeps /\ Others(Journal) /\ journal' = y
  BY <1>1, <1>2, JournalGrows DEF IInv
<1>4. ProofsStay /\ InputsStay
  BY <1>3, OthersStay
<1>5. Moves(c) /\ at'[c] = to /\ job'[c] = j
  BY DEF Moves, IInv, FilesTypeOK
<1>6. \A d \in Controllers : at[d] \notin OnJournal
  BY <1>1, JournalsAreUsable DEF IInv, Locking, LockedPlaces, Prep, OnJournal, Usable
<1>7. FilesTypeOK'
  BY <1>1 DEF IInv, FilesTypeOK, Places
<1>8. Locking'
  BY <1>1, <1>5 DEF IInv, Locking, Moves
<1>9. Relies(c)'
  <2>1. Usable(y)
    BY JournalsAreUsable DEF Extends
  <2> QED
    BY <1>3, <1>5, <2>1 DEF Relies
<1>10. at'[c] \notin Preparing
  BY <1>5 DEF Preparing
<1> QED
  BY <1>3, <1>4, <1>5, <1>6, <1>7, <1>8, <1>9, <1>10, StepOf

LEMMA AppendsStep ==
  ASSUME IInv, NEW c \in Controllers, NEW f \in Families, NEW forward \in BOOLEAN,
         Appends(c, f, forward), at' = [at EXCEPT ![c] = "intent"]
  PROVE  IInv'
<1> DEFINE y == With(journal, Intent(f))
           j == [Idle EXCEPT !.family = f, !.forward = forward]
<1>1. Replace(c, y) /\ job' = [job EXCEPT ![c] = j]
      /\ UNCHANGED <<read, runtime, sent>>
  BY DEF Appends, OnlyPrivate, host
<1>2. journal \in Journals
  BY <1>1, JournalIsTyped DEF Replace, Loads
<1>3. /\ Extends(y, journal) /\ Len(y.events) = Len(journal.events) + 1
      /\ y.events[Len(journal.events) + 1] = Intent(f)
  BY <1>2, WithExtends, IntentIsEvent
<1>4. Len(journal.events) \in Nat
  BY <1>2 DEF Journals
<1>5. \A i \in 1..Len(y.events) :
        i > Len(journal.events) => y.events[i].stage = "intent"
  <2> HIDE DEF y
  <2> SUFFICES ASSUME NEW i \in 1..Len(y.events), i > Len(journal.events)
               PROVE  y.events[i] = Intent(f)
    BY DEF Intent
  <2> QED
    BY <1>3, <1>4
<1>6. j \in Jobs /\ j.family = f
  BY IdleIsJob DEF Idle, Jobs
<1>7. Holds(y, f)
  <2> HIDE DEF y
  <2> QED
    BY <1>3, <1>4 DEF Holds
<1> HIDE DEF y, j
<1> QED
  BY <1>1, <1>3, <1>5, <1>6, <1>7, ReplaceStep

LEMMA LatchStep ==
  ASSUME IInv, NEW c \in Controllers, Latch(c) PROVE IInv'
<1> DEFINE y == [journal EXCEPT !.latch = Len(journal.events) + 1]
<1>1. /\ Replace(c, y) /\ job' = job /\ at' = [at EXCEPT ![c] = "latched"]
      /\ UNCHANGED <<read, runtime, sent>>
  BY DEF Latch, Goes, OnlyPrivate, host
<1>2. journal \in Journals
  BY <1>1, JournalIsTyped DEF Replace, Loads
<1>3. y \in Journals /\ y.events = journal.events
  BY <1>2 DEF Journals
<1>4. Len(journal.events) \in Nat
  BY <1>2 DEF Journals
<1>5. Extends(y, journal)
  BY <1>3, <1>4 DEF Extends
<1>6. \A i \in 1..Len(y.events) :
        i > Len(journal.events) => y.events[i].stage = "intent"
  BY <1>3, <1>4
<1>7. job' = [job EXCEPT ![c] = job[c]] /\ job[c] \in Jobs
  BY <1>1 DEF IInv, FilesTypeOK
<1> HIDE DEF y
<1> QED
  BY <1>1, <1>5, <1>6, <1>7, ReplaceStep

\* The end of an append: what was read is now all that may be found.
LEMMA SyncIntentStep ==
  ASSUME IInv, NEW c \in Controllers, SyncIntent(c) PROVE IInv'
<1>1. /\ at[c] = "intent" /\ at' = [at EXCEPT ![c] = First[job[c].family]]
      /\ private' = Synced(private) /\ lock' = lock \ {c}
      /\ UNCHANGED <<job, read, runtime, sent>>
  BY DEF SyncIntent, Goes, Return, OnlyPrivate, host
<1>2. /\ DiskOK' /\ Keeps /\ ProofsStay /\ InputsStay /\ journal' = journal
      /\ private'[Journal].may = {journal}
  BY <1>1, SyncedStays, NamesDiffer DEF journal
<1>3. job[c].family \in Families
  BY DEF IInv, FilesTypeOK, Jobs
<1>4. First[job[c].family] \in {"check", "look", "staging"}
  BY <1>3 DEF First, Families
<1>5. Moves(c) /\ at'[c] = First[job[c].family]
  BY <1>1 DEF Moves, IInv, FilesTypeOK
<1>6. FilesTypeOK'
  BY <1>1, <1>4 DEF IInv, FilesTypeOK, Places, Publishing
<1>7. Locking'
  BY <1>1, <1>4, <1>5 DEF IInv, Locking, Moves, LockedPlaces
<1>8. Recorded(job[c].family)'
  BY <1>1, <1>2 DEF IInv, Relies, Recorded
<1>9. Relies(c)'
  BY <1>1, <1>4, <1>5, <1>8 DEF Relies
<1>10. at'[c] \notin Preparing
  BY <1>4, <1>5 DEF Preparing
<1> QED
  BY <1>1, <1>2, <1>5, <1>6, <1>7, <1>9, <1>10, StepOf

LEMMA SyncLatchStep ==
  ASSUME IInv, NEW c \in Controllers, SyncLatch(c) PROVE IInv'
<1>1. /\ at' = [at EXCEPT ![c] = "advance"]
      /\ private' = Synced(private) /\ lock' = lock \ {c}
      /\ UNCHANGED <<job, read, runtime, sent>>
  BY DEF SyncLatch, Goes, Return, OnlyPrivate, host
<1>2. DiskOK' /\ Keeps /\ ProofsStay /\ InputsStay /\ journal' = journal
  BY <1>1, SyncedStays
<1>3. Absent \in Contents /\ "advance" \in Carefree
  BY AnyFrom DEF Contents
<1> QED
  BY <1>1, <1>2, <1>3, IdleIsJob, CarefreeStep

LEMMA AppendingStep ==
  ASSUME IInv, NEW c \in Controllers, Appending(c) PROVE IInv'
<1>1. ASSUME IntendSetup(c) PROVE IInv'
  BY <1>1, AppendsStep DEF IntendSetup, Goes, Families
<1>2. ASSUME IntendDelete(c) PROVE IInv'
  <2>1. job[c].forward \in BOOLEAN
    BY DEF IInv, FilesTypeOK, Jobs
  <2> QED
    BY <1>2, <2>1, AppendsStep DEF IntendDelete, Goes, Families
<1>3. ASSUME IntendPublication(c) PROVE IInv'
  BY <1>3, AppendsStep DEF IntendPublication, Goes, Families
<1> QED
  BY <1>1, <1>2, <1>3, SyncIntentStep, LatchStep, SyncLatchStep DEF Appending

----------------------------------------------------------------------------
LEMMA PublishedProofStays ==
  ASSUME IInv, NEW j \in Jobs, private' = PublishedProof(j)
  PROVE  /\ DiskOK' /\ Keeps /\ ProofsStay /\ InputsStay /\ journal' = journal
         /\ Outcome(j) # "unknown" => private'[ProofOf(j)].seen = Whole
<1>1. CASE Outcome(j) = "unknown"
  BY <1>1, Untouched DEF PublishedProof
<1>2. CASE Outcome(j) # "unknown"
  <2>1. private' = Stored(private, ProofOf(j), Whole) /\ ProofOf(j) \in Proofs
    BY <1>2, JobsProve DEF PublishedProof
  <2>2. /\ DiskOK' /\ Keeps /\ journal' = journal /\ Others(ProofOf(j))
        /\ private'[ProofOf(j)] =
             [seen |-> Whole, may |-> private[ProofOf(j)].may \cup {Whole}]
    BY <2>1, ProofStored DEF IInv
  <2>3. ProofsStay
    BY <2>1, <2>2, NamesDiffer DEF ProofsStay, Others
  <2>4. InputsStay
    BY <2>1, <2>2, NamesDiffer DEF InputsStay, Others
  <2> QED
    BY <2>2, <2>3, <2>4
<1> QED
  BY <1>1, <1>2

LEMMA ProveStep ==
  ASSUME IInv, NEW c \in Controllers, Prove(c) PROVE IInv'
<1>1. /\ lock = {} /\ lock' = {c} /\ Usable(journal) /\ Current(c)
      /\ at' = [at EXCEPT ![c] = "proof"]
      /\ read' = [read EXCEPT ![c] = journal]
      /\ private' = PublishedProof(job[c])
      /\ UNCHANGED <<job, runtime, sent>>
  BY DEF Prove, Goes, Loads, host
<1>2. job[c] \in Jobs
  BY DEF IInv, FilesTypeOK
<1>3. /\ DiskOK' /\ Keeps /\ ProofsStay /\ InputsStay /\ journal' = journal
      /\ Outcome(job[c]) # "unknown" => private'[ProofOf(job[c])].seen = Whole
  BY <1>1, <1>2, PublishedProofStays
<1>4. Moves(c) /\ at'[c] = "proof" /\ read'[c] = journal
  BY <1>1 DEF Moves, IInv, FilesTypeOK
<1>5. journal \in Contents
  BY <1>1, JournalIsTyped DEF Contents
<1>6. FilesTypeOK' /\ Locking'
  BY <1>1, <1>4, <1>5 DEF IInv, FilesTypeOK, Places, Locking, Moves
<1>7. Relies(c)'
  BY <1>1, <1>3, <1>4 DEF Relies, Pends, Witnessed, Current
<1>8. \A f \in sent' \ sent : Recorded(f)'
  BY <1>1
<1> QED
  BY <1>3, <1>4, <1>6, <1>7, <1>8, StepOf DEF Preparing

LEMMA SyncProofStep ==
  ASSUME IInv, NEW c \in Controllers, SyncProof(c) PROVE IInv'
<1>1. /\ at[c] = "proof" /\ private' = Synced(private)
      /\ UNCHANGED <<job, runtime, sent>>
  BY DEF SyncProof, Decided, Goes, host
<1>2. /\ DiskOK' /\ Keeps /\ ProofsStay /\ InputsStay /\ journal' = journal
      /\ \A n \in PrivateNames : private'[n].may = {private[n].seen}
  BY <1>1, SyncedStays
<1>3. job[c] \in Jobs /\ job[c].family \in Families
  BY DEF IInv, FilesTypeOK, Jobs
<1>4. Pends(c) /\ Witnessed(c)
  BY <1>1 DEF IInv, Relies
<1>5. CASE Outcome(job[c]) = "unknown"
  <2>1. /\ at' = [at EXCEPT ![c] = "unknown"] /\ lock' = lock \ {c}
        /\ read' = [read EXCEPT ![c] = Absent]
    BY <1>5 DEF SyncProof, Decided, Goes
  <2>2. Moves(c) /\ at'[c] = "unknown"
    BY <1>1, <2>1 DEF Moves, IInv, FilesTypeOK
  <2>3. FilesTypeOK' /\ Locking'
    BY <1>1, <2>1, <2>2
       DEF IInv, FilesTypeOK, Places, Contents, Locking, LockedPlaces, Moves
  <2>4. Recorded(job[c].family)'
    <3>1. journal \in Journals /\ LastOf(journal) \in Events
      BY <1>4, JournalIsTyped DEF Pends, Pending
    <3>2. LastOf(journal) = Intent(job[c].family)
      BY <1>4, <3>1 DEF Pends, Pending, Events, Intent
    <3>3. Holds(journal, job[c].family)
      BY <1>4, <3>1, <3>2 DEF Pends, Pending, LastOf, Holds, Journals
    <3>4. private'[Journal].may = {journal}
      BY <1>2, NamesDiffer DEF journal
    <3> QED
      BY <1>1, <1>4, <3>3, <3>4 DEF Recorded, Pends
  <2>5. Relies(c)'
    BY <1>1, <2>2, <2>4 DEF Relies
  <2> QED
    BY <1>1, <1>2, <2>2, <2>3, <2>5, StepOf DEF Preparing
<1>6. CASE Outcome(job[c]) # "unknown"
  <2>1. at' = [at EXCEPT ![c] = "record"] /\ UNCHANGED <<lock, read>>
    BY <1>6 DEF SyncProof, Decided, Goes
  <2>2. Moves(c) /\ at'[c] = "record"
    BY <1>1, <2>1 DEF Moves, IInv, FilesTypeOK
  <2>3. FilesTypeOK' /\ Locking'
    BY <1>1, <2>1, <2>2
       DEF IInv, FilesTypeOK, Places, Locking, LockedPlaces, Moves
  <2>4. private'[ProofOf(job[c])].may = {Whole}
    BY <1>2, <1>3, <1>4, <1>6, JobsProve, NamesDiffer DEF Witnessed
  <2>5. Durable(c)'
    BY <1>1, <1>6, <2>4 DEF Durable
  <2>6. Pends(c)'
    BY <1>1, <1>2, <1>4, <2>1 DEF Pends
  <2>7. Relies(c)'
    BY <2>2, <2>5, <2>6 DEF Relies
  <2> QED
    BY <1>1, <1>2, <2>2, <2>3, <2>7, StepOf DEF Preparing
<1> QED
  BY <1>5, <1>6

LEMMA OutcomeIsStage ==
  ASSUME NEW j \in Jobs
  PROVE  Outcome(j) \in {"complete", "failed", "abandoned", "unknown"}
BY DEF Outcome

LEMMA SettledExtends ==
  ASSUME NEW x \in Journals, NEW j \in Jobs, Outcome(j) # "unknown"
  PROVE  /\ Extends(Settled(x, j), x)
         /\ Len(Settled(x, j).events) = Len(x.events) + 1
         /\ Settled(x, j).events[Len(x.events) + 1].proof = ProofOf(j)
<1> DEFINE e == [family |-> j.family, stage |-> Outcome(j), proof |-> ProofOf(j)]
           done == With(x, e)
<1>1. e \in Events
  BY JobsProve, OutcomeIsStage DEF Events, Jobs
<1>2. /\ Extends(done, x) /\ Len(done.events) = Len(x.events) + 1
      /\ done.events[Len(x.events) + 1] = e
  BY <1>1, WithExtends
<1>3. Settled(x, j) = done
        \/ Settled(x, j) = [done EXCEPT !.latch = Len(done.events) + 1]
  BY DEF Settled
<1>4. e.proof = ProofOf(j)
  OBVIOUS
<1> HIDE DEF done, e
<1>5. done \in Journals /\ Len(done.events) \in Nat
  BY <1>2 DEF Extends, Journals
<1>6. Settled(x, j) \in Journals /\ Settled(x, j).events = done.events
  BY <1>3, <1>5 DEF Journals
<1> QED
  BY <1>2, <1>4, <1>6 DEF Extends

LEMMA RecordStep ==
  ASSUME IInv, NEW c \in Controllers, Record(c) PROVE IInv'
<1> DEFINE y == Settled(journal, job[c])
<1>1. /\ at[c] = "record" /\ at' = [at EXCEPT ![c] = "terminal"]
      /\ private' = Stored(private, Journal, Settled(read[c], job[c]))
      /\ UNCHANGED <<job, read, lock, runtime, sent>>
  BY DEF Record, Goes, host
<1>2. job[c] \in Jobs /\ Pends(c) /\ Durable(c) /\ c \in lock
  BY <1>1 DEF IInv, FilesTypeOK, Relies, Locking, LockedPlaces
<1>3. private' = Stored(private, Journal, y) /\ Usable(journal)
  BY <1>1, <1>2 DEF Pends
<1>4. journal \in Journals /\ Len(journal.events) \in Nat
  BY <1>3, JournalIsTyped DEF Journals
<1>5. /\ Extends(y, journal) /\ Len(y.events) = Len(journal.events) + 1
      /\ y.events[Len(journal.events) + 1].proof = ProofOf(job[c])
  BY <1>2, <1>4, SettledExtends DEF Durable
<1> HIDE DEF y
<1>6. \A i \in 1..Len(y.events) : i > Len(journal.events) => Proved(y.events[i])
  <2> SUFFICES ASSUME NEW i \in 1..Len(y.events), i > Len(journal.events)
               PROVE  y.events[i].proof = ProofOf(job[c])
    BY <1>2 DEF Proved, Durable
  <2>1. i = Len(journal.events) + 1
    BY <1>4, <1>5
  <2> QED
    BY <1>5, <2>1
<1>7. DiskOK' /\ Keeps /\ Others(Journal)
  BY <1>3, <1>5, <1>6, JournalGrows DEF IInv
<1>8. ProofsStay /\ InputsStay
  BY <1>7, OthersStay
<1>9. \A d \in Controllers \ {c} : at[d] \notin OnJournal
  BY <1>2, <1>3 DEF IInv, Locking, LockedPlaces, Prep, OnJournal, Usable
<1>10. Moves(c) /\ at'[c] = "terminal"
  BY <1>1 DEF Moves, IInv, FilesTypeOK
<1>11. FilesTypeOK' /\ Locking'
  BY <1>1, <1>2, <1>10 DEF IInv, FilesTypeOK, Places, Locking, Moves
<1>12. Relies(c)'
  BY <1>10 DEF Relies
<1>13. \A f \in sent' \ sent : Recorded(f)'
  BY <1>1
<1> QED
  BY <1>7, <1>8, <1>9, <1>10, <1>11, <1>12, <1>13, StepOf DEF Preparing

LEMMA SyncTerminalStep ==
  ASSUME IInv, NEW c \in Controllers, SyncTerminal(c) PROVE IInv'
<1> DEFINE j == [Idle EXCEPT !.forward =
                   job[c].forward /\ Outcome(job[c]) = "complete"
                     /\ job[c].family # "publication"]
<1>1. /\ at' = [at EXCEPT ![c] = Onward(job[c])]
      /\ private' = Synced(private) /\ lock' = lock \ {c}
      /\ job' = [job EXCEPT ![c] = j] /\ read' = [read EXCEPT ![c] = Absent]
      /\ UNCHANGED <<runtime, sent>>
  BY DEF SyncTerminal, Goes, Return, host
<1>2. Onward(job[c]) \in Carefree
  <2>1. Onward(job[c]) \in {"latch", "advance", "publish", "idle"}
    BY DEF Onward
  <2> QED
    BY <2>1, AnyFrom
<1>3. Idle \in Jobs /\ Idle = [family |-> "setup", teardown |-> FALSE,
         saw |-> "unreadable", forward |-> FALSE, repeated |-> FALSE]
  BY IdleIsJob DEF Idle
<1>4. j \in Jobs
  BY <1>3 DEF Jobs
<1>5. DiskOK' /\ Keeps /\ ProofsStay /\ InputsStay /\ journal' = journal
  BY <1>1, SyncedStays
<1>6. Absent \in Contents
  BY DEF Contents
<1> HIDE DEF j
<1> QED
  BY <1>1, <1>2, <1>4, <1>5, <1>6, CarefreeStep

LEMMA ProvingStep ==
  ASSUME IInv, NEW c \in Controllers, Proving(c) PROVE IInv'
<1>1. ASSUME ProveRefused(c) PROVE IInv'
  <2>1. CASE job[c].forward
    BY <1>1, <2>1, UnwindsStep DEF ProveRefused
  <2>2. CASE ~job[c].forward
    BY <1>1, <2>2, AnyFrom, IdleIsJob, CarefreeQuiet
       DEF ProveRefused, Goes, disk, host
  <2> QED
    BY <2>1, <2>2
<1> QED
  BY <1>1, ProveStep, SyncProofStep, RecordStep, SyncTerminalStep DEF Proving

----------------------------------------------------------------------------
LEMMA InitIsInductive == Init => IInv
<1> SUFFICES ASSUME Init PROVE IInv
  OBVIOUS
<1>1. private = [n \in PrivateNames |-> [seen |-> Absent, may |-> {Absent}]]
  BY DEF Init, Empty
<1>2. Absent \in Contents
  BY DEF Contents
<1>3. private \in Directory(PrivateNames, Contents) /\ Sane(private)
  BY <1>1, <1>2 DEF Directory, Sane
<1>4. private[Journal].may = {Absent}
  BY <1>1, NamesDiffer
<1>5. DiskOK
  BY <1>3, <1>4 DEF DiskOK, TerminalHasItsProof, JournalHasItsInputs, Surviving
<1>6. FilesTypeOK
  BY <1>2, IdleIsJob DEF Init, FilesTypeOK, Places
<1>7. Locking /\ \A c \in Controllers : Relies(c) /\ Prep(c)
  BY DEF Init, Locking, LockedPlaces, Relies, Prep, Preparing
<1>8. MutationIsRecorded
  BY DEF Init, MutationIsRecorded
<1> QED
  BY <1>5, <1>6, <1>7, <1>8 DEF IInv

LEMMA NextIsInductive == IInv /\ [Next]_vars => IInv'
<1> SUFFICES ASSUME IInv, [Next]_vars PROVE IInv'
  OBVIOUS
<1>1. ASSUME NEW f \in orphans, OrphanActs(f) PROVE IInv'
  BY <1>1, HostStep DEF OrphanActs, Effect, IInv, FilesTypeOK
<1>2. CASE UNCHANGED vars
  BY <1>2, HostStep DEF vars, host, IInv, FilesTypeOK
<1> QED
  BY <1>1, <1>2, PreparesStep, AppendingStep, CommandingStep, RecoveringStep,
     ProvingStep, PublishesStep, DiesStep, PowerLossStep DEF Next

LEMMA Inductive == Spec => []IInv
BY InitIsInductive, NextIsInductive, PTL DEF Spec

(***************************************************************************)
(* However many controllers work on the root, die and lose power: a command*)
(* that ever ran has its intent in whatever journal is found later.        *)
(***************************************************************************)
THEOREM IntentsSurvive == Spec => []MutationIsRecorded
<1>1. IInv => MutationIsRecorded
  BY DEF IInv
<1> QED
  BY <1>1, Inductive, PTL

(***************************************************************************)
(* Whatever journal is found, the proofs of its terminals are beside it.   *)
(***************************************************************************)
THEOREM ProofsSurvive == Spec => []TerminalHasItsProof
<1>1. IInv => TerminalHasItsProof
  BY DEF IInv, DiskOK
<1> QED
  BY <1>1, Inductive, PTL

(***************************************************************************)
(* Whatever journal is found, the inputs it commits to are beside it.      *)
(***************************************************************************)
THEOREM InputsSurvive == Spec => []JournalHasItsInputs
<1>1. IInv => JournalHasItsInputs
  BY DEF IInv, DiskOK
<1> QED
  BY <1>1, Inductive, PTL

----------------------------------------------------------------------------
(***************************************************************************)
(* What a step makes of the journal.                                       *)
(***************************************************************************)
Latched(x) == [x EXCEPT !.latch = Len(x.events) + 1]

\* A write under the lock.
Intends(c, f) ==
  /\ Admitted(journal, f) /\ journal' = With(journal, Intent(f))
  /\ Appends(c, f, job'[c].forward)
  /\ at'[c] = "intent"
  /\ f = "publication" => at[c] = "publish"
Latches(c) == journal.latch = 0 /\ journal' = Latched(journal) /\ Latch(c)
Records(c) == journal' = Settled(journal, job[c]) /\ Record(c)

Writing(c) ==
  /\ Usable(journal)
  /\ private'[Journal].may = private[Journal].may \cup {journal'}
  /\ \/ \E f \in Families : Intends(c, f)
     \/ Latches(c)
     \/ Records(c)

Beginning ==
  /\ ~Usable(journal) /\ journal' \in {Absent, Torn, NewJournal}
  /\ private'[Journal].may \subseteq private[Journal].may \cup {journal'}

Keeping ==
  /\ private'[Journal].may \subseteq private[Journal].may
  /\ journal' = journal

Losing ==
  /\ PowerLoss /\ journal' \in private[Journal].may
  /\ private'[Journal].may = {journal'}

LEMMA StoredJournal ==
  ASSUME IInv, NEW x \in Contents, private' = Stored(private, Journal, x)
  PROVE  /\ journal' = x
         /\ private'[Journal].may = private[Journal].may \cup {x}
<1>1. /\ private' \in Directory(PrivateNames, Contents) /\ Sane(private')
      /\ private'[Journal] = [seen |-> x, may |-> private[Journal].may \cup {x}]
  BY StoredEntries, NamesDiffer DEF IInv, DiskOK
<1> QED
  BY <1>1 DEF journal

\* A change of another name.
LEMMA AnotherName ==
  ASSUME IInv, NEW n \in PrivateNames, n # Journal, NEW x \in Contents,
         private' = Stored(private, n, x) \/ private' = Filled(private, n, x)
  PROVE  private'[Journal] = private[Journal]
<1>1. private \in [PrivateNames -> [seen : Contents, may : SUBSET Contents]]
  BY DEF IInv, DiskOK, Directory
<1> QED
  BY <1>1, NamesDiffer DEF Stored, Filled

LEMMA JournalMoves ==
  ASSUME IInv, [Next]_vars
  PROVE  Keeping \/ Beginning \/ Losing \/ \E c \in Controllers : Writing(c)
<1>1. ASSUME UNCHANGED private PROVE Keeping
  BY <1>1 DEF Keeping, journal
<1>2. ASSUME private' = Synced(private) PROVE Keeping
  <2>1. journal' = journal /\ private'[Journal].may = {private[Journal].seen}
    BY <1>2, SyncedStays, NamesDiffer
  <2>2. private[Journal].seen \in private[Journal].may
    BY NamesDiffer DEF IInv, DiskOK, Sane, Directory
  <2> QED
    BY <2>1, <2>2 DEF Keeping
<1>3. ASSUME NEW n \in PrivateNames, n # Journal, NEW x \in Contents,
             \/ private' = Stored(private, n, x)
             \/ private' = Filled(private, n, x)
      PROVE  Keeping
  BY <1>3, AnotherName DEF Keeping, journal
<1>4. ASSUME NEW x \in {Absent, Torn, NewJournal}, ~Usable(journal),
             \/ private' = Stored(private, Journal, x)
             \/ private' = Filled(private, Journal, x)
      PROVE  Beginning
  <2>1. x \in Contents
    <3>1. NewJournal \in Journals
      BY DEF NewJournal, Journals
    <3> QED
      BY <1>4, <3>1 DEF Contents
  <2>2. CASE private' = Stored(private, Journal, x)
    BY <1>4, <2>1, <2>2, StoredJournal DEF Beginning
  <2>3. CASE private' = Filled(private, Journal, x)
    <3>1. private'[Journal] = [seen |-> x, may |-> (private[Journal].may \ {Torn}) \cup {x}]
      BY <2>1, <2>3, FilledEntries, NamesDiffer DEF IInv, DiskOK
    <3> QED
      BY <1>4, <3>1 DEF Beginning, journal
  <2> QED
    BY <1>4, <2>2, <2>3
<1>5. ASSUME NEW c \in Controllers, Prepares(c) PROVE Keeping \/ Beginning
  <2>1. CASE CreateInputs(c) \/ FillInputs(c)
    BY <1>3, <2>1, NamesDiffer DEF CreateInputs, FillInputs, Contents
  <2>2. CASE SyncInputs(c) \/ SyncJournal(c)
    BY <1>2, <2>2 DEF SyncInputs, SyncJournal
  <2>3. CASE CreateJournal(c)
    BY <1>4, <2>3 DEF CreateJournal, Usable
  <2>4. CASE FillJournal(c) \/ FillJournalFails(c)
    <3>1. at[c] = "journal"
      BY <2>4 DEF FillJournal, FillJournalFails, Goes
    <3>2. ~Usable(journal)
      BY <3>1 DEF IInv, Prep, Usable
    <3> QED
      BY <1>4, <2>4, <3>2 DEF FillJournal, FillJournalFails
  <2> QED
    BY <1>5, <2>1, <2>2, <2>3, <2>4 DEF Prepares
<1>6. ASSUME NEW c \in Controllers, NEW f \in Families, NEW forward \in BOOLEAN,
             Appends(c, f, forward), at' = [at EXCEPT ![c] = "intent"],
             f = "publication" => at[c] = "publish"
      PROVE  Writing(c)
  <2>1. /\ Usable(journal) /\ Admitted(journal, f)
        /\ private' = Stored(private, Journal, With(journal, Intent(f)))
        /\ job' = [job EXCEPT ![c] = [Idle EXCEPT !.family = f, !.forward = forward]]
    BY <1>6 DEF Appends, Replace, Loads
  <2>2. journal \in Journals
    BY <2>1, JournalIsTyped
  <2>3. With(journal, Intent(f)) \in Contents
    BY <2>2, WithExtends, IntentIsEvent DEF Extends, Contents
  <2>4. job'[c].forward = forward /\ at'[c] = "intent"
    BY <1>6, <2>1 DEF IInv, FilesTypeOK, Idle
  <2> QED
    BY <1>6, <2>1, <2>3, <2>4, StoredJournal DEF Writing, Intends
<1>7. ASSUME NEW c \in Controllers, Latch(c) PROVE Writing(c)
  <2>1. /\ Usable(journal) /\ journal.latch = 0
        /\ private' = Stored(private, Journal, Latched(journal))
    BY <1>7 DEF Latch, Replace, Loads, Latched
  <2>2. journal \in Journals
    BY <2>1, JournalIsTyped
  <2>3. Latched(journal) \in Contents
    BY <2>2 DEF Latched, Journals, Contents
  <2> QED
    BY <1>7, <2>1, <2>3, StoredJournal DEF Writing, Latches
<1>8. ASSUME NEW c \in Controllers, Record(c) PROVE Writing(c)
  <2>1. /\ at[c] = "record"
        /\ private' = Stored(private, Journal, Settled(read[c], job[c]))
    BY <1>8 DEF Record, Goes
  <2>2. Pends(c) /\ Outcome(job[c]) # "unknown" /\ job[c] \in Jobs
    BY <2>1 DEF IInv, FilesTypeOK, Relies, Durable
  <2>3. Usable(journal) /\ read[c] = journal /\ journal \in Journals
    BY <2>2, JournalIsTyped DEF Pends
  <2>4. Settled(journal, job[c]) \in Contents
    BY <2>2, <2>3, SettledExtends DEF Extends, Contents
  <2> QED
    BY <1>8, <2>1, <2>3, <2>4, StoredJournal DEF Writing, Records
<1>9. ASSUME NEW c \in Controllers, Appending(c) PROVE Keeping \/ Writing(c)
  <2>1. CASE IntendSetup(c) \/ IntendPublication(c)
    BY <1>6, <2>1 DEF IntendSetup, IntendPublication, Families, Goes
  <2>2. CASE IntendDelete(c)
    <3>1. job[c].forward \in BOOLEAN
      BY DEF IInv, FilesTypeOK, Jobs
    <3> QED
      BY <1>6, <2>2, <3>1 DEF IntendDelete, Families, Goes
  <2>3. CASE SyncIntent(c) \/ SyncLatch(c)
    BY <1>2, <2>3 DEF SyncIntent, SyncLatch, Return
  <2>4. CASE Latch(c)
    BY <1>7, <2>4
  <2> QED
    BY <1>9, <2>1, <2>2, <2>3, <2>4 DEF Appending
<1>10. ASSUME NEW c \in Controllers, Proving(c) PROVE Keeping \/ Writing(c)
  <2>1. CASE Prove(c)
    <3>1. private' = PublishedProof(job[c]) /\ job[c] \in Jobs
      BY <2>1 DEF Prove, IInv, FilesTypeOK
    <3>2. ProofOf(job[c]) \in PrivateNames /\ ProofOf(job[c]) # Journal /\ Whole \in Contents
      BY <3>1, JobsProve, NamesDiffer DEF Contents
    <3> QED
      BY <1>1, <1>3, <3>1, <3>2 DEF PublishedProof
  <2>2. CASE ProveRefused(c)
    BY <1>1, <2>2 DEF ProveRefused, Unwinds, disk
  <2>3. CASE SyncProof(c) \/ SyncTerminal(c)
    BY <1>2, <2>3 DEF SyncProof, SyncTerminal, Return
  <2>4. CASE Record(c)
    BY <1>8, <2>4
  <2> QED
    BY <1>10, <2>1, <2>2, <2>3, <2>4 DEF Proving
<1>11. ASSUME NEW c \in Controllers, Commanding(c) \/ Recovering(c) \/ Publishes(c) \/ Dies(c)
       PROVE  Keeping
  BY <1>1, <1>11 DEF Commanding, Check, Launch, Acts, CommandReturns, SetupFails, Unwinds,
     Recovering, BeginRecover, Observe, NothingPending, LatchedAlready, NothingToAdvance,
     Cleanup, Undecided, PublicationRefused, Publishes, Stage, FillStaging, Rename,
     SyncPublic, PublishFails, OnlyPublic, Dies, disk
<1>12. CASE PowerLoss
  <2>1. /\ private'[Journal].seen \in private[Journal].may
        /\ private'[Journal].may = {private'[Journal].seen}
    BY <1>12, LeftEntries, NamesDiffer DEF PowerLoss, IInv, DiskOK
  <2> QED
    BY <1>12, <2>1 DEF Losing, journal
<1>13. CASE (\E f \in orphans : OrphanActs(f)) \/ UNCHANGED vars
  BY <1>1, <1>13 DEF OrphanActs, vars, disk
<1> QED
  BY <1>5, <1>9, <1>10, <1>11, <1>12, <1>13 DEF Next

----------------------------------------------------------------------------
(***************************************************************************)
(* The journal as a log.                                                   *)
(***************************************************************************)
StartOf(s, t) == Len(s) <= Len(t) /\ \A i \in 1..Len(s) : s[i] = t[i]

Entries == Events \cup {LatchWrite}

\* A latch lies within its journal.
Bounded(x) == x.latch <= Len(x.events) + 1

\* A journal with an event or a latch more.
Follows(y, x) ==
  /\ Extends(y, x) /\ Bounded(y)
  /\ x.latch # 0 => y.latch = x.latch
  /\ x.latch = 0 => (y.latch = 0 \/ y.latch > Len(x.events))
  /\ Len(y.events) > Len(x.events) \/ (x.latch = 0 /\ y.latch # 0)

LEMMA WritesEntries ==
  ASSUME NEW x \in Journals, Bounded(x)
  PROVE  /\ Writes(x) \in Seq(Entries)
         /\ x.latch = 0 => Writes(x) = x.events
         /\ x.latch # 0 =>
              /\ Len(Writes(x)) = Len(x.events) + 1
              /\ \A i \in 1..Len(x.events) + 1 :
                   Writes(x)[i] = IF i < x.latch THEN x.events[i]
                                  ELSE IF i = x.latch THEN LatchWrite
                                  ELSE x.events[i - 1]
<1> DEFINE ev == x.events
           l == x.latch
           n == Len(x.events)
<1>1. ev \in Seq(Entries) /\ l \in Nat /\ n \in Nat /\ l <= n + 1 /\ Usable(x)
  BY JournalsAreUsable DEF Journals, Entries, Bounded
<1>2. CASE l = 0
  BY <1>1, <1>2 DEF Writes
<1>3. CASE l # 0
  <2> DEFINE a == SubSeq(ev, 1, l - 1)
             b == <<LatchWrite>>
             d == SubSeq(ev, l, n)
  <2>1. \A i \in 1..n : ev[i] \in Entries
    BY <1>1
  <2>2. /\ a \in Seq(Entries) /\ Len(a) = l - 1
        /\ \A i \in 1..l - 1 : a[i] = ev[i]
    <3>1. \A i \in 1..l - 1 : ev[i] \in Entries
      BY <1>1, <2>1
    <3> HIDE DEF ev, l, n
    <3>2. 1 \in Int /\ l - 1 \in Int
      BY <1>1
    <3>3. /\ SubSeq(ev, 1, l - 1) \in Seq(Entries)
          /\ Len(SubSeq(ev, 1, l - 1)) = IF 1 <= l - 1 THEN l - 1 - 1 + 1 ELSE 0
          /\ \A i \in 1..l - 1 - 1 + 1 : SubSeq(ev, 1, l - 1)[i] = ev[1 + i - 1]
      BY <3>1, <3>2, SubSeqProperties
    <3> QED
      BY <1>1, <1>3, <3>3
  <2>3. /\ d \in Seq(Entries) /\ Len(d) = n - l + 1
        /\ \A i \in 1..n - l + 1 : d[i] = ev[l + i - 1]
    <3>1. \A i \in l..n : ev[i] \in Entries
      BY <1>1, <1>3, <2>1
    <3> HIDE DEF ev, l, n
    <3>2. /\ SubSeq(ev, l, n) \in Seq(Entries)
          /\ Len(SubSeq(ev, l, n)) = IF l <= n THEN n - l + 1 ELSE 0
          /\ \A i \in 1..n - l + 1 : SubSeq(ev, l, n)[i] = ev[l + i - 1]
      BY <1>1, <3>1, SubSeqProperties
    <3> QED
      BY <1>1, <3>2
  <2>4. b \in Seq(Entries) /\ Len(b) = 1 /\ b[1] = LatchWrite
    BY DEF Entries
  <2>5. Writes(x) = (a \o b) \o d
    BY <1>1, <1>3 DEF Writes
  <2> HIDE DEF a, b, d, ev, l, n
  <2>6. /\ a \o b \in Seq(Entries) /\ Len(a \o b) = l
        /\ \A i \in 1..l : (a \o b)[i] = IF i <= l - 1 THEN ev[i] ELSE LatchWrite
    <3>1. /\ a \o b \in Seq(Entries) /\ Len(a \o b) = Len(a) + Len(b)
          /\ \A i \in 1..Len(a) + Len(b) :
               (a \o b)[i] = IF i <= Len(a) THEN a[i] ELSE b[i - Len(a)]
      BY <2>2, <2>4, ConcatProperties
    <3> QED
      BY <1>1, <1>3, <2>2, <2>4, <3>1
  <2> DEFINE c == a \o b
  <2>7. /\ Writes(x) \in Seq(Entries) /\ Len(Writes(x)) = l + Len(d)
        /\ \A i \in 1..l + Len(d) : Writes(x)[i] = IF i <= l THEN c[i] ELSE d[i - l]
    <3>1. c \in Seq(Entries) /\ Len(c) = l /\ Writes(x) = c \o d
      BY <2>5, <2>6
    <3> HIDE DEF c
    <3>2. /\ c \o d \in Seq(Entries) /\ Len(c \o d) = Len(c) + Len(d)
          /\ \A i \in 1..Len(c) + Len(d) :
               (c \o d)[i] = IF i <= Len(c) THEN c[i] ELSE d[i - Len(c)]
      BY <2>3, <3>1, ConcatProperties
    <3> QED
      BY <3>1, <3>2
  <2>8. Len(Writes(x)) = n + 1
    BY <1>1, <2>3, <2>6, <2>7
  <2>9. ASSUME NEW i \in 1..n + 1
        PROVE  Writes(x)[i] = IF i < l THEN ev[i] ELSE IF i = l THEN LatchWrite
                              ELSE ev[i - 1]
    <3>1. CASE i <= l
      <4>1. i \in 1..l /\ i \in 1..l + Len(d)
        BY <1>1, <2>3, <3>1
      <4>2. Writes(x)[i] = c[i]
        BY <2>7, <3>1, <4>1
      <4>3. c[i] = IF i <= l - 1 THEN ev[i] ELSE LatchWrite
        BY <2>6, <4>1
      <4>4. i \in Int /\ l \in Int
        BY <1>1
      <4> HIDE DEF c
      <4> QED
        BY <3>1, <4>2, <4>3, <4>4
    <3>2. CASE i > l
      <4>1. i - l \in 1..n - l + 1 /\ l + (i - l) - 1 = i - 1
        BY <1>1, <3>2
      <4>2. d[i - l] = ev[i - 1]
        BY <2>3, <4>1
      <4> QED
        BY <1>1, <2>3, <2>6, <2>7, <3>2, <4>2
    <3> QED
      BY <1>1, <3>1, <3>2
  <2> QED
    BY <1>3, <2>7, <2>8, <2>9 DEF ev, l, n
<1> QED
  BY <1>1, <1>2, <1>3

LEMMA WritesGrow ==
  ASSUME NEW x \in Journals, Bounded(x), NEW y, Follows(y, x)
  PROVE  StartOf(Writes(x), Writes(y)) /\ Len(Writes(y)) > Len(Writes(x))
<1>1. y \in Journals /\ Bounded(y)
  BY DEF Follows, Extends
<1>2. /\ Len(x.events) \in Nat /\ Len(y.events) \in Nat /\ x.latch \in Nat /\ y.latch \in Nat
      /\ Len(x.events) <= Len(y.events)
      /\ \A i \in 1..Len(x.events) : y.events[i] = x.events[i]
  BY <1>1 DEF Journals, Follows, Extends
<1>3. CASE x.latch = 0 /\ y.latch = 0
  BY <1>1, <1>2, <1>3, WritesEntries DEF Follows, StartOf
<1>4. CASE x.latch = 0 /\ y.latch # 0
  <2>1. Writes(x) = x.events /\ Len(Writes(y)) = Len(y.events) + 1
    BY <1>1, <1>4, WritesEntries
  <2>2. y.latch > Len(x.events)
    BY <1>4 DEF Follows
  <2>3. ASSUME NEW i \in 1..Len(x.events) PROVE Writes(y)[i] = y.events[i]
    <3>1. i \in 1..Len(y.events) + 1 /\ i < y.latch
      BY <1>2, <2>2
    <3> QED
      BY <1>1, <1>4, <3>1, WritesEntries
  <2> QED
    BY <1>2, <2>1, <2>3 DEF StartOf
<1>5. CASE x.latch # 0
  <2>1. y.latch = x.latch /\ Len(y.events) > Len(x.events)
    BY <1>5 DEF Follows
  <2>2. Len(Writes(x)) = Len(x.events) + 1 /\ Len(Writes(y)) = Len(y.events) + 1
    BY <1>1, <1>5, <2>1, WritesEntries
  <2>3. ASSUME NEW i \in 1..Len(x.events) + 1 PROVE Writes(x)[i] = Writes(y)[i]
    <3>1. i \in 1..Len(y.events) + 1
      BY <1>2
    <3>2. Writes(x)[i] = IF i < x.latch THEN x.events[i] ELSE IF i = x.latch THEN LatchWrite
                         ELSE x.events[i - 1]
      BY <1>5, WritesEntries
    <3>3. Writes(y)[i] = IF i < x.latch THEN y.events[i] ELSE IF i = x.latch THEN LatchWrite
                         ELSE y.events[i - 1]
      BY <1>1, <1>5, <2>1, <3>1, WritesEntries
    <3>4. CASE i < x.latch
      <4>1. i \in 1..Len(x.events)
        BY <1>2, <3>4 DEF Bounded
      <4> QED
        BY <1>2, <3>2, <3>3, <3>4, <4>1
    <3>5. CASE i = x.latch
      BY <1>2, <3>2, <3>3, <3>5
    <3>6. CASE i > x.latch
      <4>1. i - 1 \in 1..Len(x.events)
        BY <1>2, <1>5, <3>6
      <4> QED
        BY <1>2, <3>2, <3>3, <3>6, <4>1
    <3> QED
      BY <1>2, <3>4, <3>5, <3>6
  <2> QED
    BY <1>2, <2>1, <2>2, <2>3 DEF StartOf
<1> QED
  BY <1>3, <1>4, <1>5

----------------------------------------------------------------------------
(***************************************************************************)
(* What the latch says of the proofs.                                      *)
(***************************************************************************)
\* Each proof agrees with the journal it stands in.
Replayable(x) ==
  /\ Bounded(x)
  /\ \A i \in 1..Len(x.events) :
       x.events[i].stage # "intent" => i > 1 /\ Rederived(x, i)

LEMMA ReplaysOn ==
  ASSUME NEW x \in Journals, Replayable(x), NEW y, Follows(y, x),
         \A i \in 1..Len(y.events) :
           i > Len(x.events) /\ y.events[i].stage # "intent" => i > 1 /\ Rederived(y, i)
  PROVE  Replayable(y)
<1>1. y \in Journals /\ Bounded(y)
  BY DEF Follows, Extends
<1>2. /\ Len(x.events) \in Nat /\ Len(y.events) \in Nat /\ x.latch \in Nat /\ y.latch \in Nat
      /\ Len(x.events) <= Len(y.events)
      /\ \A i \in 1..Len(x.events) : y.events[i] = x.events[i]
  BY <1>1 DEF Journals, Follows, Extends
<1> SUFFICES ASSUME NEW i \in 1..Len(y.events), y.events[i].stage # "intent",
                    i <= Len(x.events)
             PROVE  i > 1 /\ Rederived(y, i)
  BY <1>1, <1>2 DEF Replayable
<1>3. i \in 1..Len(x.events) /\ y.events[i] = x.events[i]
  BY <1>2
<1>4. i > 1 /\ Rederived(x, i)
  BY <1>3 DEF Replayable
<1>5. i - 1 \in 1..Len(x.events)
  BY <1>2, <1>3, <1>4
<1>6. y.events[i - 1] = x.events[i - 1]
  BY <1>2, <1>5
<1>7. (x.latch # 0 /\ x.latch <= i) <=> (y.latch # 0 /\ y.latch <= i)
  BY <1>2, <1>3 DEF Follows
<1> QED
  BY <1>3, <1>4, <1>6, <1>7 DEF Rederived

LEMMA IntentFollows ==
  ASSUME NEW x \in Journals, Replayable(x), NEW f \in Families
  PROVE  Follows(With(x, Intent(f)), x) /\ Replayable(With(x, Intent(f)))
<1> DEFINE y == With(x, Intent(f))
<1>1. /\ Extends(y, x) /\ Len(y.events) = Len(x.events) + 1
      /\ y.events[Len(x.events) + 1] = Intent(f)
  BY WithExtends, IntentIsEvent
<1>2. /\ y.latch = x.latch /\ Len(x.events) \in Nat /\ x.latch \in Nat
      /\ x.latch <= Len(x.events) + 1
  BY DEF With, Journals, Replayable, Bounded
<1> HIDE DEF y
<1>3. Follows(y, x)
  <2>1. Bounded(y)
    BY <1>1, <1>2 DEF Bounded
  <2> QED
    BY <1>1, <1>2, <2>1 DEF Follows
<1>4. \A i \in 1..Len(y.events) : i > Len(x.events) => y.events[i].stage = "intent"
  <2> SUFFICES ASSUME NEW i \in 1..Len(y.events), i > Len(x.events)
               PROVE  i = Len(x.events) + 1
    BY <1>1 DEF Intent
  <2> QED
    BY <1>1, <1>2
<1> QED
  BY <1>3, <1>4, ReplaysOn DEF y

LEMMA LatchFollows ==
  ASSUME NEW x \in Journals, Replayable(x), x.latch = 0
  PROVE  Follows(Latched(x), x) /\ Replayable(Latched(x)) /\ Latched(x).latch # 0
<1>1. Latched(x) = [events |-> x.events, latch |-> Len(x.events) + 1]
  BY DEF Latched, Journals
<1>2. Len(x.events) \in Nat /\ Latched(x) \in Journals
  BY <1>1 DEF Journals
<1>3. Follows(Latched(x), x)
  BY <1>1, <1>2 DEF Follows, Extends, Bounded
<1>4. \A i \in 1..Len(Latched(x).events) : ~(i > Len(x.events))
  BY <1>1, <1>2
<1> QED
  BY <1>1, <1>2, <1>3, <1>4, ReplaysOn

LEMMA SettledFollows ==
  ASSUME NEW x \in Journals, Replayable(x), Pending(x), NEW j \in Jobs,
         Outcome(j) # "unknown", LastOf(x).family = j.family,
         j.teardown = (x.latch # 0)
  PROVE  /\ Follows(Settled(x, j), x) /\ Replayable(Settled(x, j))
         /\ LastOf(Settled(x, j)) =
              [family |-> j.family, stage |-> Outcome(j), proof |-> ProofOf(j)]
<1> DEFINE e == [family |-> j.family, stage |-> Outcome(j), proof |-> ProofOf(j)]
           done == With(x, e)
           y == Settled(x, j)
           n == Len(x.events)
<1>1. e \in Events
  BY JobsProve, OutcomeIsStage DEF Events, Jobs
<1>2. /\ Extends(done, x) /\ Len(done.events) = n + 1 /\ done.events[n + 1] = e
      /\ done.latch = x.latch /\ done \in Journals
  BY <1>1, WithExtends DEF With, Journals, Extends
<1>3. n \in Nat /\ x.latch \in Nat /\ x.latch <= n + 1 /\ n >= 1
  BY DEF Journals, Replayable, Bounded, Pending
<1>4. y = IF Outcome(j) # "complete" /\ x.latch = 0
          THEN [done EXCEPT !.latch = Len(done.events) + 1] ELSE done
  BY DEF Settled
<1> HIDE DEF y, done, e
<1>5. /\ y.events = done.events /\ y \in Journals
      /\ y.latch = IF Outcome(j) # "complete" /\ x.latch = 0 THEN n + 2 ELSE x.latch
  BY <1>2, <1>3, <1>4 DEF Journals
<1>6. Follows(y, x)
  <2>1. Bounded(y)
    BY <1>2, <1>3, <1>5 DEF Bounded
  <2>2. Extends(y, x)
    BY <1>2, <1>5 DEF Extends
  <2>3. x.latch # 0 => y.latch = x.latch
    BY <1>5
  <2>4. x.latch = 0 => y.latch = 0 \/ y.latch > n
    BY <1>3, <1>5
  <2>5. Len(y.events) > n
    BY <1>2, <1>3, <1>5
  <2> QED
    BY <2>1, <2>2, <2>3, <2>4, <2>5 DEF Follows
<1>7. (y.latch # 0 /\ y.latch <= n + 1) <=> x.latch # 0
  BY <1>3, <1>5
<1>8. x.events[n].family = j.family /\ (n + 1) - 1 = n
  BY <1>3 DEF LastOf
<1>9. y.events[n + 1] = e /\ y.events[n] = x.events[n] /\ Len(y.events) = n + 1
  BY <1>2, <1>3, <1>5 DEF Extends
<1>10. Rederived(y, n + 1)
  <2>1. j.teardown = (y.latch # 0 /\ y.latch <= n + 1)
    BY <1>7
  <2>2. y.events[n + 1] = [family |-> y.events[(n + 1) - 1].family, stage |-> Outcome(j),
                           proof |-> ProofOf(j)]
    BY <1>8, <1>9 DEF e
  <2> QED
    BY <2>1, <2>2 DEF Rederived
<1>11. ASSUME NEW i \in 1..Len(y.events), i > n PROVE i > 1 /\ Rederived(y, i)
  <2>1. i = n + 1
    BY <1>3, <1>9, <1>11
  <2> QED
    BY <1>3, <1>10, <2>1
<1>12. Replayable(y)
  BY <1>6, <1>11, ReplaysOn
<1> QED
  BY <1>6, <1>9, <1>12 DEF LastOf, y, e

ReplayInv ==
  /\ \A x \in Surviving : Replayable(x)
  /\ \A c \in Controllers :
       at[c] \in {"proof", "record"} => job[c].teardown = (journal.latch # 0)

LEMMA JournalSurvives ==
  ASSUME IInv
  PROVE  /\ journal \in private[Journal].may
         /\ private[Journal].may \subseteq Journals \cup {Absent, Torn}
         /\ Usable(journal) => journal \in Surviving
BY NamesDiffer DEF IInv, DiskOK, Sane, Directory, Usable, Surviving, journal

\* What is written under the lock follows the journal.
LEMMA WritingFollows ==
  ASSUME IInv, ReplayInv, NEW c \in Controllers, Writing(c)
  PROVE  /\ journal \in Journals /\ Replayable(journal)
         /\ Follows(journal', journal) /\ Replayable(journal')
<1>1. Usable(journal) /\ journal \in Journals /\ Replayable(journal)
  BY JournalSurvives, JournalIsTyped DEF Writing, ReplayInv
<1>2. ASSUME NEW f \in Families, Intends(c, f)
      PROVE  Follows(journal', journal) /\ Replayable(journal')
  BY <1>1, <1>2, IntentFollows DEF Intends
<1>3. CASE Latches(c)
  BY <1>1, <1>3, LatchFollows DEF Latches
<1>4. CASE Records(c)
  <2>1. at[c] = "record" /\ journal' = Settled(journal, job[c])
    BY <1>4 DEF Records, Record, Goes
  <2>2. /\ Pending(journal) /\ LastOf(journal).family = job[c].family
        /\ Outcome(job[c]) # "unknown" /\ job[c] \in Jobs
        /\ job[c].teardown = (journal.latch # 0)
    BY <2>1 DEF IInv, FilesTypeOK, Relies, Pends, Durable, ReplayInv
  <2> QED
    BY <1>1, <2>1, <2>2, SettledFollows
<1> QED
  BY <1>1, <1>2, <1>3, <1>4 DEF Writing

----------------------------------------------------------------------------
(***************************************************************************)
(* Who acts, and what the others find unchanged.                           *)
(***************************************************************************)
Works(c) ==
  \/ Prepares(c) \/ Appending(c) \/ Commanding(c) \/ Recovering(c)
  \/ Proving(c) \/ Publishes(c) \/ Dies(c)

Nobody == UNCHANGED <<disk, at, job>>

LEMMA OneMoves ==
  ASSUME IInv, [Next]_vars
  PROVE  \/ \E c \in Controllers : Works(c) /\ Moves(c)
         \/ Nobody
         \/ PowerLoss
<1>1. ASSUME NEW c \in Controllers,
             \/ at' = at
             \/ \E to : at' = [at EXCEPT ![c] = to],
             \/ job' = job
             \/ \E j : job' = [job EXCEPT ![c] = j],
             \/ read' = read
             \/ \E r : read' = [read EXCEPT ![c] = r]
      PROVE  Moves(c)
  BY <1>1 DEF Moves, IInv, FilesTypeOK
<1>2. ASSUME NEW c \in Controllers, Works(c) PROVE Moves(c)
  <2>1. CASE Prepares(c)
    BY <1>1, <2>1 DEF Prepares, CreateInputs, FillInputs, SyncInputs, CreateJournal, FillJournal,
       FillJournalFails, SyncJournal, Goes, OnlyPrivate
  <2>2. CASE Appending(c)
    BY <1>1, <2>2 DEF Appending, IntendSetup, IntendDelete, IntendPublication, SyncIntent, Latch,
       SyncLatch, Appends, Goes, OnlyPrivate
  <2>3. CASE Commanding(c)
    BY <1>1, <2>3 DEF Commanding, Check, Launch, Acts, CommandReturns, SetupFails, Unwinds,
       Goes, disk
  <2>4. CASE Recovering(c)
    <3>1. CASE Observe(c) \/ Cleanup(c)
      <4>1. \A d \in Controllers \ {c} : job'[d] = job[d]
        <5>1. CASE Observe(c)
          <6>1. PICK s \in {Sight(LastOf(journal).family), "unreadable"} :
                  job' = [job EXCEPT ![c].family = LastOf(journal).family, ![c].saw = s,
                                     ![c].teardown = (journal.latch # 0)]
            BY <5>1 DEF Observe
          <6> QED
            BY <6>1 DEF IInv, FilesTypeOK
        <5> QED
          BY <3>1, <5>1 DEF Cleanup, IInv, FilesTypeOK
      <4>2. \E to : at' = [at EXCEPT ![c] = to]
        BY <3>1 DEF Observe, Cleanup, Goes
      <4>3. UNCHANGED read
        BY <3>1 DEF Observe, Cleanup, disk
      <4> QED
        BY <4>1, <4>2, <4>3 DEF Moves, IInv, FilesTypeOK
    <3>2. CASE ~(Observe(c) \/ Cleanup(c))
      BY <1>1, <2>4, <3>2 DEF Recovering, BeginRecover, NothingPending, LatchedAlready,
         NothingToAdvance, Undecided, PublicationRefused, Unwinds, Goes, disk
    <3> QED
      BY <3>1, <3>2
  <2>5. CASE Proving(c)
    BY <1>1, <2>5 DEF Proving, Prove, ProveRefused, SyncProof, Record, SyncTerminal, Decided,
       Unwinds, Goes, disk
  <2>6. CASE Publishes(c) \/ Dies(c)
    BY <1>1, <2>6 DEF Publishes, Stage, FillStaging, Rename, SyncPublic, PublishFails, OnlyPublic,
       Goes, Dies
  <2> QED
    BY <1>2, <2>1, <2>2, <2>3, <2>4, <2>5, <2>6 DEF Works
<1>3. (\E f \in orphans : OrphanActs(f)) \/ UNCHANGED vars => Nobody
  BY DEF OrphanActs, vars, Nobody
<1> QED
  BY <1>2, <1>3 DEF Next, Works

\* Nobody writes the journal while another holds the lock.
LEMMA LockedJournal ==
  ASSUME IInv, [Next]_vars, NEW c \in Controllers, c \in lock, Usable(journal)
  PROVE  journal' = journal \/ Record(c) \/ PowerLoss
<1>1. ASSUME NEW d \in Controllers, Writing(d) PROVE Record(c)
  <2>1. Record(d)
    BY <1>1 DEF Writing, Intends, Latches, Records, Appends, Latch, Replace
  <2>2. d \in lock
    BY <2>1 DEF Record, Goes, IInv, Locking, LockedPlaces
  <2> QED
    BY <2>1, <2>2 DEF IInv, Locking
<1> QED
  BY <1>1, JournalMoves DEF Keeping, Beginning, Losing

LEMMA ProofPlaces ==
  ASSUME IInv, [Next]_vars, NEW c \in Controllers, at'[c] \in {"proof", "record"}
  PROVE  /\ journal' = journal /\ job'[c] = job[c]
         /\ Prove(c) \/ at[c] \in {"proof", "record"}
<1>1. CASE PowerLoss
  BY <1>1 DEF PowerLoss
<1>2. ASSUME at[c] \in {"proof", "record"}, job'[c] = job[c], ~Record(c), ~PowerLoss
      PROVE  /\ journal' = journal /\ job'[c] = job[c]
             /\ Prove(c) \/ at[c] \in {"proof", "record"}
  BY <1>2, LockedJournal DEF IInv, Relies, Pends, Locking, LockedPlaces
<1>3. at \in [Controllers -> Places] /\ job \in [Controllers -> Jobs]
  BY DEF IInv, FilesTypeOK
<1>4. ~Record(c)
  BY <1>3 DEF Record, Goes
<1>5. CASE Works(c)
  <2>1. CASE Prove(c)
    <3>1. journal' = journal
      BY <2>1, <1>3, PublishedProofStays DEF Prove
    <3> QED
      BY <2>1, <3>1 DEF Prove
  <2>2. CASE SyncProof(c)
    BY <1>1, <1>2, <1>4, <2>2 DEF SyncProof, Decided, Goes
  <2>3. ASSUME \E to \in Places \ {"proof", "record"} : at' = [at EXCEPT ![c] = to]
        PROVE  FALSE
    BY <1>3, <2>3
  <2>4. ~Prepares(c)
    BY <2>3 DEF Prepares, CreateInputs, FillInputs, SyncInputs, CreateJournal, FillJournal,
       FillJournalFails, SyncJournal, Goes, Places, Preparing
  <2>5. ~Appending(c)
    <3>1. job[c].family \in Families
      BY <1>3 DEF Jobs
    <3>2. First[job[c].family] \in {"check", "look", "staging"}
      BY <3>1 DEF First, Families
    <3> QED
      BY <2>3, <3>2 DEF Appending, IntendSetup, IntendDelete, IntendPublication, SyncIntent,
         Latch, SyncLatch, Goes, Places, Publishing
  <2>6. Commanding(c) => Acts(c)
    BY <2>3 DEF Commanding, Check, Launch, CommandReturns, SetupFails, Unwinds, Goes, Places
  <2>7. CASE Acts(c)
    BY <1>1, <1>2, <1>4, <2>7 DEF Acts
  <2>8. ~Recovering(c)
    BY <2>3 DEF Recovering, BeginRecover, Observe, NothingPending, LatchedAlready,
       NothingToAdvance, Cleanup, Undecided, PublicationRefused, Unwinds, Goes, Places
  <2>9. ~ProveRefused(c) /\ ~SyncTerminal(c)
    BY <2>3 DEF ProveRefused, SyncTerminal, Onward, Unwinds, Goes, Places
  <2>10. ~Publishes(c) /\ ~Dies(c)
    BY <2>3 DEF Publishes, Stage, FillStaging, Rename, SyncPublic, PublishFails, Goes, Dies,
       Places, Publishing
  <2> QED
    BY <1>4, <1>5, <2>1, <2>2, <2>4, <2>5, <2>6, <2>7, <2>8, <2>9, <2>10 DEF Works, Proving
<1>6. CASE (\E d \in Controllers : Moves(d) /\ d # c) \/ Nobody
  BY <1>1, <1>2, <1>4, <1>6 DEF Moves, Nobody
<1> QED
  BY <1>1, <1>5, <1>6, OneMoves

LEMMA ReplayStep ==
  ASSUME IInv, ReplayInv, [Next]_vars
  PROVE  ReplayInv'
<1>1. ASSUME NEW x \in Surviving' PROVE Replayable(x)
  <2>1. CASE x \in Surviving
    BY <2>1 DEF ReplayInv
  <2>2. CASE x \notin Surviving
    <3>1. /\ x = journal' /\ x \notin {Absent, Torn}
          /\ Beginning \/ \E c \in Controllers : Writing(c)
      BY <1>1, <2>2, JournalMoves DEF Surviving, Keeping, Losing, Beginning, Writing
    <3>2. CASE Beginning
      BY <3>1, <3>2 DEF Beginning, NewJournal, Replayable, Bounded
    <3> QED
      BY <3>1, <3>2, WritingFollows
  <2> QED
    BY <2>1, <2>2
<1>2. ASSUME NEW c \in Controllers, at'[c] \in {"proof", "record"}
      PROVE  job'[c].teardown = (journal'.latch # 0)
  <2>1. journal' = journal /\ job'[c] = job[c]
    BY <1>2, ProofPlaces
  <2>2. job[c].teardown = (journal.latch # 0)
    BY <1>2, ProofPlaces DEF ReplayInv, Prove, Current
  <2> QED
    BY <2>1, <2>2
<1> QED
  BY <1>1, <1>2 DEF ReplayInv

----------------------------------------------------------------------------
(***************************************************************************)
(* The journal is a log: V3B2Files implements DurableLog.                  *)
(***************************************************************************)
\* Whatever journal is found holds a beginning of the log, and all of it that was
\* acknowledged.
LogHolds ==
  /\ acked \in Nat
  /\ \A x \in private[Journal].may :
       StartOf(Writes(x), Writes(journal)) /\ acked <= Len(Writes(x))

LEMMA WritesOfNothing ==
  ASSUME NEW x \in {Absent, Torn, NewJournal}
  PROVE  Writes(x) = <<>>
BY DEF Writes, Usable, NewJournal

LEMMA WritesAreWrites ==
  ASSUME IInv, ReplayInv, NEW x \in private[Journal].may
  PROVE  Writes(x) \in Seq(Entries)
<1>1. CASE x \in {Absent, Torn}
  <2>1. x \in {Absent, Torn, NewJournal}
    BY <1>1
  <2>2. Writes(x) = <<>>
    BY <2>1, WritesOfNothing
  <2>3. <<>> \in Seq(Entries)
    OBVIOUS
  <2> QED
    BY <2>2, <2>3
<1>2. CASE x \notin {Absent, Torn}
  <2>1. x \in Journals /\ x \in Surviving
    BY <1>2, JournalSurvives DEF Surviving
  <2> QED
    BY <2>1, WritesEntries DEF ReplayInv, Replayable
<1> QED
  BY <1>1, <1>2

\* Only what is all there is gets acknowledged.
LEMMA Acknowledges ==
  ASSUME IInv, [Next]_vars
  PROVE  \/ acked' = acked
         \/ /\ acked' = Len(Writes(journal))
            /\ journal' = journal /\ private'[Journal].may = {journal}
<1>1. ASSUME NEW c \in Controllers, Return(c)
      PROVE  /\ acked' = Len(Writes(journal))
             /\ journal' = journal /\ private'[Journal].may = {journal}
  BY <1>1, SyncedStays, NamesDiffer DEF Return, journal
<1>2. ASSUME NEW c \in Controllers, Works(c) PROVE acked' = acked \/ Return(c)
  <2>1. CASE Prepares(c)
    BY <2>1 DEF Prepares, CreateInputs, FillInputs, SyncInputs, CreateJournal, FillJournal,
       FillJournalFails, SyncJournal
  <2>2. CASE Appending(c)
    BY <2>2 DEF Appending, IntendSetup, IntendDelete, IntendPublication, SyncIntent, Latch,
       SyncLatch, Appends
  <2>3. CASE Commanding(c)
    BY <2>3 DEF Commanding, Check, Launch, Acts, CommandReturns, SetupFails, Unwinds, disk
  <2>4. CASE Recovering(c)
    BY <2>4 DEF Recovering, BeginRecover, Observe, NothingPending, LatchedAlready,
       NothingToAdvance, Cleanup, Undecided, PublicationRefused, Unwinds, disk
  <2>5. CASE Proving(c)
    BY <2>5 DEF Proving, Prove, ProveRefused, SyncProof, Record, SyncTerminal, Unwinds, disk
  <2>6. CASE Publishes(c) \/ Dies(c)
    BY <2>6 DEF Publishes, Stage, FillStaging, Rename, SyncPublic, PublishFails, OnlyPublic, Dies
  <2> QED
    BY <1>2, <2>1, <2>2, <2>3, <2>4, <2>5, <2>6 DEF Works
<1>3. PowerLoss \/ Nobody => acked' = acked
  BY DEF PowerLoss, Nobody, disk
<1> QED
  BY <1>1, <1>2, <1>3, OneMoves

LEMMA LogStep ==
  ASSUME IInv, ReplayInv, LogHolds, [Next]_vars
  PROVE  LogHolds'
<1>1. journal \in private[Journal].may /\ acked \in Nat /\ acked <= Len(Writes(journal))
  BY JournalSurvives DEF LogHolds
<1>2. \A x \in private[Journal].may : Len(Writes(x)) \in Nat
  BY WritesAreWrites
<1>3. CASE /\ acked' = Len(Writes(journal))
           /\ journal' = journal /\ private'[Journal].may = {journal}
  BY <1>1, <1>2, <1>3 DEF LogHolds, StartOf
<1>4. CASE acked' = acked
  <2>1. CASE Keeping
    BY <1>4, <2>1 DEF Keeping, LogHolds
  <2>2. CASE Losing
    BY <1>2, <1>4, <2>2 DEF Losing, LogHolds, StartOf
  <2>3. CASE Beginning
    <3>1. Writes(journal) = <<>> /\ Writes(journal') = <<>>
      <4>1. Writes(journal) = <<>>
        BY <2>3 DEF Beginning, Writes
      <4>2. PICK y : y = journal' /\ y \in {Absent, Torn, NewJournal}
        BY <2>3 DEF Beginning
      <4>3. Writes(y) = <<>>
        BY <4>2, WritesOfNothing
      <4> QED
        BY <4>1, <4>2, <4>3
    <3>2. acked = 0
      BY <1>1, <3>1
    <3>3. \A x \in private'[Journal].may : Writes(x) = <<>> \/ x \in private[Journal].may
      BY <2>3, <3>1 DEF Beginning
    <3>4. ASSUME NEW x \in private'[Journal].may
          PROVE  StartOf(Writes(x), Writes(journal')) /\ acked' <= Len(Writes(x))
      BY <1>2, <1>4, <3>1, <3>2, <3>3 DEF LogHolds, StartOf
    <3> QED
      BY <1>1, <1>4, <3>4 DEF LogHolds
  <2>4. ASSUME NEW c \in Controllers, Writing(c) PROVE LogHolds'
    <3>1. PICK y : y = journal'
      OBVIOUS
    <3>2. StartOf(Writes(journal), Writes(y)) /\ Len(Writes(y)) > Len(Writes(journal))
      BY <2>4, <3>1, WritingFollows, WritesGrow DEF Replayable
    <3>3. private'[Journal].may = private[Journal].may \cup {y}
      BY <2>4, <3>1 DEF Writing
    <3>4. Len(Writes(y)) \in Nat
      <4>1. y \in Journals /\ Bounded(y)
        BY <2>4, <3>1, WritingFollows DEF Follows, Extends
      <4> QED
        BY <4>1, WritesEntries
    <3>5. ASSUME NEW x \in private[Journal].may
          PROVE  StartOf(Writes(x), Writes(y)) /\ acked <= Len(Writes(x))
      <4>1. StartOf(Writes(x), Writes(journal)) /\ acked <= Len(Writes(x))
        BY DEF LogHolds
      <4> QED
        BY <1>1, <1>2, <3>2, <3>4, <4>1 DEF StartOf
    <3>6. StartOf(Writes(y), Writes(y)) /\ acked <= Len(Writes(y))
      BY <1>1, <1>2, <3>2, <3>4 DEF StartOf
    <3> QED
      BY <1>1, <1>4, <3>1, <3>3, <3>5, <3>6 DEF LogHolds
  <2> QED
    BY <2>1, <2>2, <2>3, <2>4, JournalMoves
<1> QED
  BY <1>3, <1>4, Acknowledges

\* A beginning of a sequence is what SubSeq takes of it.
LEMMA StartIsSubSeq ==
  ASSUME NEW S, NEW s \in Seq(S), NEW t \in Seq(S), StartOf(s, t)
  PROVE  s = SubSeq(t, 1, Len(s))
<1> DEFINE n == Len(s)
           u == SubSeq(t, 1, n)
<1>1. n \in Nat /\ n <= Len(t) /\ \A i \in 1..n : s[i] = t[i] /\ t[i] \in S
  BY DEF StartOf
<1>2. /\ u \in Seq(S) /\ Len(u) = IF 1 <= n THEN n - 1 + 1 ELSE 0
      /\ \A i \in 1..n - 1 + 1 : u[i] = t[1 + i - 1]
  BY <1>1, SubSeqProperties
<1> HIDE DEF u
<1>3. Len(u) = Len(s) /\ \A i \in 1..Len(s) : s[i] = u[i]
  BY <1>1, <1>2
<1>4. s = u
  BY <1>2, <1>3, SeqEqual
<1> QED
  BY <1>4 DEF u

LEMMA LogImplemented ==
  ASSUME IInv, ReplayInv, LogHolds, [Next]_vars
  PROVE  [Log!Write \/ Log!Acknowledge \/ Log!PowerLoss]_<<Writes(journal), acked>>
<1>1. journal \in private[Journal].may /\ acked \in Nat /\ acked <= Len(Writes(journal))
  BY JournalSurvives DEF LogHolds
<1>2. \A x \in private[Journal].may : Writes(x) \in Seq(Entries) /\ Len(Writes(x)) \in Nat
  BY WritesAreWrites
<1>3. CASE acked' = Len(Writes(journal)) /\ journal' = journal
  <2>1. Writes(journal') = Writes(journal)
    BY <1>3
  <2>2. acked' \in acked..Len(Writes(journal))
    BY <1>1, <1>2, <1>3
  <2> QED
    BY <2>1, <2>2 DEF Log!Acknowledge
<1>4. CASE acked' = acked
  <2>1. PICK y : y = journal'
    OBVIOUS
  <2>2. CASE Keeping \/ Beginning
    <3>1. Writes(y) = Writes(journal)
      <4>1. CASE Keeping
        BY <2>1, <4>1 DEF Keeping
      <4>2. CASE Beginning
        <5>1. Writes(journal) = <<>> /\ y \in {Absent, Torn, NewJournal}
          BY <2>1, <4>2 DEF Beginning, Writes
        <5> QED
          BY <5>1, WritesOfNothing
      <4> QED
        BY <2>2, <4>1, <4>2
    <3> QED
      BY <1>4, <2>1, <3>1
  <2>3. CASE Losing
    <3>1. y \in private[Journal].may
      BY <2>1, <2>3 DEF Losing
    <3>2. StartOf(Writes(y), Writes(journal)) /\ acked <= Len(Writes(y))
      BY <3>1 DEF LogHolds
    <3>3. Writes(y) = SubSeq(Writes(journal), 1, Len(Writes(y)))
      BY <1>1, <1>2, <3>1, <3>2, StartIsSubSeq
    <3>4. Len(Writes(y)) \in acked..Len(Writes(journal))
      BY <1>1, <1>2, <3>1, <3>2 DEF StartOf
    <3> QED
      BY <1>4, <2>1, <3>3, <3>4 DEF Log!PowerLoss
  <2>4. ASSUME NEW c \in Controllers, Writing(c)
        PROVE  Log!Write
    <3>1. StartOf(Writes(journal), Writes(y)) /\ Len(Writes(y)) > Len(Writes(journal))
      BY <2>1, <2>4, WritingFollows, WritesGrow DEF Replayable
    <3>2. Writes(y) \in Seq(Entries)
      <4>1. y \in Journals /\ Bounded(y)
        BY <2>1, <2>4, WritingFollows DEF Follows, Extends
      <4> QED
        BY <4>1, WritesEntries
    <3>3. Writes(journal) = SubSeq(Writes(y), 1, Len(Writes(journal)))
      BY <1>1, <1>2, <3>1, <3>2, StartIsSubSeq
    <3>4. StartOf(Writes(journal), Writes(journal))
      BY <1>1, <1>2 DEF StartOf
    <3>5. Writes(journal) = SubSeq(Writes(journal), 1, Len(Writes(journal)))
      BY <1>1, <1>2, <3>4, StartIsSubSeq
    <3>6. Len(Writes(journal)) <= Len(Writes(y)) /\ Writes(journal) # Writes(y)
      BY <1>1, <1>2, <3>1, <3>2
    <3>7. Log!IsStrictPrefix(Writes(journal), Writes(y))
      BY <3>3, <3>5, <3>6 DEF Log!IsStrictPrefix, Log!IsPrefix
    <3> QED
      BY <1>4, <2>1, <3>7 DEF Log!Write
  <2> QED
    BY <2>2, <2>3, <2>4, JournalMoves
<1> QED
  BY <1>3, <1>4, Acknowledges

LEMMA LogInitially ==
  ASSUME Init
  PROVE  ReplayInv /\ LogHolds /\ Log!LogInit
<1>1. private[Journal] = [seen |-> Absent, may |-> {Absent}]
  BY NamesDiffer DEF Init, Empty
<1>2. journal = Absent /\ Surviving = {} /\ acked = 0
  BY <1>1 DEF Init, journal, Surviving
<1>3. Writes(Absent) = <<>>
  BY WritesOfNothing
<1> QED
  BY <1>1, <1>2, <1>3 DEF Init, ReplayInv, LogHolds, StartOf, Log!LogInit

LEMMA ReplayInductive == Spec => [](ReplayInv /\ LogHolds)
<1>1. Init => ReplayInv /\ LogHolds
  BY LogInitially
<1>2. IInv /\ (ReplayInv /\ LogHolds) /\ [Next]_vars => (ReplayInv /\ LogHolds)'
  BY ReplayStep, LogStep
<1> QED
  BY <1>1, <1>2, Inductive, PTL DEF Spec

(***************************************************************************)
(* Whatever journal is found, each proof says of teardown what the journal *)
(* says of it by its latch (expected_context), so it can be rederived.     *)
(***************************************************************************)
THEOREM ProofsAgree == Spec => []ProofsReplay
<1>1. ReplayInv => ProofsReplay
  BY DEF ReplayInv, Replayable, ProofsReplay
<1> QED
  BY <1>1, ReplayInductive, PTL

(***************************************************************************)
(* However many controllers write the journal, die and lose power: it is a *)
(* log, and what was acknowledged stays (_replace_journal).                *)
(***************************************************************************)
THEOREM JournalIsALog == Spec => KeepsTheLog
<1>1. Init => Log!LogInit
  BY LogInitially
<1>2. IInv /\ (ReplayInv /\ LogHolds) /\ [Next]_vars
        => [Log!Write \/ Log!Acknowledge \/ Log!PowerLoss]_<<Writes(journal), acked>>
  BY LogImplemented
<1> QED
  BY <1>1, <1>2, Inductive, ReplayInductive, PTL DEF Spec, KeepsTheLog, Log!LogSpec

----------------------------------------------------------------------------
(***************************************************************************)
(* The one controller that goes forward, and the bundle it publishes.      *)
(***************************************************************************)
PublicNames == {Staging, Bundle}
PublicContents == {Absent, Torn, Whole}

Begun(x) == Usable(x) /\ x.events # <<>>
Published(x) ==
  /\ Usable(x) /\ x.events # <<>>
  /\ LastOf(x).family = "publication" /\ LastOf(x).stage = "complete"

\* What is behind a controller: the journal it goes forward on,
Leads(c) ==
  /\ job[c].forward => Begun(journal)
  /\ at[c] \in Publishing \cup {"publish"} => job[c].forward
  /\ at[c] = "intent" => /\ Begun(journal)
                         /\ LastOf(journal).family = job[c].family
                         /\ job[c].family = "publication" => job[c].forward
  /\ at[c] = "terminal" => /\ Begun(journal)
                           /\ LastOf(journal).family = job[c].family
                           /\ LastOf(journal).stage = Outcome(job[c])
                           /\ Outcome(job[c]) # "unknown"
  /\ at[c] \in {"intent", "check", "launch"} /\ job[c].family = "setup" =>
       job[c].forward /\ "setup" \notin sent

\* and the bundle it has published.
Ships(c) ==
  /\ at[c] = "rename" => public[Staging].may \subseteq {Absent, Whole}
                         /\ public[Staging].seen = Whole
  /\ at[c] = "renamed" => public[Bundle].seen = Whole
  /\ job[c].forward /\ LastOf(journal).family = "publication"
       /\ at[c] \notin Publishing \cup {"intent"} => public[Bundle].may = {Whole}

OneForward == \A c, d \in Controllers : job[c].forward /\ job[d].forward => c = d

PublicOK ==
  /\ public \in Directory(PublicNames, PublicContents) /\ Sane(public)
  /\ told \in BOOLEAN

ForwardInv ==
  /\ PublicOK
  /\ OneForward
  /\ \A c \in Controllers : Leads(c) /\ Ships(c)
  /\ PublishedIsDurable

----------------------------------------------------------------------------
\* A journal with events, after a step of the controllers.
LEMMA BegunStays ==
  ASSUME IInv, ReplayInv, [Next]_vars, ~PowerLoss, Begun(journal)
  PROVE  /\ Begun(journal')
         /\ \/ LastOf(journal').family = LastOf(journal).family
            \/ \E d \in Controllers, f \in Families : Intends(d, f)
         /\ Published(journal) => Published(journal')
<1>1. Usable(journal) /\ journal.events # <<>> /\ journal \in Journals
  BY JournalIsTyped DEF Begun
<1>2. CASE Keeping \/ Beginning \/ Losing
  <2>1. journal' = journal
    BY <1>1, <1>2 DEF Keeping, Beginning, Losing
  <2> QED
    BY <2>1
<1>3. ASSUME NEW c \in Controllers, Writing(c)
      PROVE  /\ Begun(journal')
             /\ \/ LastOf(journal').family = LastOf(journal).family
                \/ \E d \in Controllers, f \in Families : Intends(d, f)
             /\ Published(journal) => Published(journal')
  <2>1. PICK y : y = journal'
    OBVIOUS
  <2>2. y \in Journals /\ Usable(y) /\ y.events # <<>>
    <3>1. Follows(y, journal)
      BY <1>3, <2>1, WritingFollows
    <3>2. /\ y \in Journals /\ Len(y.events) >= Len(journal.events)
          /\ Len(journal.events) > 0 /\ Len(y.events) \in Nat
      BY <1>1, <3>1 DEF Follows, Extends, Journals
    <3> QED
      BY <3>2, JournalsAreUsable
  <2>3. ASSUME NEW f \in Families, Intends(c, f) PROVE ~Published(journal)
    BY <2>3 DEF Intends, Admitted, Published, Families
  <2>4. CASE Latches(c)
    <3>1. y.events = journal.events
      BY <1>1, <2>1, <2>4 DEF Latches, Latched, Journals
    <3>2. LastOf(y) = LastOf(journal)
      BY <3>1 DEF LastOf
    <3> QED
      BY <2>1, <2>2, <3>2 DEF Begun, Published
  <2>5. CASE Records(c)
    <3>1. at[c] = "record" /\ y = Settled(journal, job[c])
      BY <2>1, <2>5 DEF Records, Record, Goes
    <3>2. /\ Pending(journal) /\ LastOf(journal).family = job[c].family
          /\ Outcome(job[c]) # "unknown" /\ job[c] \in Jobs
          /\ job[c].teardown = (journal.latch # 0)
      BY <3>1 DEF IInv, FilesTypeOK, Relies, Pends, Durable, ReplayInv
    <3>3. LastOf(y).family = job[c].family
      BY <1>1, <1>3, <3>1, <3>2, WritingFollows, SettledFollows
    <3>4. ~Published(journal)
      BY <3>2 DEF Pending, Published
    <3> QED
      BY <2>1, <2>2, <3>2, <3>3, <3>4 DEF Begun
  <2> QED
    BY <1>3, <2>1, <2>2, <2>3, <2>4, <2>5 DEF Writing, Begun
<1> QED
  BY <1>2, <1>3, JournalMoves

\* What is in flight is started by a launch, which says that it was sent.
LEMMA SentMoves ==
  ASSUME IInv, [Next]_vars
  PROVE  \/ sent' = sent
         \/ \E d \in Controllers : Launch(d) /\ sent' = sent \cup {job[d].family}
<1>1. ASSUME NEW d \in Controllers, Works(d) PROVE sent' = sent \/ Launch(d)
  BY <1>1 DEF Works, Prepares, CreateInputs, FillInputs, SyncInputs, CreateJournal, FillJournal,
     FillJournalFails, SyncJournal, Appending, IntendSetup, IntendDelete, IntendPublication,
     SyncIntent, Latch, SyncLatch, Appends, OnlyPrivate, Commanding, Check, Acts,
     CommandReturns, SetupFails, Unwinds, Recovering, BeginRecover, Observe, NothingPending,
     LatchedAlready, NothingToAdvance, Cleanup, Undecided, PublicationRefused, Proving,
     Prove, ProveRefused, SyncProof, Record, SyncTerminal, Publishes, Stage, FillStaging,
     Rename, SyncPublic, PublishFails, OnlyPublic, Dies, host
<1>2. (\E f \in orphans : OrphanActs(f)) \/ PowerLoss \/ UNCHANGED vars => sent' = sent
  BY DEF OrphanActs, PowerLoss, vars, host
<1> QED
  BY <1>1, <1>2 DEF Next, Works, Launch

\* A command is sent by the only controller that goes forward.
LEMMA SetupUnsent ==
  ASSUME IInv, ForwardInv, [Next]_vars, NEW c \in Controllers,
         job[c].forward, "setup" \notin sent, ~Launch(c)
  PROVE  "setup" \notin sent'
<1>1. ASSUME NEW d \in Controllers, Launch(d), job[d].family = "setup" PROVE FALSE
  <2>1. at[d] = "launch"
    BY <1>1 DEF Launch, Goes
  <2>2. job[d].forward
    BY <1>1, <2>1 DEF ForwardInv, Leads
  <2> QED
    BY <1>1, <2>2 DEF ForwardInv, OneForward
<1> QED
  BY <1>1, SentMoves

----------------------------------------------------------------------------
(***************************************************************************)
(* What each step does to what is behind a controller.                     *)
(***************************************************************************)
\* The journal of one that waits with the lock stays.
LEMMA WaitingLeads ==
  ASSUME IInv, ReplayInv, ForwardInv, [Next]_vars, NEW c \in Controllers,
         ~PowerLoss, at'[c] = at[c], job'[c] = job[c], ~Launch(c)
  PROVE  Leads(c)'
<1>1. Leads(c)
  BY DEF ForwardInv
<1>2. job[c].forward => Begun(journal')
  BY <1>1, BegunStays DEF Leads
<1>3. at[c] \in {"intent", "terminal"} => journal' = journal
  <2>1. ~Record(c)
    BY DEF Record, Goes, IInv, FilesTypeOK
  <2> QED
    BY <1>1, <2>1, LockedJournal DEF Leads, Begun, IInv, Locking, LockedPlaces
<1>4. job[c].forward /\ "setup" \notin sent => "setup" \notin sent'
  BY SetupUnsent
<1> QED
  BY <1>1, <1>2, <1>3, <1>4 DEF Leads

\* One that goes where nothing is asked of it.
Unasked == Places \ ({"intent", "check", "launch", "terminal", "publish"} \cup Publishing)

LEMMA UnaskedLeads ==
  ASSUME IInv, ReplayInv, ForwardInv, [Next]_vars, NEW c \in Controllers,
         ~PowerLoss, at'[c] \in Unasked, job'[c].forward => job[c].forward
  PROVE  Leads(c)'
<1>1. job[c].forward => Begun(journal')
  BY BegunStays DEF ForwardInv, Leads
<1> QED
  BY <1>1 DEF Leads, Unasked

LEMMA IntendLeads ==
  ASSUME IInv, ReplayInv, ForwardInv, [Next]_vars, NEW c \in Controllers,
         IntendSetup(c) \/ IntendDelete(c) \/ IntendPublication(c)
  PROVE  Leads(c)'
<1>1. PICK f \in Families, forward \in BOOLEAN :
        /\ Appends(c, f, forward) /\ at'[c] = "intent"
        /\ f \in {"setup", "publication"} => forward
  <2>1. job[c].forward \in BOOLEAN /\ at \in [Controllers -> Places]
    BY DEF IInv, FilesTypeOK, Jobs
  <2>2. Families = {"setup", "delete", "publication"}
    BY DEF Families
  <2>3. CASE IntendSetup(c)
    <3>1. Appends(c, "setup", TRUE) /\ at'[c] = "intent"
      BY <2>1, <2>3 DEF IntendSetup, Goes
    <3> QED
      BY <2>2, <3>1
  <2>4. CASE IntendDelete(c)
    <3>1. Appends(c, "delete", job[c].forward) /\ at'[c] = "intent"
      BY <2>1, <2>4 DEF IntendDelete, Goes
    <3> QED
      BY <2>1, <2>2, <3>1
  <2>5. CASE IntendPublication(c)
    <3>1. Appends(c, "publication", TRUE) /\ at'[c] = "intent"
      BY <2>1, <2>5 DEF IntendPublication, Goes
    <3> QED
      BY <2>2, <3>1
  <2> QED
    BY <2>3, <2>4, <2>5
<1>2. /\ Admitted(journal, f) /\ Usable(journal) /\ UNCHANGED sent
      /\ private' = Stored(private, Journal, With(journal, Intent(f)))
      /\ job' = [job EXCEPT ![c] = [Idle EXCEPT !.family = f, !.forward = forward]]
  BY <1>1 DEF Appends, Replace, Loads, OnlyPrivate, host
<1>3. journal \in Journals
  BY <1>2, JournalIsTyped
<1> DEFINE y == With(journal, Intent(f))
<1>4. y \in Journals /\ Len(y.events) = Len(journal.events) + 1
      /\ y.events[Len(journal.events) + 1] = Intent(f)
  BY <1>3, WithExtends, IntentIsEvent DEF Extends
<1>5. journal' = y
  BY <1>2, <1>4, StoredJournal DEF Contents
<1> HIDE DEF y
<1>6. Begun(y) /\ LastOf(y) = Intent(f)
  <2>1. Len(journal.events) \in Nat
    BY <1>3 DEF Journals
  <2> QED
    BY <1>4, <2>1, JournalsAreUsable DEF Begun, LastOf
<1>7. job'[c].family = f /\ job'[c].forward = forward
  BY <1>2 DEF IInv, FilesTypeOK, Idle
<1>8. f = "setup" => "setup" \notin sent
  <2> SUFFICES ASSUME f = "setup", "setup" \in sent PROVE FALSE
    OBVIOUS
  <2>1. journal.events = <<>>
    BY <1>2 DEF Admitted
  <2>2. Holds(journal, "setup")
    BY JournalSurvives DEF IInv, MutationIsRecorded
  <2> QED
    BY <2>1, <2>2 DEF Holds
<1> QED
  BY <1>1, <1>2, <1>5, <1>6, <1>7, <1>8 DEF Leads, Publishing, Intent

LEMMA SyncIntentLeads ==
  ASSUME IInv, ReplayInv, ForwardInv, [Next]_vars, NEW c \in Controllers, SyncIntent(c)
  PROVE  Leads(c)'
<1>1. /\ at[c] = "intent" /\ at'[c] = First[job[c].family]
      /\ job' = job /\ sent' = sent /\ journal' = journal
  BY SyncedStays DEF SyncIntent, Goes, Return, OnlyPrivate, host, IInv, FilesTypeOK
<1>2. Leads(c) /\ job[c].family \in Families
  BY DEF ForwardInv, IInv, FilesTypeOK, Jobs
<1> QED
  BY <1>1, <1>2 DEF Leads, First, Families, Publishing

LEMMA RecordLeads ==
  ASSUME IInv, ReplayInv, ForwardInv, [Next]_vars, NEW c \in Controllers, Record(c)
  PROVE  Leads(c)'
<1>1. /\ at[c] = "record" /\ at'[c] = "terminal" /\ job' = job
      /\ private' = Stored(private, Journal, Settled(read[c], job[c]))
  BY DEF Record, Goes, IInv, FilesTypeOK
<1>2. /\ Usable(journal) /\ read[c] = journal
      /\ Pending(journal) /\ LastOf(journal).family = job[c].family
      /\ Outcome(job[c]) # "unknown" /\ job[c] \in Jobs
      /\ job[c].teardown = (journal.latch # 0)
  BY <1>1 DEF IInv, FilesTypeOK, Relies, Pends, Durable, ReplayInv
<1>3. journal \in Journals /\ Replayable(journal)
  BY <1>2, JournalIsTyped, JournalSurvives DEF ReplayInv
<1> DEFINE y == Settled(journal, job[c])
<1>4. /\ y \in Journals /\ Len(y.events) >= Len(journal.events)
      /\ LastOf(y) = [family |-> job[c].family, stage |-> Outcome(job[c]),
                      proof |-> ProofOf(job[c])]
  BY <1>2, <1>3, SettledFollows DEF Follows, Extends, Journals
<1>5. journal' = y
  BY <1>1, <1>2, <1>4, StoredJournal DEF Contents
<1> HIDE DEF y
<1>6. Begun(y)
  <2>1. Len(journal.events) \in Nat /\ Len(journal.events) > 0
    BY <1>2, <1>3 DEF Journals, Pending
  <2> QED
    BY <1>4, <2>1, JournalsAreUsable DEF Begun
<1> QED
  BY <1>1, <1>2, <1>4, <1>5, <1>6 DEF Leads, Publishing

LEMMA SyncTerminalLeads ==
  ASSUME IInv, ReplayInv, ForwardInv, [Next]_vars, NEW c \in Controllers, SyncTerminal(c)
  PROVE  Leads(c)' /\ journal' = journal /\ (job'[c].forward => job[c].forward)
<1>1. /\ at[c] = "terminal" /\ at'[c] = Onward(job[c])
      /\ job'[c].forward = (job[c].forward /\ Outcome(job[c]) = "complete"
                              /\ job[c].family # "publication")
      /\ journal' = journal
  BY SyncedStays DEF SyncTerminal, Goes, Return, IInv, FilesTypeOK, Idle
<1>2. Leads(c)
  BY DEF ForwardInv
<1>3. /\ Onward(job[c]) \in {"latch", "advance", "publish", "idle"}
      /\ Onward(job[c]) = "publish" =>
           job[c].forward /\ Outcome(job[c]) = "complete" /\ job[c].family = "delete"
  BY DEF Onward
<1> QED
  BY <1>1, <1>2, <1>3 DEF Leads, Publishing

LEMMA LeadsStep ==
  ASSUME IInv, ReplayInv, ForwardInv, [Next]_vars, NEW c \in Controllers
  PROVE  Leads(c)'
<1>1. at \in [Controllers -> Places] /\ job \in [Controllers -> Jobs]
  BY DEF IInv, FilesTypeOK
<1>2. CASE PowerLoss
  BY <1>2 DEF PowerLoss, Idle, Leads, Publishing
<1>3. ASSUME ~PowerLoss, at'[c] = at[c], job'[c] = job[c] PROVE Leads(c)'
  <2>1. ~Launch(c)
    BY <1>1, <1>3 DEF Launch, Goes
  <2> QED
    BY <1>3, <2>1, WaitingLeads
<1>4. ASSUME ~PowerLoss, NEW to \in Unasked, at' = [at EXCEPT ![c] = to],
             \/ job' = job
             \/ job' = [job EXCEPT ![c] = Idle]
             \/ job'[c].forward = job[c].forward
      PROVE  Leads(c)'
  BY <1>1, <1>4, UnaskedLeads DEF Idle
<1>5. ASSUME Works(c), ~PowerLoss PROVE Leads(c)'
  <2>1. CASE Prepares(c)
    BY <1>4, <1>5, <2>1 DEF Prepares, CreateInputs, FillInputs, SyncInputs, CreateJournal,
       FillJournal, FillJournalFails, SyncJournal, Goes, Unasked, Places, Preparing, Publishing
  <2>2. CASE Appending(c)
    BY <1>4, <1>5, <2>2, IntendLeads, SyncIntentLeads
       DEF Appending, Latch, SyncLatch, Goes, OnlyPrivate, Unasked, Places, Publishing
  <2>3. CASE Commanding(c)
    <3>1. CASE Check(c)
      <4>1. /\ at[c] = "check" /\ at'[c] = "launch" /\ job' = job /\ sent' = sent
            /\ journal' = journal
        BY <1>1, <3>1 DEF Check, Goes, disk, host, journal
      <4> QED
        BY <4>1 DEF ForwardInv, Leads, Publishing
    <3>2. CASE Acts(c)
      BY <1>3, <1>5, <3>2 DEF Acts
    <3>3. CASE Launch(c) \/ CommandReturns(c) \/ SetupFails(c)
      BY <1>4, <1>5, <3>3 DEF Launch, CommandReturns, SetupFails, Unwinds, Goes, Unasked,
         Places, Publishing
    <3> QED
      BY <2>3, <3>1, <3>2, <3>3 DEF Commanding
  <2>4. CASE Recovering(c)
    <3>1. CASE Observe(c)
      <4>1. job'[c].forward = job[c].forward
        <5>1. PICK s \in {Sight(LastOf(journal).family), "unreadable"} :
                job' = [job EXCEPT ![c].family = LastOf(journal).family, ![c].saw = s,
                                   ![c].teardown = (journal.latch # 0)]
          BY <3>1 DEF Observe
        <5> QED
          BY <1>1, <5>1 DEF Jobs
      <4> QED
        BY <1>4, <1>5, <3>1, <4>1 DEF Observe, Unasked, Places, Publishing
    <3>2. CASE Cleanup(c)
      <4>1. /\ at'[c] = "check" /\ job'[c].family = "delete" /\ job'[c].forward = job[c].forward
            /\ journal' = journal
        BY <1>1, <3>2 DEF Cleanup, Goes, Repeatable, disk, journal, Jobs
      <4> QED
        BY <4>1 DEF ForwardInv, Leads, Publishing
    <3>3. CASE ~Observe(c) /\ ~Cleanup(c)
      BY <1>4, <1>5, <2>4, <3>3 DEF Recovering, BeginRecover, NothingPending, LatchedAlready,
         NothingToAdvance, Undecided, PublicationRefused, Unwinds, Goes, Unasked, Places,
         Publishing
    <3> QED
      BY <3>1, <3>2, <3>3
  <2>5. CASE Proving(c)
    BY <1>4, <1>5, <2>5, RecordLeads, SyncTerminalLeads
       DEF Proving, Prove, ProveRefused, SyncProof, Decided, Unwinds, Goes, Unasked, Places,
       Publishing
  <2>6. CASE Publishes(c)
    <3>1. CASE Stage(c) \/ FillStaging(c) \/ Rename(c)
      <4>1. /\ at[c] \in Publishing /\ at'[c] \in Publishing /\ job' = job
            /\ journal' = journal
        BY <1>1, <3>1 DEF Stage, FillStaging, Rename, Goes, OnlyPublic, Publishing, journal
      <4> QED
        BY <4>1 DEF ForwardInv, Leads, Publishing
    <3>2. CASE SyncPublic(c) \/ PublishFails(c)
      BY <1>4, <1>5, <3>2 DEF SyncPublic, PublishFails, Goes, OnlyPublic, Unasked, Places,
         Publishing
    <3> QED
      BY <2>6, <3>1, <3>2 DEF Publishes
  <2>7. CASE Dies(c)
    BY <1>4, <1>5, <2>7 DEF Dies, Unasked, Places, Publishing
  <2> QED
    BY <1>5, <2>1, <2>2, <2>3, <2>4, <2>5, <2>6, <2>7 DEF Works
<1>6. CASE Nobody \/ \E d \in Controllers \ {c} : Moves(d)
  BY <1>2, <1>3, <1>6 DEF Nobody, Moves
<1> QED
  BY <1>2, <1>5, <1>6, OneMoves

----------------------------------------------------------------------------
(***************************************************************************)
(* The public parent, which only the one that goes forward changes.        *)
(***************************************************************************)
LEMMA PublicNamesDiffer ==
  Staging \in PublicNames /\ Bundle \in PublicNames /\ Staging # Bundle
BY DEF PublicNames, Staging, Bundle

LEMMA RenamedEntries ==
  ASSUME NEW names, NEW contents, NEW dir \in Directory(names, contents), Sane(dir),
         Absent \in contents, NEW m \in names, NEW n \in names, m # n, dir[m].seen # Absent
  PROVE  LET new == Renamed(dir, m, n)
         IN  /\ new \in Directory(names, contents) /\ Sane(new)
             /\ new[n] = [seen |-> dir[m].seen,
                          may |-> dir[n].may \cup (dir[m].may \ {Absent})]
<1> DEFINE new == Renamed(dir, m, n)
<1>1. /\ dir \in [names -> [seen : contents, may : SUBSET contents]]
      /\ \A o \in names : dir[o].seen \in dir[o].may
  BY DEF Directory, Sane
<1>2. /\ new[n] = [seen |-> dir[m].seen, may |-> dir[n].may \cup (dir[m].may \ {Absent})]
      /\ new[m] = [seen |-> Absent, may |-> dir[m].may \cup {Absent}]
      /\ \A o \in names \ {m, n} : new[o] = dir[o]
  BY <1>1 DEF Renamed
<1>3. new \in Directory(names, contents)
  BY <1>1 DEF Renamed, Directory
<1>4. \A o \in names : new[o].seen \in new[o].may
  BY <1>1, <1>2
<1> QED
  BY <1>2, <1>3, <1>4 DEF Sane, Directory

LEMMA PublicMoves ==
  ASSUME IInv, [Next]_vars
  PROVE  \/ UNCHANGED public
         \/ PowerLoss
         \/ \E d \in Controllers : Publishes(d) /\ Moves(d)
<1>1. ASSUME NEW d \in Controllers, Works(d) PROVE UNCHANGED public \/ Publishes(d)
  BY <1>1 DEF Works, Prepares, CreateInputs, FillInputs, SyncInputs, CreateJournal, FillJournal,
     FillJournalFails, SyncJournal, Appending, IntendSetup, IntendDelete, IntendPublication,
     SyncIntent, Latch, SyncLatch, Appends, OnlyPrivate, Commanding, Check, Launch, Acts,
     CommandReturns, SetupFails, Unwinds, Recovering, BeginRecover, Observe, NothingPending,
     LatchedAlready, NothingToAdvance, Cleanup, Undecided, PublicationRefused, Proving,
     Prove, ProveRefused, SyncProof, Record, SyncTerminal, Dies, disk
<1>2. Nobody => UNCHANGED public
  BY DEF Nobody, disk
<1> QED
  BY <1>1, <1>2, OneMoves

LEMMA PublisherIsForward ==
  ASSUME ForwardInv, NEW d \in Controllers, Publishes(d)
  PROVE  at[d] \in Publishing /\ job[d].forward
<1>1. at[d] \in Publishing
  BY DEF Publishes, Stage, FillStaging, Rename, SyncPublic, PublishFails, Goes, Publishing
<1> QED
  BY <1>1 DEF ForwardInv, Leads

\* What it makes of the bundle and of the staging directory.
PublicSteps ==
  /\ public' \in Directory(PublicNames, PublicContents) /\ Sane(public')
  /\ public'[Bundle].may \subseteq {Absent, Whole}
  /\ public[Bundle].may = {Whole} => public'[Bundle].may = {Whole}

LEMMA PublicStep ==
  ASSUME IInv, ForwardInv, [Next]_vars
  PROVE  PublicSteps
<1>1. /\ public \in Directory(PublicNames, PublicContents) /\ Sane(public)
      /\ public[Bundle].may \subseteq {Absent, Whole}
      /\ public[Bundle].seen \in public[Bundle].may
      /\ public[Staging].seen \in public[Staging].may
      /\ {Absent, Torn, Whole} \subseteq PublicContents
  BY PublicNamesDiffer DEF ForwardInv, PublicOK, PublishedIsDurable, Sane, Directory,
     PublicContents
<1>2. CASE UNCHANGED public
  BY <1>1, <1>2 DEF PublicSteps
<1>3. CASE PowerLoss
  BY <1>1, <1>3, LeftEntries, PublicNamesDiffer DEF PowerLoss, PublicSteps
<1>4. ASSUME NEW x \in PublicContents,
             public' = Stored(public, Staging, x) \/ public' = Filled(public, Staging, x)
      PROVE  PublicSteps
  <2>1. Staging \in PublicNames /\ Bundle \in PublicNames \ {Staging}
    BY <1>1, PublicNamesDiffer
  <2>2. public \in Directory(PublicNames, PublicContents) /\ Sane(public)
    BY <1>1
  <2>3. /\ public' \in Directory(PublicNames, PublicContents) /\ Sane(public')
        /\ public'[Bundle] = public[Bundle]
    <3>1. CASE public' = Stored(public, Staging, x)
      <4> DEFINE new == Stored(public, Staging, x)
      <4>1. /\ new \in Directory(PublicNames, PublicContents) /\ Sane(new)
            /\ new[Staging] = [seen |-> x, may |-> public[Staging].may \cup {x}]
            /\ \A m \in PublicNames \ {Staging} : new[m] = public[m]
        BY <2>2, <2>1, StoredEntries
      <4> HIDE DEF new
      <4>2. public' = new
        BY <3>1 DEF new
      <4> QED
        BY <2>1, <4>1, <4>2
    <3>2. CASE public' = Filled(public, Staging, x)
      <4> DEFINE new == Filled(public, Staging, x)
      <4>1. /\ new \in Directory(PublicNames, PublicContents) /\ Sane(new)
            /\ new[Staging] = [seen |-> x, may |-> (public[Staging].may \ {Torn}) \cup {x}]
            /\ \A m \in PublicNames \ {Staging} : new[m] = public[m]
        BY <2>2, <2>1, FilledEntries
      <4> HIDE DEF new
      <4>2. public' = new
        BY <3>2 DEF new
      <4> QED
        BY <2>1, <4>1, <4>2
    <3> QED
      BY <1>4, <3>1, <3>2
  <2> QED
    BY <1>1, <2>3 DEF PublicSteps
<1>5. ASSUME NEW d \in Controllers, Publishes(d) PROVE PublicSteps
  <2>1. CASE Stage(d) \/ FillStaging(d) \/ PublishFails(d)
    <3>1. \/ UNCHANGED public
          \/ \E x \in {Absent, Torn, Whole} :
               public' = Stored(public, Staging, x) \/ public' = Filled(public, Staging, x)
      BY <2>1 DEF Stage, FillStaging, PublishFails
    <3> QED
      BY <1>1, <1>2, <1>4, <3>1
  <2>2. CASE Rename(d)
    <3>1. /\ at[d] = "rename" /\ public' = Renamed(public, Staging, Bundle)
          /\ public[Bundle].seen = Absent
      BY <2>2 DEF Rename, Goes
    <3>2. public[Staging].may \subseteq {Absent, Whole} /\ public[Staging].seen = Whole
      BY <3>1 DEF ForwardInv, Ships
    <3>3. public[Staging].seen # Absent
      BY <3>2, ContentsApart
    <3>4. /\ public' \in Directory(PublicNames, PublicContents) /\ Sane(public')
          /\ public'[Bundle].may = public[Bundle].may \cup (public[Staging].may \ {Absent})
      <4>1. Absent \in PublicContents
        BY <1>1
      <4> DEFINE new == Renamed(public, Staging, Bundle)
      <4>2. /\ new \in Directory(PublicNames, PublicContents) /\ Sane(new)
            /\ new[Bundle] = [seen |-> public[Staging].seen,
                              may |-> public[Bundle].may \cup (public[Staging].may \ {Absent})]
        BY <1>1, <3>3, <4>1, RenamedEntries, PublicNamesDiffer
      <4> HIDE DEF new
      <4>3. public' = new
        BY <3>1 DEF new
      <4> QED
        BY <4>2, <4>3
    <3> QED
      BY <1>1, <3>1, <3>2, <3>4, ContentsApart DEF PublicSteps
  <2>3. CASE SyncPublic(d)
    <3>1. public' = Synced(public)
      BY <2>3 DEF SyncPublic
    <3>2. /\ public' \in Directory(PublicNames, PublicContents) /\ Sane(public')
          /\ public'[Bundle].may = {public[Bundle].seen}
      BY <1>1, <3>1, SyncedEntries, PublicNamesDiffer
    <3> QED
      BY <1>1, <3>2 DEF PublicSteps
  <2> QED
    BY <1>5, <2>1, <2>2, <2>3 DEF Publishes
<1> QED
  BY <1>2, <1>3, <1>5, PublicMoves

\* Where one that goes forward comes from.
LEMMA ForwardFrom ==
  ASSUME IInv, ReplayInv, ForwardInv, [Next]_vars, NEW c \in Controllers, job'[c].forward
  PROVE  /\ ~PowerLoss
         /\ job[c].forward \/ (IntendSetup(c) /\ Moves(c) /\ journal.events = <<>>)
<1>1. ~PowerLoss
  BY DEF PowerLoss, Idle
<1>2. at \in [Controllers -> Places] /\ job \in [Controllers -> Jobs]
  BY DEF IInv, FilesTypeOK
<1>3. CASE Works(c) /\ Moves(c)
  <2>1. ~IntendSetup(c) => job[c].forward
    <3>1. ASSUME job' = [job EXCEPT ![c] = Idle] PROVE FALSE
      BY <1>2, <3>1 DEF Idle
    <3>2. IntendPublication(c) => job[c].forward
      BY DEF IntendPublication, Goes, ForwardInv, Leads
    <3>3. IntendDelete(c) => job[c].forward
      BY <1>2 DEF IntendDelete, Appends, Idle
    <3>4. Observe(c) => job[c].forward
      <4> SUFFICES ASSUME Observe(c) PROVE job[c].forward
        OBVIOUS
      <4>1. PICK s \in {Sight(LastOf(journal).family), "unreadable"} :
              job' = [job EXCEPT ![c].family = LastOf(journal).family, ![c].saw = s,
                                 ![c].teardown = (journal.latch # 0)]
        BY DEF Observe
      <4> QED
        BY <1>2, <4>1 DEF Jobs
    <3>5. Cleanup(c) => job[c].forward
      BY <1>2 DEF Cleanup, Jobs
    <3>6. SyncTerminal(c) => job[c].forward
      BY SyncTerminalLeads
    <3> QED
      BY <1>3, <3>1, <3>2, <3>3, <3>4, <3>5, <3>6
         DEF Works, Prepares, CreateInputs, FillInputs, SyncInputs, CreateJournal, FillJournal,
         FillJournalFails, SyncJournal, Appending, SyncIntent, Latch, SyncLatch, OnlyPrivate,
         Commanding, Check, Launch, Acts, CommandReturns, SetupFails, Unwinds, Recovering,
         BeginRecover, NothingPending, LatchedAlready, NothingToAdvance, Undecided,
         PublicationRefused, Proving, Prove, ProveRefused, SyncProof, Record, Publishes, Stage,
         FillStaging, Rename, SyncPublic, PublishFails, OnlyPublic, Dies
  <2>2. IntendSetup(c) => journal.events = <<>>
    BY DEF IntendSetup, Appends, Admitted
  <2> QED
    BY <1>1, <1>3, <2>1, <2>2
<1>4. CASE Nobody \/ \E d \in Controllers \ {c} : Moves(d)
  BY <1>1, <1>4 DEF Nobody, Moves
<1> QED
  BY <1>1, <1>3, <1>4, OneMoves

LEMMA OneForwardStep ==
  ASSUME IInv, ReplayInv, ForwardInv, [Next]_vars
  PROVE  OneForward'
<1> SUFFICES ASSUME NEW c \in Controllers, NEW d \in Controllers,
                    job'[c].forward, job'[d].forward, c # d
             PROVE  FALSE
  BY DEF OneForward
<1>1. ASSUME NEW a \in Controllers, NEW b \in Controllers, a # b,
             job'[a].forward, job'[b].forward, ~job[a].forward
      PROVE  FALSE
  <2>1. journal.events = <<>> /\ Moves(a)
    BY <1>1, ForwardFrom
  <2>2. job[b].forward
    BY <1>1, <2>1 DEF Moves
  <2> QED
    BY <2>1, <2>2 DEF ForwardInv, Leads, Begun
<1>2. job[c].forward /\ job[d].forward
  BY <1>1
<1> QED
  BY <1>2 DEF ForwardInv, OneForward

LEMMA PlacesLeft ==
  ASSUME IInv, NEW c \in Controllers, Works(c), ~Publishes(c), ~Dies(c), at'[c] # at[c]
  PROVE  /\ at[c] \notin Publishing
         /\ at'[c] \notin {"rename", "renamed"}
         /\ at[c] = "intent" => SyncIntent(c)
<1>1. at \in [Controllers -> Places] /\ job[c].family \in Families
  BY DEF IInv, FilesTypeOK, Jobs
<1>2. First[job[c].family] \in {"check", "look", "staging"}
  BY <1>1 DEF First, Families
<1>3. CASE Prepares(c) \/ Appending(c)
  BY <1>1, <1>2, <1>3 DEF Prepares, CreateInputs, FillInputs, SyncInputs, CreateJournal,
     FillJournal, FillJournalFails, SyncJournal, Appending, IntendSetup, IntendDelete,
     IntendPublication, SyncIntent, Latch, SyncLatch, Goes, Publishing
<1>4. CASE Commanding(c) \/ Recovering(c)
  BY <1>1, <1>4 DEF Commanding, Check, Launch, Acts, CommandReturns, SetupFails, Unwinds,
     Recovering, BeginRecover, Observe, NothingPending, LatchedAlready, NothingToAdvance,
     Cleanup, Undecided, PublicationRefused, Goes, Publishing
<1>5. CASE Proving(c)
  <2>1. Onward(job[c]) \in {"latch", "advance", "publish", "idle"}
    BY DEF Onward
  <2> QED
    BY <1>1, <1>5, <2>1 DEF Proving, Prove, ProveRefused, SyncProof, Decided, Record,
       SyncTerminal, Unwinds, Goes, Publishing
<1> QED
  BY <1>3, <1>4, <1>5 DEF Works

LEMMA IntendsLast ==
  ASSUME IInv, NEW d \in Controllers, NEW f \in Families, Intends(d, f)
  PROVE  LastOf(journal').family = f
<1>1. Usable(journal) /\ journal' = With(journal, Intent(f))
  BY DEF Intends, Appends, Replace, Loads
<1>2. journal \in Journals /\ Len(journal.events) \in Nat
  BY <1>1, JournalIsTyped DEF Journals
<1>3. LastOf(With(journal, Intent(f))) = Intent(f)
  BY <1>2, WithExtends, IntentIsEvent DEF LastOf
<1> QED
  BY <1>1, <1>3 DEF Intent

\* A bundle that stands is the one of the last event.
LEMMA ForwardShips ==
  ASSUME IInv, ReplayInv, ForwardInv, [Next]_vars, NEW c \in Controllers, ~Publishes(c),
         job'[c].forward, LastOf(journal').family = "publication",
         at'[c] \notin Publishing \cup {"intent"}
  PROVE  public[Bundle].may = {Whole}
<1>1. at \in [Controllers -> Places] /\ job \in [Controllers -> Jobs]
  BY DEF IInv, FilesTypeOK
<1>2. ~PowerLoss /\ job[c].forward
  BY <1>1, ForwardFrom DEF IntendSetup, Goes
<1>3. Leads(c) /\ Begun(journal)
  BY <1>2 DEF ForwardInv, Leads
<1>4. LastOf(journal).family = "publication"
  <2>1. ASSUME NEW d \in Controllers, NEW f \in Families, Intends(d, f) PROVE FALSE
    <3>1. f = "publication"
      BY <2>1, IntendsLast
    <3>2. at[d] = "publish" /\ at'[d] = "intent"
      BY <2>1, <3>1 DEF Intends
    <3>3. job[d].forward
      BY <3>2 DEF ForwardInv, Leads
    <3> QED
      BY <1>2, <3>2, <3>3 DEF ForwardInv, OneForward
  <2> QED
    BY <1>2, <1>3, <2>1, BegunStays
<1>5. CASE at'[c] = at[c]
  BY <1>2, <1>4, <1>5 DEF ForwardInv, Ships
<1>6. CASE at'[c] # at[c]
  <2>1. Works(c)
    BY <1>2, <1>6, OneMoves DEF Nobody, Moves
  <2>2. ~Dies(c)
    BY <1>1 DEF Dies, Idle
  <2>3. at[c] \notin Publishing /\ (at[c] = "intent" => SyncIntent(c))
    BY <1>6, <2>1, <2>2, PlacesLeft
  <2>4. at[c] # "intent"
    <3> SUFFICES ASSUME at[c] = "intent" PROVE FALSE
      OBVIOUS
    <3>1. at'[c] = First[job[c].family]
      BY <1>1, <2>3 DEF SyncIntent, Goes
    <3>2. job[c].family = "publication"
      BY <1>3, <1>4 DEF Leads
    <3> QED
      BY <3>1, <3>2 DEF First, Publishing
  <2> QED
    BY <1>2, <1>4, <2>3, <2>4 DEF ForwardInv, Ships
<1> QED
  BY <1>5, <1>6

LEMMA ShipsStep ==
  ASSUME IInv, ReplayInv, ForwardInv, [Next]_vars, NEW c \in Controllers
  PROVE  Ships(c)'
<1>1. at \in [Controllers -> Places] /\ job \in [Controllers -> Jobs]
  BY DEF IInv, FilesTypeOK
<1>2. /\ public \in Directory(PublicNames, PublicContents) /\ Sane(public)
      /\ {Absent, Torn, Whole} \subseteq PublicContents
  BY DEF ForwardInv, PublicOK, PublicContents
<1>3. CASE PowerLoss
  BY <1>3 DEF PowerLoss, Idle, Ships
<1>4. CASE Publishes(c)
  <2>1. CASE Stage(c)
    <3>1. at'[c] = "staged"
      BY <1>1, <2>1 DEF Stage, Goes
    <3> QED
      BY <3>1 DEF Ships, Publishing
  <2>2. CASE FillStaging(c)
    <3>1. at'[c] = "rename" /\ public' = Filled(public, Staging, Whole)
      BY <1>1, <2>2 DEF FillStaging, Goes
    <3>2. public'[Staging] = [seen |-> Whole, may |-> (public[Staging].may \ {Torn}) \cup {Whole}]
      BY <1>2, <3>1, FilledEntries, PublicNamesDiffer
    <3>3. public[Staging].may \subseteq {Absent, Torn, Whole}
      BY <1>2, PublicNamesDiffer DEF Directory, PublicContents
    <3> QED
      BY <3>1, <3>2, <3>3 DEF Ships, Publishing
  <2>3. CASE Rename(c)
    <3>1. /\ at[c] = "rename" /\ at'[c] = "renamed"
          /\ public' = Renamed(public, Staging, Bundle)
      BY <1>1, <2>3 DEF Rename, Goes
    <3>2. public[Staging].seen = Whole
      BY <3>1 DEF ForwardInv, Ships
    <3>3. public[Staging].seen # Absent /\ Absent \in PublicContents
      BY <1>2, <3>2, ContentsApart
    <3>4. public'[Bundle].seen = public[Staging].seen
      <4> DEFINE new == Renamed(public, Staging, Bundle)
      <4>1. new[Bundle] = [seen |-> public[Staging].seen,
                           may |-> public[Bundle].may \cup (public[Staging].may \ {Absent})]
        BY <1>2, <3>3, RenamedEntries, PublicNamesDiffer
      <4> HIDE DEF new
      <4>2. public' = new
        BY <3>1 DEF new
      <4> QED
        BY <4>1, <4>2
    <3> QED
      BY <3>1, <3>2, <3>4 DEF Ships, Publishing
  <2>4. CASE SyncPublic(c)
    <3>1. at[c] = "renamed" /\ at'[c] = "look" /\ public' = Synced(public)
      BY <1>1, <2>4 DEF SyncPublic, Goes
    <3>2. public'[Bundle].may = {public[Bundle].seen}
      BY <1>2, <3>1, SyncedEntries, PublicNamesDiffer
    <3> QED
      BY <3>1, <3>2 DEF ForwardInv, Ships
  <2>5. CASE PublishFails(c)
    <3>1. at'[c] = "latch" /\ ~job'[c].forward
      BY <1>1, <2>5 DEF PublishFails, Idle
    <3> QED
      BY <3>1 DEF Ships
  <2> QED
    BY <1>4, <2>1, <2>2, <2>3, <2>4, <2>5 DEF Publishes
<1>5. ASSUME NEW d \in Controllers, Publishes(d), Moves(d), d # c PROVE Ships(c)'
  <2>1. ~job[c].forward
    BY <1>5, PublisherIsForward DEF ForwardInv, OneForward
  <2>2. at[c] \notin Publishing
    BY <2>1 DEF ForwardInv, Leads
  <2>3. at'[c] = at[c] /\ job'[c] = job[c]
    BY <1>5 DEF Moves
  <2> QED
    BY <2>1, <2>2, <2>3 DEF Ships, Publishing
<1>6. CASE ~PowerLoss /\ ~Publishes(c) /\ UNCHANGED public
  <2>1. at'[c] \in {"rename", "renamed"} => at'[c] = at[c]
    <3> SUFFICES ASSUME at'[c] \in {"rename", "renamed"}, at'[c] # at[c] PROVE FALSE
      OBVIOUS
    <3>1. Works(c)
      BY <1>6, OneMoves DEF Nobody, Moves
    <3>2. ~Dies(c)
      BY <1>1 DEF Dies
    <3> QED
      BY <1>6, <3>1, <3>2, PlacesLeft
  <2> QED
    BY <1>6, <2>1, ForwardShips DEF ForwardInv, Ships
<1> QED
  BY <1>3, <1>4, <1>5, <1>6, PublicMoves

\* Only the last write of an operation tells its caller.
LEMMA ToldMoves ==
  ASSUME [Next]_vars
  PROVE  told' = told \/ \E c \in Controllers : SyncTerminal(c)
<1>1. ASSUME NEW c \in Controllers, Prepares(c) PROVE told' = told
  BY <1>1 DEF Prepares, CreateInputs, FillInputs, SyncInputs, CreateJournal, FillJournal,
     FillJournalFails, SyncJournal, OnlyPrivate
<1>2. ASSUME NEW c \in Controllers, Appending(c) PROVE told' = told
  BY <1>2 DEF Appending, IntendSetup, IntendDelete, IntendPublication, SyncIntent, Latch,
     SyncLatch, Appends, OnlyPrivate
<1>3. ASSUME NEW c \in Controllers, Commanding(c) \/ Dies(c) PROVE told' = told
  BY <1>3 DEF Commanding, Check, Launch, Acts, CommandReturns, SetupFails, Unwinds, Dies,
     disk
<1>4. ASSUME NEW c \in Controllers, Recovering(c) PROVE told' = told
  BY <1>4 DEF Recovering, BeginRecover, Observe, NothingPending, LatchedAlready,
     NothingToAdvance, Cleanup, Undecided, PublicationRefused, Unwinds, disk
<1>5. ASSUME NEW c \in Controllers, Proving(c) PROVE told' = told \/ SyncTerminal(c)
  BY <1>5 DEF Proving, Prove, ProveRefused, Unwinds, SyncProof, Record, disk
<1>6. ASSUME NEW c \in Controllers, Publishes(c) PROVE told' = told
  BY <1>6 DEF Publishes, Stage, FillStaging, Rename, SyncPublic, PublishFails, OnlyPublic
<1>7. ASSUME NEW f \in orphans, OrphanActs(f) PROVE told' = told
  BY <1>7 DEF OrphanActs, disk
<1>8. CASE PowerLoss \/ UNCHANGED vars
  BY <1>8 DEF PowerLoss, vars, disk
<1> QED
  BY <1>1, <1>2, <1>3, <1>4, <1>5, <1>6, <1>7, <1>8 DEF Next

\* A command is on its way once it is launched, and no longer once it acted or
\* its controller ended.
LEMMA FlightMoves ==
  ASSUME [Next]_vars
  PROVE  \/ flight' = flight \/ PowerLoss
         \/ \E c \in Controllers : Launch(c) \/ Acts(c) \/ Dies(c)
<1>1. ASSUME NEW c \in Controllers, Prepares(c) PROVE flight' = flight
  BY <1>1 DEF Prepares, CreateInputs, FillInputs, SyncInputs, CreateJournal, FillJournal,
     FillJournalFails, SyncJournal, OnlyPrivate, host
<1>2. ASSUME NEW c \in Controllers, Appending(c) PROVE flight' = flight
  BY <1>2 DEF Appending, IntendSetup, IntendDelete, IntendPublication, SyncIntent, Latch,
     SyncLatch, Appends, OnlyPrivate, host
<1>3. ASSUME NEW c \in Controllers, Commanding(c)
      PROVE  flight' = flight \/ Launch(c) \/ Acts(c)
  BY <1>3 DEF Commanding, Check, CommandReturns, SetupFails, Unwinds, host
<1>4. ASSUME NEW c \in Controllers, Recovering(c) PROVE flight' = flight
  BY <1>4 DEF Recovering, BeginRecover, Observe, NothingPending, LatchedAlready,
     NothingToAdvance, Cleanup, Undecided, PublicationRefused, Unwinds, host
<1>5. ASSUME NEW c \in Controllers, Proving(c) PROVE flight' = flight
  BY <1>5 DEF Proving, Prove, ProveRefused, Unwinds, SyncProof, Record, SyncTerminal,
     host
<1>6. ASSUME NEW c \in Controllers, Publishes(c) PROVE flight' = flight
  BY <1>6 DEF Publishes, Stage, FillStaging, Rename, SyncPublic, PublishFails, OnlyPublic,
     host
<1>7. ASSUME NEW f \in orphans, OrphanActs(f) PROVE flight' = flight
  BY <1>7 DEF OrphanActs
<1>8. CASE UNCHANGED vars
  BY <1>8 DEF vars, host
<1> QED
  BY <1>1, <1>2, <1>3, <1>4, <1>5, <1>6, <1>7, <1>8 DEF Next

(***************************************************************************)
(* nominal() returns its bundle.                                           *)
(***************************************************************************)
LEMMA TellsPublished ==
  ASSUME IInv, ReplayInv, ForwardInv, [Next]_vars, told', ~told
  PROVE  /\ UNCHANGED public /\ public[Bundle].may = {Whole}
         /\ \A x \in private'[Journal].may : Published(x)
<1>1. PICK c \in Controllers : SyncTerminal(c)
  BY ToldMoves
<1>2. /\ at[c] = "terminal" /\ job[c].forward /\ job[c].family = "publication"
      /\ private' = Synced(private) /\ UNCHANGED public
  BY <1>1 DEF SyncTerminal, Goes, Return
<1>3. /\ Begun(journal) /\ LastOf(journal).family = "publication"
      /\ LastOf(journal).stage = Outcome(job[c]) /\ Outcome(job[c]) # "unknown"
      /\ public[Bundle].may = {Whole}
  BY <1>2 DEF ForwardInv, Leads, Ships, Publishing
<1>4. Outcome(job[c]) = "complete"
  BY <1>2, <1>3 DEF Outcome
<1>5. private'[Journal].may = {journal}
  BY <1>2, SyncedStays, NamesDiffer DEF journal
<1> QED
  BY <1>2, <1>3, <1>4, <1>5 DEF Published, Begun

LEMMA PublishedStays ==
  ASSUME IInv, ReplayInv, [Next]_vars, \A x \in private[Journal].may : Published(x)
  PROVE  \A x \in private'[Journal].may : Published(x)
<1>1. Published(journal) /\ Begun(journal)
  BY JournalSurvives DEF Published, Begun
<1>2. CASE Keeping \/ Losing
  BY <1>2, JournalSurvives DEF Keeping, Losing
<1>3. CASE \E c \in Controllers : Writing(c)
  <2>1. ~PowerLoss
    BY <1>3 DEF Writing, Intends, Latches, Records, Appends, Latch, Replace, Record, Goes,
       PowerLoss, IInv, FilesTypeOK
  <2>2. Published(journal')
    BY <1>1, <2>1, BegunStays
  <2> QED
    BY <1>3, <2>2 DEF Writing
<1>4. ~Beginning
  BY <1>1 DEF Beginning, Begun
<1> QED
  BY <1>2, <1>3, <1>4, JournalMoves

LEMMA PublishedStep ==
  ASSUME IInv, ReplayInv, ForwardInv, [Next]_vars
  PROVE  PublicOK' /\ PublishedIsDurable'
<1>1. PublicSteps
  BY PublicStep
<1>2. told' \in BOOLEAN /\ (told => told')
  <2>1. ASSUME NEW c \in Controllers, SyncTerminal(c)
        PROVE  told' = (told \/ (job[c].forward /\ job[c].family = "publication"))
    BY <2>1 DEF SyncTerminal
  <2>2. told \in BOOLEAN
    BY DEF ForwardInv, PublicOK
  <2> QED
    BY <2>1, <2>2, ToldMoves
<1>3. PublicOK'
  BY <1>1, <1>2 DEF PublicSteps, PublicOK
<1>4. told' => /\ public'[Bundle].may = {Whole}
               /\ \A x \in private'[Journal].may : Published(x)
  <2>1. CASE told
    <3>1. public[Bundle].may = {Whole} /\ \A x \in private[Journal].may : Published(x)
      BY <2>1 DEF ForwardInv, PublishedIsDurable, Published
    <3> QED
      BY <1>1, <3>1, PublishedStays DEF PublicSteps
  <2>2. CASE ~told
    BY <2>2, TellsPublished
  <2> QED
    BY <2>1, <2>2
<1> QED
  BY <1>1, <1>3, <1>4 DEF PublicSteps, PublishedIsDurable, Published

LEMMA ForwardInitially ==
  ASSUME Init
  PROVE  ForwardInv
<1>1. public = [n \in PublicNames |-> [seen |-> Absent, may |-> {Absent}]]
  BY DEF Init, Empty, PublicNames
<1>2. PublicOK
  <2>1. public \in Directory(PublicNames, PublicContents) /\ Sane(public)
    BY <1>1 DEF Directory, Sane, PublicContents
  <2> QED
    BY <2>1 DEF Init, PublicOK
<1>3. \A c \in Controllers : at[c] = "idle" /\ ~job[c].forward
  BY DEF Init, Idle
<1>4. PublishedIsDurable
  <2>1. public[Bundle].may = {Absent} /\ ~told
    <3>1. public[Bundle] = [seen |-> Absent, may |-> {Absent}]
      BY <1>1, PublicNamesDiffer
    <3> QED
      BY <3>1 DEF Init
  <2> QED
    BY <2>1 DEF PublishedIsDurable
<1> QED
  BY <1>2, <1>3, <1>4 DEF ForwardInv, OneForward, Leads, Ships, Publishing

LEMMA ForwardInductive == Spec => []ForwardInv
<1>1. Init => ForwardInv
  BY ForwardInitially
<1>2. IInv /\ (ReplayInv /\ LogHolds) /\ ForwardInv /\ [Next]_vars => ForwardInv'
  BY PublishedStep, OneForwardStep, LeadsStep, ShipsStep DEF ForwardInv
<1> QED
  BY <1>1, <1>2, Inductive, ReplayInductive, PTL DEF Spec

(***************************************************************************)
(* Whoever finds the bundle finds all of it, and once nominal() returned   *)
(* it no power loss takes it or its event away (publish_prepared).         *)
(***************************************************************************)
THEOREM PublicationIsDurable == Spec => []PublishedIsDurable
<1>1. ForwardInv => PublishedIsDurable
  BY DEF ForwardInv
<1> QED
  BY <1>1, ForwardInductive, PTL

(***************************************************************************)
(* However many controllers are started and however they end: the setup    *)
(* command is started once (V3B2Journal.append_intent, _observe).          *)
(***************************************************************************)
THEOREM SetupOnce == Spec => SetupSentOnce
<1>1. Init => DOMAIN flight = Controllers
  BY DEF Init
<1>2. ASSUME DOMAIN flight = Controllers, [Next]_vars
      PROVE  /\ DOMAIN flight' = Controllers
             /\ \A c \in Controllers :
                  \/ flight'[c] \in {flight[c], "none"}
                  \/ at[c] = "launch" /\ flight'[c] = job[c].family
  <2>1. CASE flight' = flight
    BY <1>2, <2>1
  <2>2. ASSUME NEW d \in Controllers, Launch(d) \/ Acts(d) \/ Dies(d)
        PROVE  /\ DOMAIN flight' = Controllers
               /\ \A c \in Controllers :
                    \/ flight'[c] \in {flight[c], "none"}
                    \/ at[c] = "launch" /\ flight'[c] = job[c].family
    BY <1>2, <2>2 DEF Launch, Goes, Acts, Dies
  <2>3. CASE PowerLoss
    BY <2>3 DEF PowerLoss
  <2>4. \/ flight' = flight \/ PowerLoss
        \/ \E d \in Controllers : Launch(d) \/ Acts(d) \/ Dies(d)
    BY <1>2, FlightMoves
  <2> QED
    BY <2>1, <2>2, <2>3, <2>4
<1>3. ASSUME DOMAIN flight = Controllers, ForwardInv, [Next]_vars, NEW c \in Controllers,
             flight'[c] = "setup", flight[c] # "setup"
      PROVE  "setup" \notin sent
  <2>1. at[c] = "launch" /\ job[c].family = "setup"
    BY <1>2, <1>3
  <2> QED
    BY <1>3, <2>1 DEF ForwardInv, Leads
<1>4. DOMAIN flight = Controllers /\ [Next]_vars => (DOMAIN flight = Controllers)'
  BY <1>2
<1>5. DOMAIN flight = Controllers /\ ForwardInv /\ [Next]_vars
        => [\A c \in Controllers :
              flight'[c] = "setup" /\ flight[c] # "setup" => "setup" \notin sent]_vars
  BY <1>3
<1> QED
  BY <1>1, <1>4, <1>5, ForwardInductive, PTL DEF Spec, SetupSentOnce
=============================================================================
