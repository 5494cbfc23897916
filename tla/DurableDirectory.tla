-------------------------- MODULE DurableDirectory --------------------------
(***************************************************************************)
(* A directory of a POSIX file system, as far as the code that keeps the   *)
(* journal, the proofs and the bundles relies on it: what its names hold   *)
(* now, and what each of them may hold after a power loss.  The file       *)
(* system itself is external; fsync, rename(2) and O_EXCL are used by      *)
(* src/kil/v3b2_journal.py, v3b2_controller.py and v3b2_evidence.py.       *)
(*                                                                         *)
(* Nothing orders the unsynced changes of two names: after a power loss    *)
(* each name has any of the contents it had since its directory was synced.*)
(***************************************************************************)
CONSTANTS
  Absent,  \* content of a name that does not exist
  Torn     \* content of a file that is created and not completely on disk

ASSUME ContentsDiffer == Absent # Torn

Directory(names, contents) ==
  [names -> [seen : contents, may : SUBSET contents]]

Empty(names) == [n \in names |-> [seen |-> Absent, may |-> {Absent}]]

\* A name is created, replaced or removed; its directory is not synced.
Stored(dir, n, content) ==
  [dir EXCEPT ![n] = [seen |-> content, may |-> @.may \cup {content}]]

\* A file is written to its end and synced, its directory is not.
Filled(dir, n, content) ==
  [dir EXCEPT ![n] = [seen |-> content,
                      may |-> (@.may \ {Torn}) \cup {content}]]

\* rename(2): the new name has what the old one had, or may have had.
Renamed(dir, from, to) ==
  [dir EXCEPT ![to] = [seen |-> dir[from].seen,
                       may |-> @.may \cup (dir[from].may \ {Absent})],
              ![from] = [seen |-> Absent, may |-> @.may \cup {Absent}]]

\* fsync of the directory.
Synced(dir) ==
  [n \in DOMAIN dir |-> [seen |-> dir[n].seen, may |-> {dir[n].seen}]]

\* What a power loss may leave.
Leavings(dir) ==
  LET loose == {n \in DOMAIN dir : dir[n].may # {dir[n].seen}}
      picks == {p \in [loose -> UNION {dir[n].may : n \in loose}] :
                  \A n \in loose : p[n] \in dir[n].may}
      left(p) == [n \in DOMAIN dir |-> IF n \in loose THEN p[n]
                                                      ELSE dir[n].seen]
  IN  {[n \in DOMAIN dir |-> [seen |-> left(p)[n], may |-> {left(p)[n]}]] :
         p \in picks}
=============================================================================
