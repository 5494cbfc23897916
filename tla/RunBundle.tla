------------------------------ MODULE RunBundle ------------------------------
(***************************************************************************)
(* The publication of a content-addressed bundle by several processes that *)
(* run the same command over the same output root (write_run_bundle in     *)
(* src/kil/run_bundle.py; tools/v3a_demo.py has the same steps): the       *)
(* artifacts and their checksums are written into a temporary directory,   *)
(* which is then renamed into place.                                       *)
(*                                                                         *)
(* The content is a function of the run ID, so every process writes the    *)
(* same bytes.  A file may be written in part when the process fails.      *)
(***************************************************************************)
EXTENDS FiniteSets

CONSTANTS
  Writers,     \* processes
  Artifacts    \* the files that SHA256SUMS covers

ASSUME ArtifactsAssumption == IsFiniteSet(Artifacts) /\ "SHA256SUMS" \notin Artifacts

VARIABLES
  place,      \* where each process is
  temporary,  \* the files of its temporary directory
  bundle      \* the files under the run ID, {} when there is no directory

publication == <<place, temporary, bundle>>

\* A file is whole, or its name stands with what was written before a failure.
Whole(f) == <<f, "whole">>
Partial(f) == <<f, "partial">>
Files == {Whole(f) : f \in Artifacts \cup {"SHA256SUMS"}}
         \cup {Partial(f) : f \in Artifacts \cup {"SHA256SUMS"}}
Complete == {Whole(f) : f \in Artifacts \cup {"SHA256SUMS"}}

Go(p, s) == place' = [place EXCEPT ![p] = s]
----------------------------------------------------------------------------
\* bundle.exists(), then mkdtemp.
Check(p) ==
  /\ place[p] = "idle"
  /\ Go(p, IF bundle # {} THEN "refused" ELSE "writing")
  /\ UNCHANGED <<temporary, bundle>>

WriteArtifact(p) ==
  /\ place[p] = "writing"
  /\ \E f \in Artifacts : /\ Whole(f) \notin temporary[p]
                          /\ temporary' = [temporary EXCEPT ![p] = @ \cup {Whole(f)}]
  /\ UNCHANGED <<place, bundle>>

\* Mutant: the checksums do not wait for every artifact.
WriteChecksums_Early(p) ==
  /\ place[p] = "writing"
  /\ temporary' = [temporary EXCEPT ![p] = @ \cup {Whole("SHA256SUMS")}]
  /\ Go(p, "written")
  /\ UNCHANGED bundle

WriteChecksums(p) ==
  /\ place[p] = "writing"
  /\ \A f \in Artifacts : Whole(f) \in temporary[p]
  /\ temporary' = [temporary EXCEPT ![p] = @ \cup {Whole("SHA256SUMS")}]
  /\ Go(p, "written")
  /\ UNCHANGED bundle

\* rename raises over a directory that has files.
Rename(p) ==
  /\ place[p] = "written"
  /\ IF bundle = {}
     THEN /\ bundle' = temporary[p]
          /\ temporary' = [temporary EXCEPT ![p] = {}]
          /\ Go(p, "renamed")
     ELSE Go(p, "cleaning") /\ UNCHANGED <<temporary, bundle>>

\* The caller is told.
Return(p) ==
  /\ place[p] = "renamed"
  /\ Go(p, "returned")
  /\ UNCHANGED <<temporary, bundle>>

\* An interrupt between the two: there is no temporary directory to remove.
Interrupt(p) ==
  /\ place[p] = "renamed"
  /\ Go(p, "raised")
  /\ UNCHANGED <<temporary, bundle>>

\* A write, a read for the checksums or the rename raises.
Fail(p) ==
  /\ place[p] \in {"writing", "written"}
  /\ \/ UNCHANGED temporary
     \/ \E f \in Artifacts \cup {"SHA256SUMS"} :
          /\ place[p] = "writing" /\ Whole(f) \notin temporary[p]
          /\ temporary' = [temporary EXCEPT ![p] = @ \cup {Partial(f)}]
  /\ Go(p, "cleaning")
  /\ UNCHANGED bundle

\* rmtree, file by file; it may raise itself.
Clean(p) ==
  /\ place[p] = "cleaning"
  /\ \/ /\ temporary' = [temporary EXCEPT ![p] = {}]
        /\ Go(p, "raised")
     \/ \E left \in SUBSET temporary[p] :
          /\ temporary' = [temporary EXCEPT ![p] = left]
          /\ Go(p, "raised_cleaning")
  /\ UNCHANGED bundle

Kill(p) ==
  /\ place[p] \in {"writing", "written", "renamed", "cleaning"}
  /\ Go(p, "killed")
  /\ UNCHANGED <<temporary, bundle>>

BundleInit ==
  /\ place = [p \in Writers |-> "idle"]
  /\ temporary = [p \in Writers |-> {}]
  /\ bundle = {}

BundleNext == \E p \in Writers : Check(p) \/ WriteArtifact(p) \/ WriteChecksums(p)
                                 \/ Rename(p) \/ Return(p) \/ Interrupt(p)
                                 \/ Fail(p) \/ Clean(p) \/ Kill(p)

BundleSpec == BundleInit /\ [][BundleNext]_publication
----------------------------------------------------------------------------
\* Every process is somewhere, and its directory holds files of the bundle.
BundleTypeOK ==
  /\ place \in [Writers -> {"idle", "refused", "writing", "written", "renamed",
                            "returned", "cleaning", "raised", "raised_cleaning", "killed"}]
  /\ temporary \in [Writers -> SUBSET Files]
  /\ bundle \in SUBSET Files

\* Whatever fails and whoever else writes, a bundle under its run ID has every
\* artifact and the checksums, whole (the temporary directory and the rename).
BundleIsWhole == bundle \in {{}, Complete}

\* One process at most moves its directory into place, so that one at most
\* reports it published, and then the whole bundle is there: the others find
\* it, before they write or at the rename.  A bundle that nobody reported may
\* be there as well, of a process that ended behind its rename.
PublishedOnce ==
  \A p \in Writers : place[p] \in {"renamed", "returned"} =>
    /\ bundle = Complete
    /\ \A q \in Writers : place[q] \in {"renamed", "returned"} => p = q

\* What is under a run ID is never replaced or removed, by whoever comes late,
\* fails or cleans up (the rename, and rmtree of the temporary directory only).
NeverReplaced == [][bundle # {} => bundle' = bundle]_publication
=============================================================================
