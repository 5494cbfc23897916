-------------------------- MODULE V3B2Publication --------------------------
(***************************************************************************)
(* A V3B-2 bundle from its private manifest to a reader                    *)
(* (src/kil/v3b2_evidence.py): prepare_publication, publish_prepared, and  *)
(* verify_bundle or verify_publication_identity reading the published      *)
(* directory file by file while something else replaces its files.         *)
(*                                                                         *)
(* The crash-safe publication, the lock and the disk are V3B2Files'; here  *)
(* publishing is one step, and the question is what a reader may believe.  *)
(*                                                                         *)
(* A replaced file has an identity of its own: no inode comes back with    *)
(* the same size and modification time while a reader is at work.          *)
(***************************************************************************)
EXTENDS V3B2Evidence

CONSTANTS
  Privates,  \* private manifests a lifecycle may end with
  Strays,    \* public manifests of other origin
  Other,     \* the one whose files may get into this directory
  MaxFaults

ASSUME OtherAssumption == Other \in Strays

\* What the target wrote is a sequence, as every parsed JSONL file.
ASSUME PrivatesAssumption ==
  \A p \in Privates, t \in Tracks :
    LET written == p.sources[t].raw.target IN DOMAIN written = 1..Len(written)

VARIABLES
  private,    \* <<the private manifest>>; <<>> when a stray is read
  prepared,   \* <<payload>> once prepare_publication returned
  outcome,    \* of publishing: "open", "unbuilt", "unverified", "published"
  tree,       \* the published directory: name -> [bytes, identity]
  faults,
  reader      \* a verification in progress

vars == <<private, prepared, outcome, tree, faults, reader>>

----------------------------------------------------------------------------
\* _read_tree_fd reads in this order, and looks again in this order.
Order == <<"SHA256SUMS", "decisions.jsonl", "envoy.jsonl", "joins.jsonl",
           "live.html", "manifest.json", "requests.jsonl", "targets.jsonl">>

ASSUME OrderAssumption == PublicFiles = {Order[i] : i \in 1..8}

NoTree == [f \in {} |-> [bytes |-> <<>>, identity |-> 0]]
Present == DOMAIN tree
Whole == Present = PublicFiles
Bytes == [f \in Present |-> tree[f].bytes]
Placed(payload) ==
  [f \in PublicFiles |-> [bytes |-> payload[f], identity |-> 0]]

Idle == [at |-> "idle", mode |-> "bundle", next |-> 1, got |-> NoTree,
         moment |-> NoTree]

\* A lifecycle is about to publish, or a bundle it did not write is read.
Init ==
  /\ \/ \E p \in Privates :
          private = <<p>> /\ outcome = "open" /\ tree = NoTree
     \/ \E m \in Strays :
          /\ private = <<>> /\ outcome = "published"
          /\ tree = Placed(Payload(Committed(m)))
  /\ prepared = <<>>
  /\ faults = 0
  /\ reader = Idle

----------------------------------------------------------------------------
(***************************************************************************)
(* Publishing.                                                             *)
(***************************************************************************)
Prepare ==
  /\ prepared = <<>> /\ outcome = "open"
  /\ IF Buildable(private[1])
       THEN prepared' = <<Payload(Public(private[1]))>> /\ outcome' = "open"
       ELSE prepared' = <<>> /\ outcome' = "unbuilt"
  /\ UNCHANGED <<private, tree, faults, reader>>

\* publish_prepared: the staged files are verified before the rename.
Publish ==
  /\ prepared # <<>> /\ outcome = "open"
  /\ IF Verifies(prepared[1])
       THEN tree' = Placed(prepared[1]) /\ outcome' = "published"
       ELSE tree' = tree /\ outcome' = "unverified"
  /\ UNCHANGED <<private, prepared, faults, reader>>

----------------------------------------------------------------------------
(***************************************************************************)
(* Faults of the published directory.                                      *)
(***************************************************************************)
Fault ==
  /\ faults < MaxFaults
  /\ outcome = "published"
  /\ faults' = faults + 1
  /\ UNCHANGED <<private, prepared, outcome>>

\* A file is damaged, or becomes another bundle's file of that name.
Replace(f, bytes) ==
  /\ Fault
  /\ f \in Present
  /\ tree' = [tree EXCEPT ![f] = [bytes |-> bytes, identity |-> faults + 1]]
  /\ UNCHANGED reader

Remove(f) ==
  /\ Fault
  /\ f \in Present
  /\ tree' = [g \in Present \ {f} |-> tree[g]]
  /\ UNCHANGED reader

----------------------------------------------------------------------------
(***************************************************************************)
(* Reading.                                                                *)
(***************************************************************************)
ReaderStep == UNCHANGED <<private, prepared, outcome, tree, faults>>

Refuse == reader' = [reader EXCEPT !.at = "refused"]

\* verify_publication_identity is given what the publication intent recorded.
Modes == {"bundle"} \cup (IF prepared = <<>> THEN {} ELSE {"identity"})

\* verify_bundle dispatches on the manifest first, and reads it again later.
Begin(mode) ==
  /\ reader.at = "idle"
  /\ outcome = "published"
  /\ LET opened == [reader EXCEPT !.mode = mode]
         dispatches == "manifest.json" \in Present
                         /\ tree["manifest.json"].bytes # <<>>
     IN reader' = [opened EXCEPT !.at =
                     IF Whole /\ (mode = "bundle" => dispatches)
                       THEN "reading" ELSE "refused"]
  /\ ReaderStep

Read ==
  /\ reader.at = "reading"
  /\ LET f == Order[reader.next] IN
       IF f \notin Present THEN Refuse
       ELSE reader' =
         [reader EXCEPT
            !.got = [g \in DOMAIN @ \cup {f} |-> IF g = f THEN tree[f] ELSE @[g]],
            !.at = IF reader.next = 8 THEN "listing" ELSE "reading",
            !.next = IF reader.next = 8 THEN 1 ELSE @ + 1]
  /\ ReaderStep

\* Mutant: the second look is at the names only.
Unchanged_Named(f) == f \in Present

\* A file still has the identity it was read under.
Unchanged(f) == f \in Present /\ tree[f].identity = reader.got[f].identity

\* The directory is listed again, then every file is looked at again.
List ==
  /\ reader.at = "listing"
  /\ IF Whole THEN reader' = [reader EXCEPT !.at = "closing", !.moment = tree]
              ELSE Refuse
  /\ ReaderStep

LookAgain ==
  /\ reader.at = "closing"
  /\ IF ~Unchanged(Order[reader.next]) THEN Refuse
     ELSE reader' =
       [reader EXCEPT !.at = IF reader.next = 8 THEN "judging" ELSE "closing",
                      !.next = IF reader.next = 8 THEN 8 ELSE @ + 1]
  /\ ReaderStep

Payloads == [f \in DOMAIN reader.got |-> reader.got[f].bytes]

\* The run, the public commitment and the tree are the journal's.
Authorized == Payloads = prepared[1]

Judge ==
  /\ reader.at = "judging"
  /\ reader' = [reader EXCEPT !.at =
       IF /\ Verifies(Payloads)
          /\ reader.mode = "identity" => Authorized
         THEN "accepted" ELSE "refused"]
  /\ ReaderStep

Next ==
  \/ Prepare
  \/ Publish
  \/ \E f \in PublicFiles :
       \/ Remove(f)
       \/ \E bytes \in {<<>>, Payload(Committed(Other))[f]} : Replace(f, bytes)
  \/ \E mode \in Modes : Begin(mode)
  \/ Read \/ List \/ LookAgain \/ Judge

PublicationSpec == Init /\ [][Next]_vars

----------------------------------------------------------------------------
\* A bundle the builder finishes is one the verifier accepts: what was
\* answered, captured and torn down is never lost to a disagreement between
\* the two.  There is one: a changed global context alone makes a diagnostic
\* of foreign mismatch (line 1085), which the verifier takes only over
\* changed profiles (line 1857).
PreparedIsPublished ==
  outcome = "unverified" => private[1].same /\ ~private[1].context

\* A reader accepts only what the directory held all at once, and with the
\* journal's authority only the very bytes that were prepared, however files
\* are replaced or removed while it reads (_read_tree_fd).
AcceptedStood ==
  reader.at = "accepted" =>
    /\ Payloads = [f \in DOMAIN reader.moment |-> reader.moment[f].bytes]
    /\ reader.mode = "identity" => Payloads = prepared[1]

\* Accepted nominal evidence is earned, whoever wrote the bundle: the raw
\* sources inside it show the contract's outcome on every track.
AcceptedIsEarned ==
  reader.at = "accepted" =>
    LET m == Payloads["manifest.json"][1] IN
      m.class = "nominal" =>
        \A t \in Tracks : Earned(m.sources[t].raw, m.run, Expected[t])
=============================================================================
