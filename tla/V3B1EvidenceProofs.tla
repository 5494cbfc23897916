------------------------- MODULE V3B1EvidenceProofs -------------------------
(***************************************************************************)
(* What V3B-1 evidence is worth, for any number of tracks, failures,       *)
(* deaths, restarts and lines, whichever tracks are denied.                *)
(*                                                                         *)
(* The argument: what is copied is first seen, and what is seen is a       *)
(* beginning of its source, all of it when its request was answered,       *)
(* because then nobody writes any more (AnsweredIsIdle).  The journal      *)
(* takes the bytes of a copy that is what was seen (BytesAreGenuine), and  *)
(* a terminal keeps those or none (EndsAreGenuine); a process on its way   *)
(* through the legs touches no file of a leg that is over (WalkHolds).     *)
(* So a promotable freeze has every source whole (FreezeHolds), and what   *)
(* is attested of it passes every later check (AttestedHolds).             *)
(***************************************************************************)
EXTENDS V3B1Evidence, TLAPS

\* A process at work on a leg, and on its way through the legs.
OnLeg == {"observe", "copy", "export", "compare", "terminal"}
Walking == {"leg"} \cup OnLeg
Places == {"off", "start", "prepare", "attest", "remove", "reject", "publish", "judge",
           "replace", "prepare_failure"} \cup Walking

EvidenceTypeOK ==
  /\ world = [reply |-> world.reply, busy |-> world.busy, live |-> world.live,
              serving |-> world.serving, gone |-> world.gone]
  /\ world.live \in [Legs -> Seq({"part", "rest"})]
  /\ log = [freeze |-> log.freeze, bytes |-> log.bytes, end |-> log.end,
            attested |-> log.attested, failure |-> log.failure]
  /\ log.freeze \in {"none", "started", "promotable", "partial"}
  /\ log.bytes = [leg \in Legs |-> log.bytes[leg]]
  /\ log.end = [leg \in Legs |-> log.end[leg]]
  /\ disk = [file |-> disk.file, bundle |-> disk.bundle, public |-> disk.public]
  /\ disk.file = [leg \in Legs |-> disk.file[leg]]
  /\ proc = [at |-> proc.at, n |-> proc.n, seen |-> proc.seen, copied |-> proc.copied,
             error |-> proc.error]
  /\ proc.at \in Places /\ proc.n \in 1..(3 * NumTracks + 1)
  /\ faults \in Nat

Answered(t) == world.reply[t] \in Replies

\* Nobody is at work on a request that was answered.
AnsweredIsIdle == \A t \in Tracks : Answered(t) => world.busy[t] = "none"

\* A copy that is a beginning of its source, and all of it behind an answer.
Genuine(leg, copy) ==
  /\ copy = <<copy[1]>> /\ copy[1] \in Seq({"part", "rest"})
  /\ IsPrefix(copy[1], Live(leg))
  /\ Answered(leg[1]) => copy[1] = Live(leg)

BytesAreGenuine == \A leg \in Legs : log.bytes[leg] # <<>> => Genuine(leg, log.bytes[leg])

EndsAreGenuine ==
  \A leg \in Legs : log.end[leg] # <<>> =>
    /\ Reattests(leg)
    /\ Kept(leg) => Genuine(leg, log.end[leg][1].copied)
    /\ log.end[leg][1].status = "copied" => ~Malformed(leg, log.end[leg][1].copied[1])

\* What the process holds on its way through the legs.
WalkHolds ==
  /\ proc.at \in {"off", "start"} => proc.n = 1
  /\ proc.at \in {"off", "start", "leg"} => proc.error = "none"
  /\ proc.at \in Walking => \A m \in 1..(proc.n - 1) : log.end[LegAt(m)] # <<>>
  /\ proc.at \in OnLeg => proc.n <= 3 * NumTracks /\ log.end[Here] = <<>>
  /\ proc.at \in OnLeg \ {"terminal"} => log.bytes[Here] = <<>>
  /\ proc.at \in {"observe", "copy", "export"} => disk.file[Here] = <<>>
  /\ proc.at \in {"copy", "export", "compare"} => Genuine(Here, proc.seen)
  /\ proc.at = "terminal" =>
       /\ proc.error \in {"none", "command_failed", "mismatch"}
       /\ disk.file[Here] = proc.copied
       /\ proc.error = "none" => proc.copied # <<>>

\* A freeze is over when every leg is, and promotable when all of them are copies.
FreezeHolds ==
  /\ log.freeze \in {"promotable", "partial"} => \A leg \in Legs : log.end[leg] # <<>>
  /\ log.freeze = "promotable" => Promotable
  /\ proc.at \in {"prepare", "attest"} => log.freeze \in {"promotable", "partial"}
  /\ proc.at = "attest" /\ log.freeze = "promotable" => Joins(Preserved)

\* What was attested passes its checks, and is all there is when it is complete.
AttestedHolds ==
  log.attested # <<>> =>
    LET bundle == log.attested[1]
    IN /\ TreeStands(bundle) /\ SourcesCounted(bundle) /\ Accepts(bundle)
       /\ bundle.class = "complete" =>
            \A leg \in Legs : Answered(leg[1]) /\ bundle.data[leg] = Live(leg)

EvidenceInv ==
  /\ EvidenceTypeOK /\ AnsweredIsIdle
  /\ BytesAreGenuine /\ EndsAreGenuine /\ WalkHolds
  /\ FreezeHolds /\ AttestedHolds /\ CompleteIsNominal

----------------------------------------------------------------------------
(***************************************************************************)
(* The legs, sequences and contents.                                       *)
(***************************************************************************)
\* execution_order visits legs, and every one of them.
LEMMA LegAtIsLeg ==
  ASSUME NEW n \in 1..(3 * NumTracks)
  PROVE  LegAt(n) \in Legs
<1>1. NumTracks \in Nat \ {0} /\ n \in Nat
  BY EvidenceAssumption
<1>2. CASE n <= NumTracks
  BY <1>1, <1>2 DEF LegAt, Legs, Tracks, Sources
<1>3. CASE n > NumTracks
  <2> DEFINE i == n - NumTracks - 1
  <2>1. i \in 0..(2 * NumTracks - 1)
    BY <1>1, <1>3
  <2>2. 1 + i \div 2 \in 1..NumTracks
    BY <1>1, <2>1
  <2>3. LegAt(n) = <<1 + i \div 2, IF i % 2 = 0 THEN "authz" ELSE "target">>
    BY <1>1, <1>3 DEF LegAt
  <2> QED
    BY <2>2, <2>3 DEF Legs, Tracks, Sources, Ledgers
<1> QED
  BY <1>1, <1>2, <1>3

LEMMA EveryLegIsVisited ==
  ASSUME NEW leg \in Legs
  PROVE  \E n \in 1..(3 * NumTracks) : LegAt(n) = leg
<1>1. NumTracks \in Nat \ {0}
  BY EvidenceAssumption
<1>2. PICK t \in 1..NumTracks, s \in {"envoy", "authz", "target"} : leg = <<t, s>>
  BY DEF Legs, Tracks, Sources, Ledgers
<1>3. CASE s = "envoy"
  <2>1. t \in 1..(3 * NumTracks) /\ LegAt(t) = leg
    BY <1>1, <1>2, <1>3 DEF LegAt
  <2> QED
    BY <2>1
<1>4. ASSUME NEW k \in {0, 1}, s = IF k = 0 THEN "authz" ELSE "target"
      PROVE  \E n \in 1..(3 * NumTracks) : LegAt(n) = leg
  <2> DEFINE i == 2 * (t - 1) + k
             n == NumTracks + 1 + i
  <2>1. n \in 1..(3 * NumTracks) /\ n > NumTracks /\ n - NumTracks - 1 = i
    BY <1>1, <1>2, <1>4
  <2>2. 1 + i \div 2 = t /\ (i % 2 = 0 <=> k = 0)
    BY <1>2, <1>4
  <2>3. LegAt(n) = leg
    BY <1>1, <1>2, <1>4, <2>1, <2>2 DEF LegAt
  <2> QED
    BY <2>1, <2>3
<1> QED
  BY <1>2, <1>3, <1>4

\* What is a beginning stays one when its source grows.
LEMMA PrefixStays ==
  ASSUME NEW S, NEW c, NEW d \in Seq(S), NEW x \in S, IsPrefix(c, d), Len(c) \in Nat
  PROVE  IsPrefix(c, Append(d, x))
<1>1. Len(c) <= Len(d) /\ SubSeq(c, 1, Len(c)) = SubSeq(d, 1, Len(c))
  BY DEF IsPrefix
<1>2. SubSeq(Append(d, x), 1, Len(c)) = SubSeq(d, 1, Len(c))
  BY <1>1
<1>3. Len(Append(d, x)) = Len(d) + 1 /\ Len(d) \in Nat
  OBVIOUS
<1> QED
  BY <1>1, <1>2, <1>3 DEF IsPrefix

LEMMA PrefixOfItself ==
  ASSUME NEW S, NEW d \in Seq(S)
  PROVE  IsPrefix(d, d)
BY DEF IsPrefix

\* What parses, and how many records it has.
LEMMA ContentsCounted ==
  /\ <<>> \in Contents /\ Line \in Contents
  /\ \A c \in Contents :
       /\ Records(c) \in {0, 1, 2}
       /\ Records(c) = 0 <=> c = <<>>
       /\ Records(c) = 1 <=> c = Line
<1>1. Len(<<>>) = 0 /\ Len(Line) = 2 /\ Len(Line \o Line) = 4
  BY DEF Line
<1>2. Records(<<>>) = 0 /\ Records(Line) = 1 /\ Records(Line \o Line) = 2
  BY <1>1 DEF Records
<1> QED
  BY <1>2 DEF Contents
----------------------------------------------------------------------------
(***************************************************************************)
(* What one step does to each variable.                                    *)
(***************************************************************************)
\* Every step but these two leaves the sources as they are.
LEMMA WorldMoves ==
  ASSUME EvidenceTypeOK, [EvidenceNext]_evidence
  PROVE  /\ world' = [reply |-> world'.reply, busy |-> world'.busy, live |-> world'.live,
                      serving |-> world'.serving, gone |-> world'.gone]
         /\ world'.reply = world.reply /\ world'.busy = world.busy
         /\ \/ world'.live = world.live
            \/ \E t \in Tracks, s \in Ledgers : Late(t, s)
<1> USE DEF EvidenceTypeOK
<1>1. ASSUME UNCHANGED world
      PROVE  /\ world' = [reply |-> world'.reply, busy |-> world'.busy, live |-> world'.live,
                          serving |-> world'.serving, gone |-> world'.gone]
             /\ world'.reply = world.reply /\ world'.busy = world.busy
             /\ world'.live = world.live
  BY <1>1
<1>2. CASE \/ Down \/ Start \/ Leg \/ Observe \/ Copy \/ Export \/ Persist \/ Terminal
           \/ Prepare \/ Attest \/ Judge \/ Replace \/ PrepareFailure \/ Publish \/ Die
           \/ UNCHANGED evidence
  BY <1>1, <1>2 DEF Down, Start, Leg, Observe, Copy, Export, Persist, Terminal, Prepare,
                    Attest, Judge, Replace, PrepareFailure, Publish, Die, evidence
<1>3. CASE Frozen \/ Reboot
  <2>1. world' = [world EXCEPT !.serving = FALSE]
    BY <1>3 DEF Frozen, Reboot
  <2> QED
    BY <2>1
<1>4. CASE TearDown
  <2>1. world' = [world EXCEPT !.gone = TRUE]
    BY <1>4 DEF TearDown
  <2> QED
    BY <2>1
<1>5. ASSUME NEW t \in Tracks, NEW s \in Ledgers, Late(t, s)
      PROVE  /\ world' = [reply |-> world'.reply, busy |-> world'.busy, live |-> world'.live,
                          serving |-> world'.serving, gone |-> world'.gone]
             /\ world'.reply = world.reply /\ world'.busy = world.busy
  <2>1. PICK c \in Chunks(Live(<<t, s>>)) :
          world' = [world EXCEPT !.live[<<t, s>>] = Append(@, c)]
    BY <1>5 DEF Late
  <2> QED
    BY <2>1
<1> QED
  BY <1>2, <1>3, <1>4, <1>5 DEF EvidenceNext, Program

\* A source grows only behind a request that was not answered.
LEMMA SourceGrows ==
  ASSUME EvidenceTypeOK, AnsweredIsIdle, [EvidenceNext]_evidence
  PROVE  /\ world'.live \in [Legs -> Seq({"part", "rest"})]
         /\ \A leg \in Legs :
              \/ Live(leg)' = Live(leg)
              \/ /\ ~Answered(leg[1])
                 /\ \E c \in {"part", "rest"} : Live(leg)' = Append(Live(leg), c)
<1>1. CASE world'.live = world.live
  BY <1>1 DEF EvidenceTypeOK, Live
<1>2. ASSUME NEW t \in Tracks, NEW s \in Ledgers, Late(t, s)
      PROVE  /\ world'.live \in [Legs -> Seq({"part", "rest"})]
             /\ \A leg \in Legs :
                  \/ Live(leg)' = Live(leg)
                  \/ /\ ~Answered(leg[1])
                     /\ \E c \in {"part", "rest"} : Live(leg)' = Append(Live(leg), c)
  <2>1. PICK c \in Chunks(Live(<<t, s>>)) :
          world' = [world EXCEPT !.live[<<t, s>>] = Append(@, c)]
    BY <1>2 DEF Late
  <2>2. c \in {"part", "rest"}
    BY <2>1 DEF Chunks
  <2>3. <<t, s>> \in Legs
    BY DEF Legs, Sources
  <2>4. world'.live = [world.live EXCEPT ![<<t, s>>] = Append(world.live[<<t, s>>], c)]
    BY <2>1 DEF EvidenceTypeOK
  <2>5. world.busy[t] = s /\ s # "none"
    BY <1>2 DEF Late, Ledgers
  <2>6. ~Answered(t)
    BY <2>5 DEF AnsweredIsIdle
  <2>7. world.live \in [Legs -> Seq({"part", "rest"})]
    BY DEF EvidenceTypeOK
  <2>8. Append(world.live[<<t, s>>], c) \in Seq({"part", "rest"})
    BY <2>2, <2>3, <2>7
  <2>9. world'.live \in [Legs -> Seq({"part", "rest"})]
    BY <2>4, <2>7, <2>8
  <2>10. ASSUME NEW leg \in Legs
         PROVE  \/ Live(leg)' = Live(leg)
                \/ /\ ~Answered(leg[1])
                   /\ \E d \in {"part", "rest"} : Live(leg)' = Append(Live(leg), d)
    <3>1. CASE leg = <<t, s>>
      BY <2>2, <2>3, <2>4, <2>6, <2>7, <3>1 DEF Live
    <3>2. CASE leg # <<t, s>>
      BY <2>4, <2>7, <3>2 DEF Live
    <3> QED
      BY <3>1, <3>2
  <2> QED
    BY <2>9, <2>10
<1> QED
  BY <1>1, <1>2, WorldMoves

\* So a genuine copy stays one.
LEMMA GenuineStays ==
  ASSUME EvidenceTypeOK, AnsweredIsIdle, [EvidenceNext]_evidence,
         NEW leg \in Legs, NEW copy, Genuine(leg, copy)
  PROVE  Genuine(leg, copy)'
<1>1. Answered(leg[1])' <=> Answered(leg[1])
  BY WorldMoves DEF Answered
<1>2. /\ copy = <<copy[1]>> /\ copy[1] \in Seq({"part", "rest"})
      /\ IsPrefix(copy[1], Live(leg))
      /\ Answered(leg[1]) => copy[1] = Live(leg)
  BY DEF Genuine
<1>3. CASE Live(leg)' = Live(leg)
  BY <1>1, <1>2, <1>3 DEF Genuine
<1>4. ASSUME ~Answered(leg[1]),
             NEW c \in {"part", "rest"}, Live(leg)' = Append(Live(leg), c)
      PROVE  Genuine(leg, copy)'
  <2>1. Live(leg) \in Seq({"part", "rest"})
    BY DEF EvidenceTypeOK, Live
  <2>2. IsPrefix(copy[1], Append(Live(leg), c))
    BY <1>2, <2>1, PrefixStays
  <2>3. IsPrefix(copy[1], Live(leg)')
    BY <1>4, <2>2
  <2> QED
    BY <1>1, <1>2, <1>4, <2>3 DEF Genuine
<1> QED
  BY <1>3, <1>4, SourceGrows
\* The private files change one at a time, at the leg the process is on, which is
\* not over, and then the journal does not.
LEMMA FilesMove ==
  ASSUME EvidenceTypeOK, WalkHolds, [EvidenceNext]_evidence
  PROVE  /\ disk' = [file |-> disk'.file, bundle |-> disk'.bundle, public |-> disk'.public]
         /\ \/ disk'.file = disk.file
            \/ /\ proc.n \in 1..(3 * NumTracks) /\ log.end[Here] = <<>> /\ UNCHANGED log
               /\ \E v : disk'.file = [disk.file EXCEPT ![Here] = v]
<1> DEFINE Still == /\ disk' = [file |-> disk'.file, bundle |-> disk'.bundle,
                               public |-> disk'.public]
                    /\ disk'.file = disk.file
           OneFile == /\ disk' = [file |-> disk'.file, bundle |-> disk'.bundle,
                                 public |-> disk'.public]
                      /\ \E v : disk'.file = [disk.file EXCEPT ![Here] = v]
<1>1. disk = [file |-> disk.file, bundle |-> disk.bundle, public |-> disk.public]
  BY DEF EvidenceTypeOK
<1>2. ASSUME UNCHANGED disk PROVE Still
  BY <1>1, <1>2
<1>3. ASSUME NEW v, disk' = [disk EXCEPT !.file[Here] = v] PROVE OneFile
  BY <1>1, <1>3
<1>4. proc.n \in Nat /\ proc.n >= 1
  BY EvidenceAssumption DEF EvidenceTypeOK
<1>5. proc.at \in OnLeg => proc.n \in 1..(3 * NumTracks) /\ log.end[Here] = <<>>
  BY <1>4, EvidenceAssumption DEF WalkHolds
<1>6. CASE \/ Down \/ Start \/ Persist \/ Terminal \/ Frozen \/ TearDown \/ Judge \/ Replace
           \/ Reboot \/ (\E t \in Tracks, s \in Ledgers : Late(t, s)) \/ UNCHANGED evidence
  BY <1>2, <1>6 DEF Down, Start, Persist, Terminal, Frozen, TearDown, Judge, Replace,
                    Reboot, Late, evidence
<1>7. CASE Leg
  <2>1. CASE log.end[Here] # <<>> \/ log.bytes[Here] # <<>>
    BY <1>2, <1>7, <2>1 DEF Leg
  <2>2. CASE log.end[Here] = <<>> /\ log.bytes[Here] = <<>>
    <3>1. disk' = [disk EXCEPT !.file[Here] = <<>>] /\ UNCHANGED log
      BY <1>7, <2>2 DEF Leg
    <3>2. proc.n \in 1..(3 * NumTracks)
      BY <1>4, <1>7, EvidenceAssumption DEF Leg
    <3> QED
      BY <1>3, <2>2, <3>1, <3>2
  <2> QED
    BY <2>1, <2>2
<1>8. CASE Observe \/ Copy \/ Export
  <2>1. proc.at \in OnLeg /\ UNCHANGED log
    BY <1>8 DEF Observe, Copy, Export, OnLeg, At
  <2>2. UNCHANGED disk \/ disk' = [disk EXCEPT !.file[Here] = <<Live(Here)>>]
    BY <1>8 DEF Observe, Copy, CopySucceeds, Export
  <2> QED
    BY <1>2, <1>3, <1>5, <2>1, <2>2
<1>9. CASE Die
  <2>1. UNCHANGED log
    BY <1>9 DEF Die
  <2>2. \/ UNCHANGED disk
        \/ At("copy") /\ \E c \in Prefixes(Live(Here)) : disk' = [disk EXCEPT !.file[Here] = <<c>>]
    BY <1>9 DEF Die
  <2>3. At("copy") => proc.at \in OnLeg
    BY DEF At, OnLeg
  <2> QED
    BY <1>2, <1>3, <1>5, <2>1, <2>2, <2>3
<1>10. CASE Prepare
  <2>1. UNCHANGED disk \/ disk' = [disk EXCEPT !.bundle = Broken]
    BY <1>10 DEF Prepare
  <2> QED
    BY <1>1, <1>2, <2>1
<1>11. CASE Attest \/ PrepareFailure
  <2>1. \E b : disk' = [disk EXCEPT !.bundle = b]
    BY <1>11 DEF Attest, PrepareFailure
  <2> QED
    BY <1>1, <2>1
<1>12. CASE Publish
  <2>1. UNCHANGED disk \/ disk' = [disk EXCEPT !.public = <<disk.bundle>>]
    BY <1>12 DEF Publish
  <2> QED
    BY <1>1, <1>2, <2>1
<1> QED
  BY <1>6, <1>7, <1>8, <1>9, <1>10, <1>11, <1>12 DEF EvidenceNext, Program

\* The terminal that the process writes of its leg.
Status ==
  IF proc.error # "none" THEN proc.error
  ELSE IF Malformed(Here, proc.copied[1]) THEN "malformed" ELSE "copied"
End == [status |-> Status, copied |-> proc.copied]

Persists ==
  /\ At("compare") /\ disk.file[Here] = proc.seen /\ UNCHANGED disk
  /\ log'.end = log.end /\ log'.freeze = log.freeze /\ log'.attested = log.attested
  /\ log'.bytes = [log.bytes EXCEPT ![Here] = proc.seen]

Ends ==
  /\ At("terminal") /\ Admitted(Here, End) /\ UNCHANGED disk
  /\ log'.bytes = log.bytes /\ log'.freeze = log.freeze /\ log'.attested = log.attested
  /\ log'.end = [log.end EXCEPT ![Here] = <<End>>]

\* The journal takes the bytes of a copy that is what was seen, and a terminal
\* that they admit.
LEMMA LogMoves ==
  ASSUME EvidenceTypeOK, [EvidenceNext]_evidence
  PROVE  /\ log' = [freeze |-> log'.freeze, bytes |-> log'.bytes, end |-> log'.end,
                    attested |-> log'.attested, failure |-> log'.failure]
         /\ log'.freeze \in {"none", "started", "promotable", "partial"}
         /\ \/ log'.bytes = log.bytes /\ log'.end = log.end
            \/ Persists
            \/ Ends
<1> DEFINE Shaped == /\ log' = [freeze |-> log'.freeze, bytes |-> log'.bytes, end |-> log'.end,
                               attested |-> log'.attested, failure |-> log'.failure]
                     /\ log'.freeze \in {"none", "started", "promotable", "partial"}
           Still == log'.bytes = log.bytes /\ log'.end = log.end
<1>1. /\ log = [freeze |-> log.freeze, bytes |-> log.bytes, end |-> log.end,
                attested |-> log.attested, failure |-> log.failure]
      /\ log.freeze \in {"none", "started", "promotable", "partial"}
  BY DEF EvidenceTypeOK
<1>2. ASSUME UNCHANGED log PROVE Shaped /\ Still
  BY <1>1, <1>2
<1>3. CASE \/ Down \/ Leg \/ Observe \/ Copy \/ Export \/ Prepare \/ TearDown \/ Judge
           \/ Publish \/ Die \/ Reboot \/ (\E t \in Tracks, s \in Ledgers : Late(t, s))
           \/ UNCHANGED evidence
  BY <1>2, <1>3 DEF Down, Leg, Observe, Copy, Export, Prepare, TearDown, Judge, Publish,
                    Die, Reboot, Late, evidence
<1>4. CASE Start \/ Frozen
  <2>1. \E f \in {"started", "promotable", "partial"} : log' = [log EXCEPT !.freeze = f]
    BY <1>4 DEF Start, Frozen
  <2> QED
    BY <1>1, <2>1
<1>5. CASE Attest
  <2>1. \E b : log' = [log EXCEPT !.attested = b]
    BY <1>5 DEF Attest
  <2> QED
    BY <1>1, <2>1
<1>6. CASE Replace
  <2>1. log' = [log EXCEPT !.failure = "intent"]
    BY <1>6 DEF Replace
  <2> QED
    BY <1>1, <2>1
<1>7. CASE PrepareFailure
  <2>1. \E b : log' = [log EXCEPT !.failure = "prepared", !.attested = b]
    BY <1>7 DEF PrepareFailure
  <2> QED
    BY <1>1, <2>1
<1>8. CASE Persist
  <2>1. CASE disk.file[Here] = proc.seen
    <3>1. /\ At("compare") /\ UNCHANGED disk
          /\ log' = [log EXCEPT !.bytes[Here] = proc.seen]
      BY <1>8, <2>1 DEF Persist
    <3> QED
      BY <1>1, <2>1, <3>1 DEF Persists
  <2>2. CASE disk.file[Here] # proc.seen
    BY <1>2, <1>8, <2>2 DEF Persist
  <2> QED
    BY <2>1, <2>2
<1>9. CASE Terminal
  <2>1. CASE Admitted(Here, End)
    <3>1. /\ At("terminal") /\ UNCHANGED disk
          /\ log' = [log EXCEPT !.end[Here] = <<End>>]
      BY <1>9, <2>1 DEF Terminal, End, Status
    <3> QED
      BY <1>1, <2>1, <3>1 DEF Ends
  <2>2. CASE ~Admitted(Here, End)
    <3>1. UNCHANGED log
      BY <1>9, <2>2 DEF Terminal, End, Status
    <3> QED
      BY <1>2, <3>1
  <2> QED
    BY <2>1, <2>2
<1> QED
  BY <1>3, <1>4, <1>5, <1>6, <1>7, <1>8, <1>9 DEF EvidenceNext, Program

----------------------------------------------------------------------------
(***************************************************************************)
(* Types.                                                                  *)
(***************************************************************************)
\* The process keeps its shape and visits no leg behind the last.
LEMMA ProcMoves ==
  ASSUME EvidenceTypeOK, WalkHolds, [EvidenceNext]_evidence
  PROVE  /\ proc' = [at |-> proc'.at, n |-> proc'.n, seen |-> proc'.seen,
                     copied |-> proc'.copied, error |-> proc'.error]
         /\ proc'.at \in Places /\ proc'.n \in 1..(3 * NumTracks + 1)
<1> DEFINE Shaped(p) == /\ p = [at |-> p.at, n |-> p.n, seen |-> p.seen,
                               copied |-> p.copied, error |-> p.error]
                        /\ p.at \in Places /\ p.n \in 1..(3 * NumTracks + 1)
<1>1. Shaped(proc)
  BY DEF EvidenceTypeOK
<1>2. NumTracks \in Nat /\ 1 \in 1..(3 * NumTracks + 1)
  BY EvidenceAssumption
<1>3. Shaped(Off)
  BY <1>2 DEF Off, Places
<1>4. ASSUME NEW place \in Places, Go(place) PROVE Shaped(proc')
  BY <1>1, <1>4 DEF Go
<1>5. ASSUME proc.n <= 3 * NumTracks PROVE Shaped(Next1(proc))
  <2>1. Next1(proc) = [at |-> "leg", n |-> proc.n + 1, seen |-> proc.seen, copied |-> <<>>,
                       error |-> "none"]
    <3> DEFINE r == [proc EXCEPT !.at = "leg"]
    <3>1. r = [at |-> "leg", n |-> proc.n, seen |-> proc.seen, copied |-> proc.copied,
               error |-> proc.error]
      BY <1>1
    <3>2. Next1(proc) = [r EXCEPT !.n = r.n + 1, !.copied = <<>>, !.error = "none"]
      BY <3>1 DEF Next1
    <3> HIDE DEF r
    <3> QED
      BY <3>1, <3>2
  <2>2. proc.n + 1 \in 1..(3 * NumTracks + 1)
    BY <1>1, <1>2, <1>5
  <2> QED
    BY <2>1, <2>2 DEF Places, Walking
<1>6. ASSUME CommandFailed PROVE Shaped(proc')
  BY <1>1, <1>6 DEF CommandFailed, Places, Walking, OnLeg
<1>7. CASE Down
  BY <1>4, <1>7 DEF Down, Places, Walking
<1>8. CASE Start \/ Frozen \/ Replace \/ Attest \/ TearDown \/ PrepareFailure
  BY <1>4, <1>8 DEF Start, Frozen, Replace, Attest, TearDown, PrepareFailure, Places, Walking
<1>9. CASE Leg
  <2>1. CASE log.end[Here] # <<>>
    <3>1. proc.n <= 3 * NumTracks /\ (proc' = Next1(proc) \/ proc' = Off)
      BY <1>9, <2>1 DEF Leg
    <3> QED
      BY <1>3, <1>5, <3>1
  <2>2. CASE log.end[Here] = <<>> /\ log.bytes[Here] # <<>>
    <3>1. \/ proc' = [proc EXCEPT !.at = "terminal", !.copied = disk.file[Here]]
          \/ proc' = Off
      BY <1>9, <2>2 DEF Leg
    <3> QED
      BY <1>1, <1>3, <3>1 DEF Places, Walking, OnLeg
  <2>3. CASE log.end[Here] = <<>> /\ log.bytes[Here] = <<>>
    <3>1. Go("observe")
      BY <1>9, <2>3 DEF Leg
    <3> QED
      BY <1>4, <3>1 DEF Places, Walking, OnLeg
  <2> QED
    BY <2>1, <2>2, <2>3
<1>10. CASE Observe
  <2>1. \/ CommandFailed
        \/ \E place \in {"compare", "copy"} :
             proc' = [proc EXCEPT !.seen = <<Live(Here)>>, !.at = place]
    BY <1>10 DEF Observe
  <2> QED
    BY <1>1, <1>6, <2>1 DEF Places, Walking, OnLeg
<1>11. CASE Copy \/ Export
  <2>1. CommandFailed \/ Go("compare") \/ Go("export")
    BY <1>11 DEF Copy, CopySucceeds, Export
  <2> QED
    BY <1>4, <1>6, <2>1 DEF Places, Walking, OnLeg
<1>12. CASE Persist
  <2>1. \E copy, e : proc' = [proc EXCEPT !.at = "terminal", !.copied = copy, !.error = e]
    BY <1>12 DEF Persist
  <2> QED
    BY <1>1, <2>1 DEF Places, Walking, OnLeg
<1>13. CASE Terminal
  <2>1. proc' = Next1(proc) \/ proc' = Off
    BY <1>13 DEF Terminal, Raise
  <2>2. proc.n <= 3 * NumTracks
    BY <1>13 DEF Terminal, At, WalkHolds, OnLeg
  <2> QED
    BY <1>3, <1>5, <2>1, <2>2
<1>14. CASE Prepare
  BY <1>4, <1>14 DEF Prepare, Places
<1>15. CASE Judge
  <2>1. Go("prepare_failure") \/ Go("publish") \/ proc' = Off \/ Go("replace")
    BY <1>15 DEF Judge, Raise
  <2> QED
    BY <1>3, <1>4, <2>1 DEF Places
<1>16. CASE Publish \/ Die \/ Reboot
  BY <1>3, <1>16 DEF Publish, Die, Reboot, Raise
<1>17. CASE (\E t \in Tracks, s \in Ledgers : Late(t, s)) \/ UNCHANGED evidence
  BY <1>1, <1>17 DEF Late, evidence
<1> QED
  BY <1>7, <1>8, <1>9, <1>10, <1>11, <1>12, <1>13, <1>14, <1>15, <1>16, <1>17
     DEF EvidenceNext, Program

LEMMA FaultsCounted ==
  ASSUME faults \in Nat, [EvidenceNext]_evidence
  PROVE  faults' \in Nat
<1>1. faults' = faults \/ faults' = faults + 1
  BY DEF EvidenceNext, Program, evidence, Fault, NoFault, Down, Start, Leg, Observe, Copy,
         CopySucceeds, Export, Persist, Terminal, Frozen, Prepare, Attest, TearDown, Judge,
         Replace, PrepareFailure, Publish, Late, Die, Reboot
<1> QED
  BY <1>1

LEMMA EvidenceTypeStep ==
  ASSUME EvidenceTypeOK, AnsweredIsIdle, WalkHolds, [EvidenceNext]_evidence
  PROVE  EvidenceTypeOK'
<1>1. /\ log'.bytes = [leg \in Legs |-> log'.bytes[leg]]
      /\ log'.end = [leg \in Legs |-> log'.end[leg]]
  BY LogMoves DEF EvidenceTypeOK, Persists, Ends
<1>2. disk'.file = [leg \in Legs |-> disk'.file[leg]]
  BY FilesMove DEF EvidenceTypeOK
<1>3. faults' \in Nat
  BY FaultsCounted DEF EvidenceTypeOK
<1> QED
  BY <1>1, <1>2, <1>3, WorldMoves, SourceGrows, LogMoves, FilesMove, ProcMoves
     DEF EvidenceTypeOK

LEMMA IdleStep ==
  ASSUME EvidenceTypeOK, AnsweredIsIdle, [EvidenceNext]_evidence
  PROVE  AnsweredIsIdle'
BY WorldMoves DEF AnsweredIsIdle, Answered

----------------------------------------------------------------------------
(***************************************************************************)
(* The legs.                                                               *)
(***************************************************************************)
\* Nothing of a leg that is over changes.
LEMMA EndedStays ==
  ASSUME EvidenceTypeOK, WalkHolds, [EvidenceNext]_evidence,
         NEW leg \in Legs, log.end[leg] # <<>>
  PROVE  /\ log'.end[leg] = log.end[leg]
         /\ log'.bytes[leg] = log.bytes[leg]
         /\ disk'.file[leg] = disk.file[leg]
<1>1. proc.at \in OnLeg => leg # Here
  BY DEF WalkHolds
<1>2. disk'.file[leg] = disk.file[leg]
  <2>1. CASE disk'.file = disk.file
    BY <2>1
  <2>2. ASSUME log.end[Here] = <<>>, NEW v, disk'.file = [disk.file EXCEPT ![Here] = v]
        PROVE  disk'.file[leg] = disk.file[leg]
    BY <2>2 DEF EvidenceTypeOK
  <2> QED
    BY <2>1, <2>2, FilesMove
<1>3. CASE log'.bytes = log.bytes /\ log'.end = log.end
  BY <1>2, <1>3
<1>4. CASE Persists
  BY <1>1, <1>2, <1>4 DEF Persists, At, OnLeg, EvidenceTypeOK
<1>5. CASE Ends
  BY <1>1, <1>2, <1>5 DEF Ends, At, OnLeg, EvidenceTypeOK
<1> QED
  BY <1>3, <1>4, <1>5, LogMoves

LEMMA BytesStep ==
  ASSUME EvidenceTypeOK, AnsweredIsIdle, WalkHolds, BytesAreGenuine, [EvidenceNext]_evidence
  PROVE  BytesAreGenuine'
<1> SUFFICES ASSUME NEW leg \in Legs, NEW b, b = log'.bytes[leg], b # <<>>
             PROVE  Genuine(leg, b)'
  BY DEF BytesAreGenuine, Genuine
<1>1. CASE b = log.bytes[leg]
  <2>1. Genuine(leg, b)
    BY <1>1 DEF BytesAreGenuine
  <2> QED
    BY <2>1, GenuineStays
<1>2. CASE b # log.bytes[leg]
  <2>1. Persists
    BY <1>2, LogMoves DEF Ends
  <2>2. leg = Here /\ b = proc.seen
    BY <1>2, <2>1 DEF Persists, EvidenceTypeOK
  <2>3. Genuine(leg, b)
    BY <2>1, <2>2 DEF Persists, At, WalkHolds
  <2> QED
    BY <2>3, GenuineStays
<1> QED
  BY <1>1, <1>2

\* Whether the request was completed never changes, so what was malformed is.
LEMMA MalformedStays ==
  ASSUME EvidenceTypeOK, [EvidenceNext]_evidence, NEW leg, NEW c
  PROVE  /\ Completed' = Completed
         /\ Malformed(leg, c)' = Malformed(leg, c)
<1>1. Completed' = Completed
  BY WorldMoves DEF Completed
<1> QED
  BY <1>1 DEF Malformed

LEMMA EndsStep ==
  ASSUME EvidenceTypeOK, AnsweredIsIdle, WalkHolds, BytesAreGenuine, EndsAreGenuine,
         [EvidenceNext]_evidence
  PROVE  EndsAreGenuine'
<1> SUFFICES ASSUME NEW leg \in Legs, NEW b, b = log'.end[leg], b # <<>>
             PROVE  /\ disk'.file[leg] = b[1].copied
                    /\ b[1].status \in {"copied", "malformed"} => Genuine(leg, b[1].copied)'
                    /\ b[1].status = "copied" => ~Malformed(leg, b[1].copied[1])'
  BY DEF EndsAreGenuine, Reattests, Kept, Genuine, Malformed
<1>1. CASE log.end[leg] # <<>>
  <2>1. b = log.end[leg] /\ disk'.file[leg] = disk.file[leg]
    BY <1>1, EndedStays
  <2>2. /\ disk.file[leg] = b[1].copied
        /\ b[1].status \in {"copied", "malformed"} => Genuine(leg, b[1].copied)
        /\ b[1].status = "copied" => ~Malformed(leg, b[1].copied[1])
    BY <1>1, <2>1 DEF EndsAreGenuine, Reattests, Kept
  <2> QED
    BY <2>1, <2>2, GenuineStays, MalformedStays
<1>2. CASE log.end[leg] = <<>>
  <2>1. Ends
    BY <1>2, LogMoves DEF Persists
  <2>2. leg = Here /\ b = <<End>>
    BY <1>2, <2>1 DEF Ends, EvidenceTypeOK
  <2>3. b[1].status = Status /\ b[1].copied = proc.copied
    BY <2>2 DEF End
  <2>4. /\ proc.error \in {"none", "command_failed", "mismatch"}
        /\ disk.file[leg] = proc.copied
        /\ proc.error = "none" => proc.copied # <<>>
    BY <2>1, <2>2 DEF Ends, At, WalkHolds
  <2>5. disk'.file[leg] = b[1].copied
    BY <2>1, <2>3, <2>4 DEF Ends
  <2>6. Status \in {"copied", "malformed"} => proc.error = "none"
    BY <2>4 DEF Status
  <2>7. Status = "copied" => ~Malformed(leg, proc.copied[1])
    BY <2>2, <2>6 DEF Status
  <2>8. b[1].status \in {"copied", "malformed"} => Genuine(leg, b[1].copied)'
    <3> SUFFICES ASSUME Status \in {"copied", "malformed"} PROVE Genuine(leg, b[1].copied)'
      BY <2>3
    <3>1. End.status = Status /\ End.copied = proc.copied
      BY DEF End
    <3>2. log.bytes[leg] = proc.copied
      BY <2>1, <2>2, <3>1 DEF Ends, Admitted
    <3>3. Genuine(leg, b[1].copied)
      BY <2>3, <2>4, <2>6, <3>2 DEF BytesAreGenuine
    <3> QED
      BY <3>3, GenuineStays
  <2>9. b[1].status = "copied" => ~Malformed(leg, b[1].copied[1])'
    <3>1. b[1].status = "copied" => ~Malformed(leg, b[1].copied[1])
      BY <2>3, <2>7
    <3> QED
      BY <3>1, MalformedStays
  <2> QED
    BY <2>5, <2>8, <2>9
<1> QED
  BY <1>1, <1>2

\* The process on its way through the legs.  A leg is entered when it is not
\* over, and left when it is.
LEMMA WalkStep ==
  ASSUME EvidenceTypeOK, AnsweredIsIdle, WalkHolds, EndsAreGenuine, [EvidenceNext]_evidence
  PROVE  WalkHolds'
<1>1. /\ proc = [at |-> proc.at, n |-> proc.n, seen |-> proc.seen, copied |-> proc.copied,
                 error |-> proc.error]
      /\ proc.n \in Nat /\ proc.n >= 1 /\ NumTracks \in Nat
  BY EvidenceAssumption DEF EvidenceTypeOK
<1>2. /\ log'.end = [leg \in Legs |-> log'.end[leg]]
      /\ disk'.file = [leg \in Legs |-> disk'.file[leg]]
  BY EvidenceTypeStep DEF EvidenceTypeOK
<1>3. \A leg \in Legs : log.end[leg] # <<>> => log'.end[leg] # <<>>
  BY EndedStays
<1>4. \A m \in 1..(proc.n - 1) : LegAt(m) \in Legs
  <2> SUFFICES ASSUME NEW m \in 1..(proc.n - 1) PROVE LegAt(m) \in Legs
    OBVIOUS
  <2>1. m \in 1..(3 * NumTracks)
    BY <1>1 DEF EvidenceTypeOK
  <2> QED
    BY <2>1, LegAtIsLeg
<1>5. ASSUME proc' = Off PROVE WalkHolds'
  BY <1>5 DEF Off, WalkHolds, Walking, OnLeg
<1>6. ASSUME NEW place \in Places \ ({"off", "start"} \cup Walking), proc'.at = place
      PROVE  WalkHolds'
  BY <1>6 DEF WalkHolds, Walking, OnLeg
<1>7. ASSUME proc'.n = proc.n, proc.at \in Walking
      PROVE  \A m \in 1..(proc'.n - 1) : log'.end[LegAt(m)] # <<>>
  BY <1>3, <1>4, <1>7 DEF WalkHolds
<1>8. ASSUME proc.n <= 3 * NumTracks, proc'.n = proc.n,
             NEW s, s = proc'.seen, Genuine(Here, s)
      PROVE  Genuine(Here, proc.seen)'
  <2>1. PICK h \in Legs : h = Here
    BY <1>1, <1>8, LegAtIsLeg DEF Here
  <2>2. Genuine(h, s)'
    BY <1>8, <2>1, GenuineStays
  <2> QED
    BY <1>8, <2>1, <2>2 DEF Genuine, Here
<1>9. ASSUME proc.at \in OnLeg PROVE proc.n <= 3 * NumTracks /\ Here \in Legs
  BY <1>1, <1>9, LegAtIsLeg DEF WalkHolds, Here
<1>10. ASSUME UNCHANGED <<log, disk, proc>> PROVE WalkHolds'
  <2>1. Here' = Here
    BY <1>10 DEF Here
  <2>2. proc.at \in {"copy", "export", "compare"} => Genuine(Here, proc.seen)'
    BY <1>8, <1>9, <1>10 DEF WalkHolds, OnLeg
  <2> QED
    BY <1>10, <2>1, <2>2 DEF WalkHolds
\* A leg that is over is left for the next.
<1>11. ASSUME proc' = Next1(proc), proc.at \in Walking, proc.n <= 3 * NumTracks,
              log'.end[Here] # <<>>
       PROVE  WalkHolds'
  <2>1. proc'.at = "leg" /\ proc'.n = proc.n + 1 /\ proc'.error = "none"
    BY <1>1, <1>11 DEF Next1
  <2>2. \A m \in 1..(proc'.n - 1) : log'.end[LegAt(m)] # <<>>
    <3> SUFFICES ASSUME NEW m \in 1..proc.n PROVE log'.end[LegAt(m)] # <<>>
      BY <1>1, <2>1
    <3>1. CASE m = proc.n
      BY <1>11, <3>1 DEF Here
    <3>2. CASE m \in 1..(proc.n - 1)
      BY <1>3, <1>4, <1>11, <3>2 DEF WalkHolds
    <3> QED
      BY <1>1, <3>1, <3>2
  <2> QED
    BY <2>1, <2>2 DEF WalkHolds, OnLeg
\* The same leg, at the next place.
<1>12. ASSUME proc.at \in Walking, proc.n <= 3 * NumTracks, proc'.n = proc.n,
              log'.end[Here] = <<>>, proc'.at \in OnLeg,
              proc'.at # "terminal" => log'.bytes[Here] = <<>>,
              proc'.at \in {"observe", "copy", "export"} => disk'.file[Here] = <<>>,
              proc'.at \in {"copy", "export", "compare"} => Genuine(Here, proc.seen)',
              proc'.at = "terminal" =>
                /\ proc'.error \in {"none", "command_failed", "mismatch"}
                /\ disk'.file[Here] = proc'.copied
                /\ proc'.error = "none" => proc'.copied # <<>>
       PROVE  WalkHolds'
  <2>1. Here' = Here
    BY <1>12 DEF Here
  <2> QED
    BY <1>7, <1>12, <2>1 DEF WalkHolds, OnLeg
<1>13. ASSUME CommandFailed, proc.at \in {"observe", "copy", "export"},
              UNCHANGED <<log, disk>>
       PROVE  WalkHolds'
  <2>1. /\ proc'.at = "terminal" /\ proc'.n = proc.n /\ proc'.copied = <<>>
        /\ proc'.error = "command_failed"
    BY <1>1, <1>13 DEF CommandFailed
  <2>2. disk.file[Here] = <<>> /\ log.end[Here] = <<>>
    BY <1>13 DEF WalkHolds, OnLeg
  <2> QED
    BY <1>9, <1>12, <1>13, <2>1, <2>2 DEF OnLeg, Walking
<1>14. CASE Down
  <2>1. proc.n = 1 /\ proc.error = "none" /\ UNCHANGED <<log, disk>>
    BY <1>14 DEF Down, At, WalkHolds
  <2>2. PICK place \in {"judge", "start", "leg"} : Go(place)
    BY <1>14 DEF Down
  <2>3. proc'.at = place /\ proc'.n = 1 /\ proc'.error = "none"
    BY <1>1, <2>1, <2>2 DEF Go
  <2> QED
    BY <2>3 DEF WalkHolds, Walking, OnLeg
<1>15. CASE Start
  <2>1. proc'.at = "leg" /\ proc'.n = 1 /\ proc'.error = "none"
    BY <1>1, <1>15 DEF Start, At, Go, WalkHolds
  <2> QED
    BY <2>1 DEF WalkHolds, Walking, OnLeg
<1>16. CASE Leg
  <2>1. proc.at = "leg" /\ proc.at \in Walking /\ proc.n <= 3 * NumTracks /\ UNCHANGED log
    BY <1>16 DEF Leg, At, Walking
  <2>2. Here \in Legs /\ proc.error = "none"
    BY <1>1, <2>1, LegAtIsLeg DEF WalkHolds, Here
  <2>3. CASE log.end[Here] # <<>>
    <3>1. proc' = Next1(proc) \/ proc' = Off
      BY <1>16, <2>3 DEF Leg
    <3> QED
      BY <1>5, <1>11, <2>1, <2>3, <3>1
  <2>4. CASE log.end[Here] = <<>> /\ log.bytes[Here] # <<>>
    <3>1. UNCHANGED disk
      BY <1>16, <2>4 DEF Leg
    <3>2. CASE disk.file[Here] = log.bytes[Here]
      <4>1. proc' = [proc EXCEPT !.at = "terminal", !.copied = disk.file[Here]]
        BY <1>16, <2>4, <3>2 DEF Leg
      <4>2. /\ proc'.at = "terminal" /\ proc'.n = proc.n /\ proc'.error = "none"
            /\ proc'.copied = disk.file[Here]
        BY <1>1, <2>2, <4>1
      <4> QED
        BY <1>12, <2>1, <2>4, <3>1, <3>2, <4>2 DEF OnLeg
    <3>3. CASE disk.file[Here] # log.bytes[Here]
      BY <1>5, <1>16, <2>4, <3>3 DEF Leg
    <3> QED
      BY <3>2, <3>3
  <2>5. CASE log.end[Here] = <<>> /\ log.bytes[Here] = <<>>
    <3>1. disk' = [disk EXCEPT !.file[Here] = <<>>] /\ Go("observe")
      BY <1>16, <2>5 DEF Leg
    <3>2. proc'.at = "observe" /\ proc'.n = proc.n
      BY <1>1, <3>1 DEF Go
    <3>3. disk'.file[Here] = <<>>
      BY <2>2, <3>1 DEF EvidenceTypeOK
    <3> QED
      BY <1>12, <2>1, <2>5, <3>2, <3>3 DEF OnLeg
  <2> QED
    BY <2>3, <2>4, <2>5
<1>17. CASE Observe
  <2>1. proc.at = "observe" /\ UNCHANGED <<world, log>>
    BY <1>17 DEF Observe, At
  <2>2. /\ proc.n <= 3 * NumTracks /\ Here \in Legs /\ proc.at \in Walking
        /\ log.end[Here] = <<>> /\ log.bytes[Here] = <<>> /\ disk.file[Here] = <<>>
    BY <1>9, <2>1 DEF WalkHolds, OnLeg, Walking
  <2>3. CASE CommandFailed /\ UNCHANGED disk
    BY <1>13, <2>1, <2>3
  <2>4. ASSUME proc' = [proc EXCEPT !.seen = <<Live(Here)>>,
                          !.at = IF Here[2] = "envoy" THEN "compare" ELSE "copy"],
               disk' = IF Here[2] = "envoy"
                       THEN [disk EXCEPT !.file[Here] = <<Live(Here)>>] ELSE disk
        PROVE  WalkHolds'
    <3>1. /\ proc'.n = proc.n /\ proc'.seen = <<Live(Here)>>
          /\ proc'.at = IF Here[2] = "envoy" THEN "compare" ELSE "copy"
      BY <1>1, <2>4
    <3>2. Live(Here) \in Seq({"part", "rest"})
      BY <2>2 DEF EvidenceTypeOK, Live
    <3>3. Genuine(Here, <<Live(Here)>>)
      BY <3>2, PrefixOfItself DEF Genuine
    <3>4. Genuine(Here, proc.seen)'
      BY <1>8, <2>2, <3>1, <3>3
    <3>5. proc'.at = "copy" => disk' = disk
      BY <2>4, <3>1
    <3> QED
      BY <1>12, <2>1, <2>2, <3>1, <3>4, <3>5 DEF OnLeg
  <2> QED
    BY <1>17, <2>3, <2>4 DEF Observe
<1>18. CASE Copy \/ Export
  <2>1. proc.at \in {"copy", "export"} /\ UNCHANGED <<world, log>>
    BY <1>18 DEF Copy, Export, At
  <2>2. /\ proc.n <= 3 * NumTracks /\ Here \in Legs /\ proc.at \in Walking
        /\ log.end[Here] = <<>> /\ log.bytes[Here] = <<>> /\ disk.file[Here] = <<>>
        /\ Genuine(Here, proc.seen)
    BY <1>9, <2>1 DEF WalkHolds, OnLeg, Walking
  <2>3. CASE CommandFailed /\ UNCHANGED disk
    BY <1>13, <2>1, <2>3
  <2>4. CASE Go("compare") \/ (Go("export") /\ UNCHANGED disk)
    <3>1. /\ proc'.n = proc.n /\ proc'.seen = proc.seen
          /\ proc'.at = "compare" \/ (proc'.at = "export" /\ UNCHANGED disk)
      BY <1>1, <2>4 DEF Go
    <3>2. Genuine(Here, proc.seen)'
      BY <1>8, <2>2, <3>1
    <3> QED
      BY <1>12, <2>1, <2>2, <3>1, <3>2 DEF OnLeg
  <2> QED
    BY <1>18, <2>3, <2>4 DEF Copy, CopySucceeds, Export
<1>19. CASE Persist
  <2>1. /\ proc.at = "compare" /\ UNCHANGED disk
        /\ proc' = [proc EXCEPT !.at = "terminal", !.copied = disk.file[Here],
                               !.error = IF disk.file[Here] = proc.seen THEN "none"
                                         ELSE "mismatch"]
    BY <1>19 DEF Persist, At
  <2>2. /\ proc.n <= 3 * NumTracks /\ Here \in Legs /\ proc.at \in Walking
        /\ log.end[Here] = <<>> /\ Genuine(Here, proc.seen)
    BY <1>9, <2>1 DEF WalkHolds, OnLeg, Walking
  <2>3. /\ proc'.at = "terminal" /\ proc'.n = proc.n /\ proc'.copied = disk.file[Here]
        /\ proc'.error = IF disk.file[Here] = proc.seen THEN "none" ELSE "mismatch"
    BY <1>1, <2>1
  <2>4. proc.seen # <<>>
    BY <2>2 DEF Genuine
  <2>5. log'.end = log.end
    <3>1. log' = log \/ \E c : log' = [log EXCEPT !.bytes[Here] = c]
      BY <1>19 DEF Persist
    <3> QED
      BY <3>1 DEF EvidenceTypeOK
  <2> QED
    BY <1>12, <2>1, <2>2, <2>3, <2>4, <2>5 DEF OnLeg
<1>20. CASE Terminal
  <2>1. proc.at = "terminal" /\ (proc' = Off \/ (proc' = Next1(proc) /\
          log' = [log EXCEPT !.end[Here] = <<End>>]))
    BY <1>20 DEF Terminal, At, Raise, End, Status
  <2>2. proc.n <= 3 * NumTracks /\ Here \in Legs /\ proc.at \in Walking
    BY <1>9, <2>1 DEF OnLeg, Walking
  <2>3. ASSUME log' = [log EXCEPT !.end[Here] = <<End>>] PROVE log'.end[Here] # <<>>
    <3>1. log'.end[Here] = <<End>>
      BY <2>2, <2>3 DEF EvidenceTypeOK
    <3> QED
      BY <3>1
  <2> QED
    BY <1>5, <1>11, <2>1, <2>2, <2>3
<1>21. CASE \/ Frozen \/ Prepare \/ Attest \/ TearDown \/ Replace \/ PrepareFailure \/ Judge
  <2>1. \/ proc' = Off
        \/ \E place \in Places \ ({"off", "start"} \cup Walking) : Go(place)
    BY <1>21 DEF Frozen, Prepare, Attest, TearDown, Replace, PrepareFailure, Judge, Raise,
                 Places, Walking, OnLeg
  <2> QED
    BY <1>1, <1>5, <1>6, <2>1 DEF Go
<1>22. CASE Publish \/ Die \/ Reboot
  BY <1>5, <1>22 DEF Publish, Die, Reboot, Raise
<1>23. CASE (\E t \in Tracks, s \in Ledgers : Late(t, s)) \/ UNCHANGED evidence
  BY <1>10, <1>23 DEF Late, evidence
<1> QED
  BY <1>14, <1>15, <1>16, <1>17, <1>18, <1>19, <1>20, <1>21, <1>22, <1>23
     DEF EvidenceNext, Program

----------------------------------------------------------------------------
(***************************************************************************)
(* The freeze and the bundles made of it.                                  *)
(***************************************************************************)
\* A freeze begins and ends, and bundles are attested, at a step of their own.
LEMMA StagesMove ==
  ASSUME EvidenceTypeOK, [EvidenceNext]_evidence
  PROVE  /\ log'.freeze = log.freeze \/ log'.freeze = "started" \/ Frozen
         /\ log'.attested = log.attested \/ Attest \/ PrepareFailure
         /\ proc'.at = "prepare" => Frozen \/ UNCHANGED <<log, proc>>
         /\ proc'.at = "attest" => Prepare \/ UNCHANGED <<log, proc>>
<1>1. /\ proc = [at |-> proc.at, n |-> proc.n, seen |-> proc.seen, copied |-> proc.copied,
                 error |-> proc.error]
      /\ log = [freeze |-> log.freeze, bytes |-> log.bytes, end |-> log.end,
                attested |-> log.attested, failure |-> log.failure]
  BY DEF EvidenceTypeOK
<1>2. ASSUME UNCHANGED log
      PROVE  log'.freeze = log.freeze /\ log'.attested = log.attested
  BY <1>2
<1>3. ASSUME NEW place, Go(place) PROVE proc'.at = place
  BY <1>1, <1>3 DEF Go
<1>4. Off.at = "off" /\ Next1(proc).at = "leg"
  BY <1>1 DEF Off, Next1
<1>5. CommandFailed => proc'.at = "terminal"
  BY <1>1 DEF CommandFailed
<1>6. CASE Down
  BY <1>2, <1>3, <1>6 DEF Down
<1>7. CASE Start
  <2>1. log'.freeze = "started" /\ log'.attested = log.attested
    BY <1>1, <1>7 DEF Start
  <2> QED
    BY <1>3, <1>7, <2>1 DEF Start
<1>8. CASE Leg
  <2>1. UNCHANGED log
    BY <1>8 DEF Leg
  <2>2. \/ proc' \in {Next1(proc), Off} \/ Go("observe")
        \/ proc' = [proc EXCEPT !.at = "terminal", !.copied = disk.file[Here]]
    BY <1>8 DEF Leg
  <2>3. proc'.at \in {"leg", "off", "observe", "terminal"}
    BY <1>1, <1>3, <1>4, <2>2
  <2> QED
    BY <1>2, <2>1, <2>3
<1>9. CASE Observe
  <2>1. \/ CommandFailed
        \/ \E place \in {"compare", "copy"} :
             proc' = [proc EXCEPT !.seen = <<Live(Here)>>, !.at = place]
    BY <1>9 DEF Observe
  <2>2. proc'.at \in {"terminal", "compare", "copy"}
    BY <1>1, <1>5, <2>1
  <2> QED
    BY <1>2, <1>9, <2>2 DEF Observe
<1>10. CASE Copy \/ Export
  <2>1. proc'.at \in {"terminal", "compare", "export"} /\ UNCHANGED log
    BY <1>3, <1>5, <1>10 DEF Copy, CopySucceeds, Export
  <2> QED
    BY <1>2, <2>1
<1>11. CASE Persist
  <2>1. log' = log \/ \E c : log' = [log EXCEPT !.bytes[Here] = c]
    BY <1>11 DEF Persist
  <2>2. proc'.at = "terminal"
    BY <1>1, <1>11 DEF Persist
  <2> QED
    BY <1>1, <2>1, <2>2
<1>12. CASE Terminal
  <2>1. log' = log \/ \E c : log' = [log EXCEPT !.end[Here] = c]
    BY <1>12 DEF Terminal
  <2>2. proc' \in {Next1(proc), Off}
    BY <1>12 DEF Terminal, Raise
  <2> QED
    BY <1>1, <1>4, <2>1, <2>2
<1>13. CASE Frozen
  <2>1. log'.attested = log.attested
    BY <1>1, <1>13 DEF Frozen
  <2> QED
    BY <1>3, <1>13, <2>1 DEF Frozen
<1>14. CASE Prepare
  <2>1. UNCHANGED log /\ proc'.at \in {"attest", "reject"}
    BY <1>3, <1>14 DEF Prepare
  <2> QED
    BY <1>2, <1>14, <2>1
<1>15. CASE Attest
  <2>1. log'.freeze = log.freeze /\ proc'.at = "remove"
    BY <1>1, <1>3, <1>15 DEF Attest
  <2> QED
    BY <1>15, <2>1
<1>16. CASE TearDown \/ Judge
  <2>1. UNCHANGED log /\ proc'.at \in {"publish", "replace", "prepare_failure", "off"}
    BY <1>3, <1>4, <1>16 DEF TearDown, Judge, Raise
  <2> QED
    BY <1>2, <2>1
<1>17. CASE Replace
  <2>1. log'.freeze = log.freeze /\ log'.attested = log.attested
    BY <1>1, <1>17 DEF Replace
  <2> QED
    BY <1>3, <1>17, <2>1 DEF Replace
<1>18. CASE PrepareFailure
  <2>1. log'.freeze = log.freeze /\ proc'.at = "publish"
    BY <1>1, <1>3, <1>18 DEF PrepareFailure
  <2> QED
    BY <1>18, <2>1
<1>19. CASE Publish \/ Die \/ Reboot
  BY <1>2, <1>4, <1>19 DEF Publish, Die, Reboot, Raise
<1>20. CASE (\E t \in Tracks, s \in Ledgers : Late(t, s)) \/ UNCHANGED evidence
  BY <1>2, <1>20 DEF Late, evidence
<1> QED
  BY <1>6, <1>7, <1>8, <1>9, <1>10, <1>11, <1>12, <1>13, <1>14, <1>15, <1>16, <1>17, <1>18,
     <1>19, <1>20 DEF EvidenceNext, Program

LEMMA FreezeStep ==
  ASSUME EvidenceTypeOK, AnsweredIsIdle, WalkHolds, FreezeHolds, [EvidenceNext]_evidence
  PROVE  FreezeHolds'
<1>1. ASSUME Frozen PROVE \A leg \in Legs : log.end[leg] # <<>>
  <2> SUFFICES ASSUME NEW leg \in Legs PROVE log.end[leg] # <<>>
    OBVIOUS
  <2>1. PICK m \in 1..(3 * NumTracks) : LegAt(m) = leg
    BY EveryLegIsVisited
  <2>2. m \in 1..(proc.n - 1)
    BY <1>1, EvidenceAssumption DEF Frozen, EvidenceTypeOK
  <2> QED
    BY <1>1, <2>1, <2>2 DEF Frozen, At, WalkHolds, Walking
<1>2. ASSUME Frozen
      PROVE  /\ log'.freeze = IF Promotable THEN "promotable" ELSE "partial"
             /\ log'.end = log.end /\ proc'.at = "prepare"
  BY <1>2 DEF Frozen, Go, EvidenceTypeOK
<1>3. ASSUME \A leg \in Legs : log.end[leg] # <<>>
      PROVE  /\ \A leg \in Legs : log'.end[leg] = log.end[leg] /\ log'.end[leg] # <<>>
             /\ Promotable => Promotable'
             /\ Preserved' = Preserved
  <2>1. \A leg \in Legs : log'.end[leg] = log.end[leg] /\ log'.end[leg] # <<>>
    BY <1>3, EndedStays
  <2>2. Completed' = Completed
    BY MalformedStays
  <2> QED
    BY <2>1, <2>2 DEF Promotable, Preserved
<1>4. CASE Frozen
  BY <1>1, <1>2, <1>3, <1>4 DEF FreezeHolds
<1>5. ASSUME ~Frozen
      PROVE  /\ log'.freeze \in {"promotable", "partial"} => \A leg \in Legs : log'.end[leg] # <<>>
             /\ log'.freeze = "promotable" => Promotable'
  <2> SUFFICES ASSUME log'.freeze = log.freeze, log.freeze \in {"promotable", "partial"}
               PROVE  /\ \A leg \in Legs : log'.end[leg] # <<>>
                      /\ log.freeze = "promotable" => Promotable'
    BY <1>5, StagesMove
  <2> QED
    BY <1>3 DEF FreezeHolds
<1>6. ASSUME ~Frozen, proc'.at = "prepare"
      PROVE  log'.freeze \in {"promotable", "partial"}
  BY <1>6, StagesMove DEF FreezeHolds
<1>7. \A data : Joins(data)' <=> Joins(data)
  BY WorldMoves DEF Joins, Decided
<1>8. ASSUME ~Frozen, proc'.at = "attest"
      PROVE  /\ log'.freeze \in {"promotable", "partial"}
             /\ log'.freeze = "promotable" => Joins(Preserved)'
  <2>1. CASE Prepare
    <3>1. UNCHANGED log /\ proc.at = "prepare"
      BY <2>1 DEF Prepare, At
    <3>2. log.freeze = "promotable" => Joins(Preserved)
      <4>1. proc'.at = "reject" \/ (log.freeze = "promotable" => Joins(Preserved))
        BY <2>1 DEF Prepare, Go, EvidenceTypeOK
      <4> QED
        BY <1>8, <4>1
    <3>3. PICK data : data = Preserved
      OBVIOUS
    <3>4. Preserved' = data
      BY <3>1, <3>3 DEF Preserved
    <3>5. log.freeze = "promotable" => Joins(data)'
      BY <1>7, <3>2, <3>3
    <3>6. log.freeze = "promotable" => Joins(Preserved)'
      BY <3>4, <3>5 DEF Joins
    <3> QED
      BY <3>1, <3>6 DEF FreezeHolds
  <2>2. CASE UNCHANGED <<log, proc>>
    <3>1. PICK data : data = Preserved
      OBVIOUS
    <3>2. Preserved' = data
      BY <2>2, <3>1 DEF Preserved
    <3>3. log.freeze = "promotable" => Joins(data)'
      BY <1>7, <1>8, <2>2, <3>1 DEF FreezeHolds
    <3>4. log.freeze = "promotable" => Joins(Preserved)'
      BY <3>2, <3>3 DEF Joins
    <3> QED
      BY <1>8, <2>2, <3>4 DEF FreezeHolds
  <2> QED
    BY <1>8, <2>1, <2>2, StagesMove
<1>9. CASE ~Frozen
  BY <1>5, <1>6, <1>8, <1>9 DEF FreezeHolds
<1> QED
  BY <1>4, <1>9

\* What a bundle keeps of a leg that is over: a copy that is not malformed, or
\* nothing.
LEMMA PreservedIsSound ==
  ASSUME EndsAreGenuine, \A leg \in Legs : log.end[leg] # <<>>, NEW leg \in Legs
  PROVE  /\ Preserved[leg] \in Contents /\ Records(Preserved[leg]) \in {0, 1}
         /\ log.end[leg][1].status = "copied" /\ Completed =>
              /\ Preserved[leg] = Live(leg)
              /\ Records(Preserved[leg]) = Expected(leg)
<1>1. Expected(leg) \in {0, 1}
  BY DEF Expected
<1>2. CASE log.end[leg][1].status # "copied"
  BY <1>2, ContentsCounted DEF Preserved
<1>3. CASE log.end[leg][1].status = "copied"
  <2> DEFINE c == log.end[leg][1].copied[1]
  <2>1. Preserved[leg] = c
    BY <1>3 DEF Preserved
  <2>2. ~Malformed(leg, c) /\ Kept(leg)
    BY <1>3 DEF EndsAreGenuine, Kept
  <2>3. c \in Contents /\ Records(c) \in {0, 1, 2}
    BY <2>2, ContentsCounted DEF Malformed
  <2>4. Completed => Records(c) = Expected(leg)
    BY <2>2 DEF Malformed
  <2>5. ~Completed => ~(Records(c) > 1)
    BY <2>2 DEF Malformed
  <2>6. Completed => c = Live(leg)
    <3>1. Completed => Answered(leg[1])
      BY DEF Completed, Answered, Legs
    <3> QED
      BY <2>2, <3>1 DEF EndsAreGenuine, Genuine
  <2> HIDE DEF c
  <2>7. Records(c) \in {0, 1}
    BY <1>1, <2>3, <2>4, <2>5
  <2> QED
    BY <2>1, <2>3, <2>4, <2>6, <2>7
<1> QED
  BY <1>2, <1>3

\* A bundle's checks.
Checked(bundle) == TreeStands(bundle) /\ SourcesCounted(bundle) /\ Accepts(bundle)

\* A promotable freeze makes a complete bundle that passes them.
LEMMA CompleteIsChecked ==
  ASSUME EndsAreGenuine, \A leg \in Legs : log.end[leg] # <<>>, Promotable, Joins(Preserved)
  PROVE  /\ Checked(Bundle("complete", Preserved))
         /\ \A leg \in Legs : Answered(leg[1]) /\ Preserved[leg] = Live(leg)
<1> DEFINE bundle == Bundle("complete", Preserved)
<1>1. \A leg \in Legs : /\ Preserved[leg] \in Contents
                        /\ Preserved[leg] = Live(leg)
                        /\ Records(Preserved[leg]) = Expected(leg)
  BY PreservedIsSound DEF Promotable
<1>2. bundle.class = "complete" /\ bundle.data = Preserved
  BY DEF Bundle
<1>3. \A t \in Tracks : <<t, "authz">> \in Legs /\ Expected(<<t, "authz">>) = 1
  BY DEF Legs, Sources, Ledgers, Expected
<1>4. \A leg \in Legs : Answered(leg[1])
  BY DEF Promotable, Completed, Answered, Legs
<1> HIDE DEF bundle
<1>5. TreeStands(bundle)
  BY <1>1, <1>2, <1>3 DEF TreeStands
<1>6. SourcesCounted(bundle)
  BY <1>1, <1>2 DEF SourcesCounted
<1>7. Accepts(bundle)
  BY <1>1, <1>2 DEF Accepts, AcceptedAsProof
<1> USE DEF bundle
<1> QED
  BY <1>1, <1>4, <1>5, <1>6, <1>7 DEF Checked

\* Any freeze makes an incomplete bundle that does, and so does none at all.
LEMMA IncompleteIsChecked ==
  ASSUME NEW data,
         \A leg \in Legs : data[leg] \in Contents /\ Records(data[leg]) \in {0, 1}
  PROVE  Checked(Bundle("incomplete", data))
<1> DEFINE bundle == Bundle("incomplete", data)
<1>1. bundle.class = "incomplete" /\ bundle.data = data
  BY DEF Bundle
<1>2. \A t \in Tracks : <<t, "authz">> \in Legs
  BY DEF Legs, Sources, Ledgers
<1> HIDE DEF bundle
<1>3. TreeStands(bundle)
  <2>1. ASSUME NEW t \in Tracks
        PROVE  /\ data[<<t, "authz">>] \in Contents
               /\ Records(data[<<t, "authz">>]) <= 1
    <3>1. Records(data[<<t, "authz">>]) \in {0, 1}
      BY <1>2
    <3> QED
      BY <1>2, <3>1
  <2> QED
    BY <1>1, <2>1 DEF TreeStands
<1>4. SourcesCounted(bundle)
  BY <1>1 DEF SourcesCounted
<1>5. Accepts(bundle)
  <2>1. ASSUME NEW leg \in Legs PROVE Records(data[leg]) <= 1
    <3>1. Records(data[leg]) \in {0, 1}
      OBVIOUS
    <3> QED
      BY <3>1
  <2> QED
    BY <1>1, <2>1 DEF Accepts, AcceptedAsFailure
<1> USE DEF bundle
<1> QED
  BY <1>3, <1>4, <1>5 DEF Checked

\* What was attested stands, whatever is appended later: nobody writes behind an
\* answer.
LEMMA AttestedStep ==
  ASSUME EvidenceTypeOK, AnsweredIsIdle, EndsAreGenuine, FreezeHolds, AttestedHolds,
         [EvidenceNext]_evidence
  PROVE  AttestedHolds'
<1> DEFINE Whole(bundle) ==
             bundle.class = "complete" =>
               \A leg \in Legs : Answered(leg[1]) /\ bundle.data[leg] = Live(leg)
<1>1. ASSUME NEW b, Checked(b), Whole(b), log'.attested[1] = b
      PROVE  AttestedHolds'
  <2>1. TreeStands(b)' /\ SourcesCounted(b)'
    BY <1>1 DEF Checked, TreeStands, SourcesCounted
  <2>2. \A data : AcceptedAsProof(data)' <=> AcceptedAsProof(data)
    BY WorldMoves DEF AcceptedAsProof, Joins, Decided
  <2>3. \A data : AcceptedAsFailure(data)' <=> AcceptedAsFailure(data)
    BY DEF AcceptedAsFailure
  <2>4. Accepts(b)'
    BY <1>1, <2>2, <2>3 DEF Checked, Accepts
  <2>5. ASSUME b.class = "complete", NEW leg \in Legs
        PROVE  Answered(leg[1])' /\ b.data[leg] = Live(leg)'
    <3>1. Answered(leg[1]) /\ b.data[leg] = Live(leg)
      BY <1>1, <2>5
    <3>2. Answered(leg[1])' <=> Answered(leg[1])
      BY WorldMoves DEF Answered
    <3>3. Live(leg)' = Live(leg)
      BY <3>1, SourceGrows
    <3> QED
      BY <3>1, <3>2, <3>3
  <2> QED
    BY <1>1, <2>1, <2>4, <2>5 DEF AttestedHolds, TreeStands, SourcesCounted, Accepts,
       AcceptedAsProof, AcceptedAsFailure, Joins, Decided, Answered, Live
<1>2. CASE log'.attested = log.attested
  <2>1. CASE log.attested = <<>>
    BY <1>2, <2>1 DEF AttestedHolds
  <2>2. CASE log.attested # <<>>
    <3>1. Checked(log.attested[1]) /\ Whole(log.attested[1])
      BY <2>2 DEF AttestedHolds, Checked
    <3> HIDE DEF Whole
    <3>2. PICK b : b = log.attested[1]
      OBVIOUS
    <3> QED
      BY <1>1, <1>2, <3>1, <3>2
  <2> QED
    BY <2>1, <2>2
<1>3. \A leg \in Legs : Nothing[leg] \in Contents /\ Records(Nothing[leg]) \in {0, 1}
  BY ContentsCounted DEF Nothing
<1>4. \A data : Bundle("incomplete", data).class # "complete"
  BY DEF Bundle
<1>5. CASE PrepareFailure
  <2>1. log'.attested[1] = Bundle("incomplete", Nothing)
    BY <1>5 DEF PrepareFailure, EvidenceTypeOK
  <2>2. Checked(Bundle("incomplete", Nothing))
    BY <1>3, IncompleteIsChecked
  <2>3. Whole(Bundle("incomplete", Nothing))
    BY <1>4
  <2>4. PICK b : b = Bundle("incomplete", Nothing)
    OBVIOUS
  <2> HIDE DEF Whole
  <2> QED
    BY <1>1, <2>1, <2>2, <2>3, <2>4
<1>6. CASE Attest
  <2>1. /\ log.freeze \in {"promotable", "partial"} /\ \A leg \in Legs : log.end[leg] # <<>>
        /\ log.freeze = "promotable" => Promotable /\ Joins(Preserved)
    BY <1>6 DEF Attest, At, FreezeHolds
  <2>2. CASE log.freeze = "promotable"
    <3>1. log'.attested[1] = Bundle("complete", Preserved)
      BY <1>6, <2>2 DEF Attest, EvidenceTypeOK
    <3>2. /\ Checked(Bundle("complete", Preserved))
          /\ \A leg \in Legs : Answered(leg[1]) /\ Preserved[leg] = Live(leg)
      BY <2>1, <2>2, CompleteIsChecked
    <3>3. Whole(Bundle("complete", Preserved))
      BY <3>2 DEF Bundle
    <3>4. PICK b : b = Bundle("complete", Preserved)
      OBVIOUS
    <3> HIDE DEF Whole
    <3> QED
      BY <1>1, <3>1, <3>2, <3>3, <3>4
  <2>3. CASE log.freeze # "promotable"
    <3>1. log'.attested[1] = Bundle("incomplete", Preserved)
      BY <1>6, <2>3 DEF Attest, EvidenceTypeOK
    <3>2. \A leg \in Legs : Preserved[leg] \in Contents /\ Records(Preserved[leg]) \in {0, 1}
      BY <2>1, PreservedIsSound
    <3>3. Checked(Bundle("incomplete", Preserved))
      BY <3>2, IncompleteIsChecked
    <3>4. Whole(Bundle("incomplete", Preserved))
      BY <1>4
    <3>5. PICK b : b = Bundle("incomplete", Preserved)
      OBVIOUS
    <3> HIDE DEF Whole
    <3> QED
      BY <1>1, <3>1, <3>3, <3>4, <3>5
  <2> QED
    BY <2>2, <2>3
<1> QED
  BY <1>2, <1>5, <1>6, StagesMove

\* A bundle becomes public at one step.
LEMMA PublicMoves ==
  ASSUME EvidenceTypeOK, [EvidenceNext]_evidence
  PROVE  disk'.public = disk.public \/ Publish
<1>1. disk = [file |-> disk.file, bundle |-> disk.bundle, public |-> disk.public]
  BY DEF EvidenceTypeOK
<1>2. CASE \/ Down \/ Start \/ Persist \/ Terminal \/ Frozen \/ TearDown \/ Judge \/ Replace
           \/ Reboot \/ (\E t \in Tracks, s \in Ledgers : Late(t, s)) \/ UNCHANGED evidence
  BY <1>2 DEF Down, Start, Persist, Terminal, Frozen, TearDown, Judge, Replace, Reboot, Late,
              evidence
<1>3. CASE Leg \/ Observe \/ Copy \/ Export \/ Die
  <2>1. UNCHANGED disk \/ \E v : disk' = [disk EXCEPT !.file[Here] = v]
    BY <1>3 DEF Leg, Observe, Copy, CopySucceeds, Export, Die
  <2> QED
    BY <1>1, <2>1
<1>4. CASE Prepare \/ Attest \/ PrepareFailure
  <2>1. UNCHANGED disk \/ \E b : disk' = [disk EXCEPT !.bundle = b]
    BY <1>4 DEF Prepare, Attest, PrepareFailure
  <2> QED
    BY <1>1, <2>1
<1> QED
  BY <1>2, <1>3, <1>4 DEF EvidenceNext, Program

\* A complete bundle that passes its checks and holds every source whole is nominal.
LEMMA NominalStep ==
  ASSUME EvidenceTypeOK, AnsweredIsIdle, AttestedHolds, CompleteIsNominal,
         [EvidenceNext]_evidence
  PROVE  CompleteIsNominal'
<1> DEFINE Nominal(bundle) ==
             bundle.class = "complete" =>
               \A t \in Tracks :
                 /\ world.reply[t] = Answer(t \in Denied)
                 /\ \A s \in Sources : bundle.data[<<t, s>>] = Live(<<t, s>>)
                 /\ world.live[<<t, "target">>] = IF t \in Denied THEN <<>> ELSE Line
<1>1. ASSUME NEW b, Nominal(b), disk'.public[1] = b
      PROVE  CompleteIsNominal'
  <2> SUFFICES ASSUME b.class = "complete", NEW t \in Tracks
               PROVE  /\ world'.reply[t] = Answer(t \in Denied)
                      /\ \A s \in Sources : b.data[<<t, s>>] = Live(<<t, s>>)'
                      /\ world'.live[<<t, "target">>] = IF t \in Denied THEN <<>> ELSE Line
    BY <1>1 DEF CompleteIsNominal, Answer, Live, Line
  <2>1. /\ world.reply[t] = Answer(t \in Denied)
        /\ \A s \in Sources : b.data[<<t, s>>] = Live(<<t, s>>)
        /\ world.live[<<t, "target">>] = IF t \in Denied THEN <<>> ELSE Line
    BY <1>1
  <2>2. Answered(t)
    BY <2>1 DEF Answered, Answer, Replies
  <2>3. ASSUME NEW s \in Sources PROVE Live(<<t, s>>)' = Live(<<t, s>>)
    <3>1. <<t, s>> \in Legs /\ <<t, s>>[1] = t
      BY DEF Legs
    <3> QED
      BY <2>2, <3>1, SourceGrows
  <2>4. "target" \in Sources
    BY DEF Sources, Ledgers
  <2> QED
    BY <2>1, <2>3, <2>4, WorldMoves DEF Live
<1>2. CASE disk'.public = disk.public
  <2>1. CASE disk.public = <<>>
    BY <1>2, <2>1 DEF CompleteIsNominal
  <2>2. CASE disk.public # <<>>
    <3>1. Nominal(disk.public[1])
      BY <2>2 DEF CompleteIsNominal
    <3> HIDE DEF Nominal
    <3>2. PICK b : b = disk.public[1]
      OBVIOUS
    <3> QED
      BY <1>1, <1>2, <3>1, <3>2
  <2> QED
    BY <2>1, <2>2
<1>3. CASE Publish /\ Publishable(disk.bundle) /\ Accepts(disk.bundle)
  <2>1. PICK b : b = disk.bundle
    OBVIOUS
  <2>2. log.attested[1] = b /\ log.attested # <<>> /\ Accepts(b)
    BY <1>3, <2>1 DEF Publishable
  <2>3. disk'.public[1] = b
    BY <1>3, <2>1 DEF Publish, EvidenceTypeOK
  <2>4. ASSUME b.class = "complete", NEW t \in Tracks
        PROVE  /\ world.reply[t] = Answer(t \in Denied)
               /\ \A s \in Sources : b.data[<<t, s>>] = Live(<<t, s>>)
               /\ world.live[<<t, "target">>] = IF t \in Denied THEN <<>> ELSE Line
    <3>1. \A leg \in Legs : b.data[leg] = Live(leg)
      BY <2>2, <2>4 DEF AttestedHolds
    <3>2. AcceptedAsProof(b.data)
      BY <2>2, <2>4 DEF Accepts
    <3>3. world.reply[t] = Answer(t \in Denied)
      BY <3>2 DEF AcceptedAsProof, Joins
    <3>4. \A s \in Sources : b.data[<<t, s>>] = Live(<<t, s>>)
      BY <3>1 DEF Legs
    <3>5. <<t, "target">> \in Legs
      BY DEF Legs, Sources, Ledgers
    <3>6. /\ Live(<<t, "target">>) \in Contents
          /\ Records(Live(<<t, "target">>)) = Expected(<<t, "target">>)
      BY <3>1, <3>2, <3>5 DEF AcceptedAsProof
    <3>7. Expected(<<t, "target">>) = IF t \in Denied THEN 0 ELSE 1
      BY DEF Expected
    <3> QED
      BY <3>3, <3>4, <3>6, <3>7, ContentsCounted DEF Live
  <2>5. Nominal(b)
    BY <2>4
  <2> HIDE DEF Nominal
  <2> QED
    BY <1>1, <2>3, <2>5
<1>4. CASE Publish /\ ~(Publishable(disk.bundle) /\ Accepts(disk.bundle))
  <2>1. disk' = disk
    BY <1>4 DEF Publish
  <2> QED
    BY <1>2, <2>1
<1> QED
  BY <1>2, <1>3, <1>4, PublicMoves

----------------------------------------------------------------------------
(***************************************************************************)
(* The theorems.                                                           *)
(***************************************************************************)
LEMMA EvidenceInitially ==
  ASSUME EvidenceInit
  PROVE  EvidenceInv
<1>1. PICK f \in [Tracks -> Cases] :
        world = [reply |-> [t \in Tracks |-> f[t].reply],
                 busy |-> [t \in Tracks |-> f[t].busy],
                 live |-> [leg \in Legs |-> f[leg[1]][leg[2]]],
                 serving |-> TRUE, gone |-> FALSE]
  BY DEF EvidenceInit
<1>2. \A c \in Cases : /\ c.authz \in Seq({"part", "rest"})
                       /\ c.envoy \in Seq({"part", "rest"})
                       /\ c.target \in Seq({"part", "rest"})
                       /\ c.reply \in Replies => c.busy = "none"
  <2>1. /\ <<>> \in Seq({"part", "rest"}) /\ Line \in Seq({"part", "rest"})
        /\ Line \o Line \in Seq({"part", "rest"})
        /\ <<"part">> \in Seq({"part", "rest"})
        /\ <<"part">> \o Line \in Seq({"part", "rest"})
    BY DEF Line
  <2> DEFINE Texts == Lines \cup {<<"part">>, Line \o Line, <<"part">> \o Line}
  <2>2. Texts \subseteq Seq({"part", "rest"})
    BY <2>1 DEF Lines
  <2> SUFFICES ASSUME NEW c \in Cases
               PROVE  /\ c.authz \in Texts /\ c.envoy \in Texts /\ c.target \in Texts
                      /\ c.reply \in Replies => c.busy = "none"
    BY <2>2
  <2>3. /\ <<>> \in Texts /\ <<"part">> \in Texts /\ Line \in Texts
        /\ Line \o Line \in Texts /\ <<"part">> \o Line \in Texts
        /\ Lines \subseteq Texts
    BY DEF Lines
  <2> HIDE DEF Texts
  <2> DEFINE case(reply, busy, a, e, g) ==
        [reply |-> reply, busy |-> busy, authz |-> a, envoy |-> e, target |-> g]
  <2>4. \/ c = case(0, "none", <<>>, <<>>, <<>>)
        \/ \E e \in Lines : c = case(200, "none", Line, e, Line)
        \/ \E e \in Lines : c = case(403, "none", Line, e, <<>>)
        \/ \E e \in Lines, g \in Lines \cup {<<"part">>} : c = case(500, "none", Line, e, g)
        \/ \E e \in Lines : c = case(0, "authz", <<>>, e, <<>>)
        \/ \E e \in Lines : c = case(0, "target", Line, e, <<>>)
        \/ \E a \in {Line \o Line, <<"part">> \o Line}, e \in Lines : c = case(0, "none", a, e, <<>>)
    BY DEF Cases
  <2>5. CASE c = case(0, "none", <<>>, <<>>, <<>>)
    BY <2>3, <2>5 DEF Replies
  <2>6. CASE \/ \E e \in Lines : c = case(200, "none", Line, e, Line)
             \/ \E e \in Lines : c = case(403, "none", Line, e, <<>>)
    BY <2>3, <2>6
  <2>7. CASE \E e \in Lines, g \in Lines \cup {<<"part">>} : c = case(500, "none", Line, e, g)
    BY <2>3, <2>7
  <2>8. CASE \/ \E e \in Lines : c = case(0, "authz", <<>>, e, <<>>)
             \/ \E e \in Lines : c = case(0, "target", Line, e, <<>>)
    BY <2>3, <2>8 DEF Replies
  <2>9. CASE \E a \in {Line \o Line, <<"part">> \o Line}, e \in Lines :
               c = case(0, "none", a, e, <<>>)
    <3>1. PICK a \in {Line \o Line, <<"part">> \o Line}, e \in Lines :
            c = case(0, "none", a, e, <<>>)
      BY <2>9
    <3>2. a \in Texts /\ e \in Texts
      BY <2>3
    <3>3. c.authz = a /\ c.envoy = e /\ c.target = <<>> /\ c.busy = "none"
      BY <3>1
    <3> QED
      BY <2>3, <3>2, <3>3
  <2> QED
    BY <2>4, <2>5, <2>6, <2>7, <2>8, <2>9
<1>3. world.live \in [Legs -> Seq({"part", "rest"})]
  <2>1. ASSUME NEW leg \in Legs PROVE f[leg[1]][leg[2]] \in Seq({"part", "rest"})
    <3>1. PICK t \in Tracks, s \in {"envoy", "authz", "target"} : leg = <<t, s>>
      BY DEF Legs, Sources, Ledgers
    <3>2. f[t] \in Cases
      OBVIOUS
    <3> QED
      BY <1>2, <3>1, <3>2
  <2> QED
    BY <1>1, <2>1
<1>4. AnsweredIsIdle
  <2>1. ASSUME NEW t \in Tracks, Answered(t) PROVE world.busy[t] = "none"
    <3>1. world.reply[t] = f[t].reply /\ world.busy[t] = f[t].busy /\ f[t] \in Cases
      BY <1>1
    <3> QED
      BY <1>2, <2>1, <3>1 DEF Answered
  <2> QED
    BY <2>1 DEF AnsweredIsIdle
<1>5. /\ log = [freeze |-> "none", bytes |-> [leg \in Legs |-> <<>>],
                end |-> [leg \in Legs |-> <<>>], attested |-> <<>>, failure |-> "none"]
      /\ disk = [file |-> [leg \in Legs |-> <<>>], bundle |-> Broken, public |-> <<>>]
      /\ proc = [at |-> "off", n |-> 1, seen |-> <<>>, copied |-> <<>>, error |-> "none"]
      /\ faults = 0
  BY DEF EvidenceInit, Off
<1>6. EvidenceTypeOK
  <2>1. NumTracks \in Nat /\ 1 \in 1..(3 * NumTracks + 1)
    BY EvidenceAssumption
  <2> QED
    BY <1>1, <1>3, <1>5, <2>1 DEF EvidenceTypeOK, Places
<1>7. BytesAreGenuine /\ EndsAreGenuine /\ WalkHolds
  BY <1>5 DEF BytesAreGenuine, EndsAreGenuine, WalkHolds, Walking, OnLeg
<1>8. FreezeHolds /\ AttestedHolds /\ CompleteIsNominal
  BY <1>5 DEF FreezeHolds, AttestedHolds, CompleteIsNominal
<1> QED
  BY <1>4, <1>6, <1>7, <1>8 DEF EvidenceInv

LEMMA EvidenceStep ==
  ASSUME EvidenceInv, [EvidenceNext]_evidence
  PROVE  EvidenceInv'
BY EvidenceTypeStep, IdleStep, BytesStep, EndsStep, WalkStep, FreezeStep, AttestedStep,
   NominalStep DEF EvidenceInv

\* The inductive invariant of `down` (_freeze_sources, _collect_freeze_leg,
\* _prepare_teardown_evidence, finalize_publication), through deaths, failures
\* and restarts: its parts are named above.
THEOREM EvidenceInvariant == EvidenceSpec => []EvidenceInv
<1>1. EvidenceInit => EvidenceInv
  BY EvidenceInitially
<1>2. EvidenceInv /\ [EvidenceNext]_evidence => EvidenceInv'
  BY EvidenceStep
<1> QED
  BY <1>1, <1>2, PTL DEF EvidenceSpec

\* No copy that a dead process, a failed docker cp or a line half written left
\* behind is kept as a source that holds more (_collect_freeze_leg).
THEOREM KeptCopiesAreSources == EvidenceSpec => []FrozenIsSource
<1>1. EvidenceInv => FrozenIsSource
  BY DEF EvidenceInv, EndsAreGenuine, Genuine, FrozenIsSource, Kept, Answered
<1> QED
  BY <1>1, EvidenceInvariant, PTL

\* A `down` that is repeated finds every file that a terminal names as it was
\* attested, so no teardown is stopped for good (_attest_frozen_status_bytes).
THEOREM RetriesFindTheirFiles == EvidenceSpec => []EveryRetryReads
<1>1. EvidenceInv => EveryRetryReads
  BY DEF EvidenceInv, EndsAreGenuine, EveryRetryReads
<1> QED
  BY <1>1, EvidenceInvariant, PTL

\* A complete public bundle holds all that its sources ever held, of requests
\* that ended as the closed result expects (join_evidence,
\* verify_presenter_bundle).
THEOREM PublicProofIsNominal == EvidenceSpec => []CompleteIsNominal
BY EvidenceInvariant, PTL DEF EvidenceInv

\* What `down` attested before it removed everything is not refused afterwards
\* (_validate_provisional_tree, the two presenter verifiers).
THEOREM AttestedPassesItsChecks == EvidenceSpec => []AttestedIsAccepted
<1>1. EvidenceInv => AttestedIsAccepted
  <2> SUFFICES ASSUME AttestedHolds, log.attested = <<disk.bundle>>
               PROVE  Publishable(disk.bundle) /\ Accepts(disk.bundle)
    BY DEF EvidenceInv, AttestedIsAccepted
  <2>1. log.attested # <<>> /\ log.attested[1] = disk.bundle
    OBVIOUS
  <2> QED
    BY <2>1 DEF AttestedHolds, Publishable
<1> QED
  BY <1>1, EvidenceInvariant, PTL

\* A leg that is over stays as it is, its file and its bytes with it, whichever
\* process comes next (_reattest_frozen_status).
THEOREM EndedLegsAreFinal ==
  EvidenceSpec =>
    [][\A leg \in Legs : log.end[leg] # <<>> =>
         /\ log'.end[leg] = log.end[leg]
         /\ log'.bytes[leg] = log.bytes[leg]
         /\ disk'.file[leg] = disk.file[leg]]_evidence
<1>1. EvidenceInv /\ [EvidenceNext]_evidence =>
        [\A leg \in Legs : log.end[leg] # <<>> =>
           /\ log'.end[leg] = log.end[leg]
           /\ log'.bytes[leg] = log.bytes[leg]
           /\ disk'.file[leg] = disk.file[leg]]_evidence
  BY EndedStays DEF EvidenceInv
<1> QED
  BY <1>1, EvidenceInvariant, PTL DEF EvidenceSpec
=============================================================================
