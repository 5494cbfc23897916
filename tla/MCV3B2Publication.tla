------------------------- MODULE MCV3B2Publication -------------------------
(***************************************************************************)
(* V3B2Publication for TLC.  The private manifests are all combinations of *)
(* what a track's sources may look like (answered as expected, denied or   *)
(* permitted against the contract, not answered, unequal digests, a marker *)
(* too many, missing or of another run), of the instructions and cases,    *)
(* and of changes of foreign state.  The strays are the nominal bundle of  *)
(* another run and copies of it altered in one place, committed anew.      *)
(***************************************************************************)
EXTENDS V3B2Publication, FiniteSets

MCTracks == 1..3
MCExpected == [t \in MCTracks |-> IF t = 3 THEN "deny" ELSE "permit"]

Unanswered == [driver |-> <<>>, decision |-> <<>>, envoy |-> <<>>, target |-> <<>>]

Answered(o, run) ==
  [driver |-> <<[status |-> Status(o), digest |-> 1]>>,
   decision |-> <<[outcome |-> o, digest |-> 1]>>,
   envoy |-> <<[status |-> Status(o), digest |-> 1, upstream |-> o = "permit"]>>,
   target |-> IF o = "permit" THEN <<[run |-> run, digest |-> 1]>> ELSE <<>>]

\* What else the four producers may leave behind.
Flawed(run) ==
  LET a == Answered("permit", run)  d == Answered("deny", run) IN
    {[a EXCEPT !.driver[1].digest = 2], [a EXCEPT !.envoy[1].digest = 2],
     [a EXCEPT !.target = <<>>], [a EXCEPT !.target[1].run = "another"],
     [a EXCEPT !.decision = <<@[1], @[1]>>], [a EXCEPT !.driver = <<>>],
     [d EXCEPT !.target = a.target], [d EXCEPT !.envoy[1].upstream = TRUE]}

RawSources(run) ==
  {Unanswered, Answered("permit", run), Answered("deny", run)} \cup Flawed(run)

Source(raw, instructed, run) ==
  [raw |-> raw, instructed |-> instructed,
   rows |-> IF Adapts(raw, run) THEN Reduced(raw) ELSE NoRows]

Nominal(run) ==
  [run |-> run, cases |-> MCTracks, same |-> TRUE, context |-> TRUE,
   sources |-> [t \in MCTracks |->
                  Source(Answered(MCExpected[t], run), TRUE, run)]]

\* One track differs from the nominal lifecycle, or all were left unasked.
MCPrivates ==
  LET run == "r1"
      shapes == {[t \in MCTracks |-> Source(Unanswered, FALSE, run)]} \cup
        {[Nominal(run).sources EXCEPT ![t] = Source(raw, instructed, run)] :
           t \in MCTracks, raw \in RawSources(run), instructed \in BOOLEAN}
  IN {[run |-> run, cases |-> c, same |-> same, context |-> context,
       sources |-> sources] :
         c \in SUBSET MCTracks, same \in BOOLEAN, context \in BOOLEAN,
         sources \in shapes}

\* Bundles of another origin.
MCOther == Public(Nominal("r2"))
MCStrays ==
  LET m == MCOther IN
    {m,
     [m EXCEPT !.class = "request-free"],
     [m EXCEPT !.requests[1][1].decision = "deny"],
     [m EXCEPT !.joins[3] = <<>>],
     [m EXCEPT !.context = FALSE],
     [m EXCEPT !.same = FALSE]}
    \cup {[m EXCEPT !.sources[1].raw = raw] : raw \in RawSources("r2")}
    \cup {[m EXCEPT !.sources[3] = Source(Answered("permit", "r2"), TRUE, "r2")]}
=============================================================================
