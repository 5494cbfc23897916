--------------------------- MODULE KernelPrograms ---------------------------
(***************************************************************************)
(* The programs around the kernel: tools/replay.py loads a scenario,       *)
(* replays it and publishes a bundle, perhaps several processes at once;   *)
(* the reference gateways answer requests on the three tracks              *)
(* (tools/v3a_demo.py).  A behaviour is one of the two.                    *)
(***************************************************************************)
EXTENDS Replay, ReferenceGateway, RunBundle

CONSTANT MaxPublished   \* scenarios up to this length are published

ASSUME PublishedAssumption == MaxPublished \in Nat

programs == <<replay, gateway, publication>>

Init == ReplayInit /\ GatewayInit /\ BundleInit

ReplayRuns == results = <<>> /\ ReplayNext /\ UNCHANGED <<gateway, publication>>
GatewayRuns == events = <<>> /\ stage = "loading" /\ GatewayNext
               /\ UNCHANGED <<replay, publication>>
\* Only what was replayed is published.
BundleRuns == stage = "replayed" /\ Len(report) <= MaxPublished /\ BundleNext
              /\ UNCHANGED <<replay, gateway>>

Next == ReplayRuns \/ GatewayRuns \/ BundleRuns

Spec == Init /\ [][Next]_programs
=============================================================================
