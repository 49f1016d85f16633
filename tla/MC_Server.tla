----------------------------- MODULE MC_Server -----------------------------
(***************************************************************************)
(* Three requests of any kind on one session or two, with two objectives   *)
(* that can be met and one that cannot, a canary, and two observations of  *)
(* which the later one attributes and is slow.                             *)
(***************************************************************************)
EXTENDS Server

CONSTANTS m1

ActiveSLO == [required |-> DimensionOrder, target |-> 995, latencyP95 |-> 10]
LaxSLO    == [required |-> <<"mcp", "process">>, target |-> 400, latencyP95 |-> 2]
\* One that no delay meets: the server refuses it.
HastySLO  == [LaxSLO EXCEPT !.latencyP95 = 0]
SmallSLOs == {ActiveSLO, LaxSLO, HastySLO}
CustomSLOs == {LaxSLO, HastySLO}
\* One without required dimensions, which Defaulted completes.
PartialSLO == [ActiveSLO EXCEPT !.required = <<>>]
SmallPutSLOs == {LaxSLO, HastySLO, PartialSLO}

TruthEvent(id, ok, at) ==
  [id |-> id, marker |-> m1, cluster |-> "prod", dimension |-> "process",
   success |-> ok, occurredAt |-> at]
OkTruth     == TruthEvent(1, TRUE, 0)
KernelTruth == TruthEvent(2, TRUE, 1)
SmallTruths == {OkTruth, KernelTruth}

Telemetry(id, attributed, at) ==
  [id |-> id, marker |-> m1, cluster |-> "prod", dimension |-> "process",
   attributed |-> attributed, receivedAt |-> at]
Early == Telemetry(1, FALSE, 2)
Late  == Telemetry(2, TRUE, 9)
SmallObservations == {Early, Late}

SmallProbeResults      == {<<OkTruth>>}
SmallTruthBatches      == {<<KernelTruth>>, <<OkTruth, KernelTruth>>}
SmallObservationBatches == {<<Early, Late>>}

NoSeeds == <<>>

\* Every verdict of a live run, and those of the demo scenarios.
Statuses  == {"passing", "failing"}
SmallRuns == [id : Markers, score : Scores, status : Statuses]
        \cup [id : DemoIds, score : {806, 931, 1000}, status : Statuses]

Symmetric == Permutations(Requests) \cup Permutations(DemoIds)
=============================================================================
