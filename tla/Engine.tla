------------------------------- MODULE Engine -------------------------------
(***************************************************************************)
(* The verdict of a validation, internal/engine: Correlate compares the    *)
(* ground truth of a session with the telemetry that arrived for it, one   *)
(* check per required dimension; scoreChecks weighs the checks; the score  *)
(* and the p95 latency are held against the objective.  Run makes a verdict*)
(* from a scripted demo scenario instead.                                  *)
(*                                                                         *)
(* Scores, targets and budgets are in tenths of a percent, times and       *)
(* latencies in milliseconds.  Labels, descriptions, evidence texts and    *)
(* graph nodes are left out.                                               *)
(***************************************************************************)
EXTENDS Integers, Sequences, SequencesExt

CONSTANT NoEvidence  \* firstTruth's and bestObservation's nil

DimensionOrder == <<"process", "filesystem", "network", "dns", "kubernetes",
                    "cloudIdentity", "api", "mcp">>
Dimensions == ToSet(DimensionOrder)

Floor(n) == IF n < 0 THEN 0 ELSE n

----------------------------------------------------------------------------
(* One check.                                                              *)

FirstTruth(truth, d) ==
  LET about == {i \in DOMAIN truth : truth[i].dimension = d}
  IN  IF about = {} THEN NoEvidence ELSE truth[Min(about)]

\* Mutant: the latest observation of the dimension wins.
LatestObservation(observations, d) ==
  LET about == {i \in DOMAIN observations : observations[i].dimension = d}
  IN  IF about = {} THEN NoEvidence ELSE observations[Max(about)]

\* The first observation, unless a later one is the first attributed one.
BestObservation(observations, d) ==
  LET best[i \in 0..Len(observations)] ==
        IF i = 0 THEN NoEvidence
        ELSE LET o == observations[i]
                 b == best[i - 1]
             IN  IF o.dimension = d /\ (b = NoEvidence \/ (~b.attributed /\ o.attributed))
                 THEN o ELSE b
  IN  best[Len(observations)]

Check(d, truth, observations) ==
  LET t == FirstTruth(truth, d)
      o == BestObservation(observations, d)
  IN  [dimension   |-> d,
       groundTruth |-> t # NoEvidence /\ t.success,
       observed    |-> o # NoEvidence,
       attributed  |-> o # NoEvidence /\ o.attributed,
       latency     |-> IF o = NoEvidence \/ t = NoEvidence THEN 0
                       ELSE Floor(o.receivedAt - t.occurredAt)]

Preserved(check) == check.groundTruth /\ check.observed /\ check.attributed

\* Why a check is not preserved; the last applicable reason is reported.
Reason(check) ==
  IF check.observed /\ ~check.attributed THEN "unattributed"
  ELSE IF check.groundTruth /\ ~check.observed THEN "unobserved"
  ELSE "no ground truth"

----------------------------------------------------------------------------
(* The score of a list of checks.                                          *)

Points(check) == (IF check.observed THEN 45 ELSE 0)
               + (IF check.attributed THEN 55 ELSE 0)

\* round(total / len(checks)), half away from zero, to a tenth.
Mean(total, n) == (20 * total + n) \div (2 * n)

Total(checks) ==
  LET sum[i \in 0..Len(checks)] ==
        IF i = 0 THEN 0 ELSE sum[i - 1] + Points(checks[i])
  IN  sum[Len(checks)]

Observed(checks) == {i \in DOMAIN checks : checks[i].observed}

\* Mutant: a check that was not observed is not expected either.
ScoreOfObserved(checks) ==
  IF Observed(checks) = {} THEN 0 ELSE Mean(Total(checks), Cardinality(Observed(checks)))

Score(checks) == Mean(Total(checks), Len(checks))

\* The value in the k-th place once the values are sorted.
InPlace(values, k) ==
  CHOOSE v \in {values[i] : i \in DOMAIN values} :
    /\ Cardinality({i \in DOMAIN values : values[i] < v}) < k
    /\ k <= Cardinality({i \in DOMAIN values : values[i] <= v})

\* Mutant: the rank is rounded down.
Percentile95Down(values) ==
  LET n == Cardinality(DOMAIN values)
  IN  IF n = 0 THEN 0 ELSE InPlace(values, IF n = 1 THEN 1 ELSE (95 * n) \div 100)

\* The nearest-rank 95th percentile; nothing observed counts as latency 0.
Percentile95(values) ==
  LET n == Cardinality(DOMAIN values)
  IN  IF n = 0 THEN 0 ELSE InPlace(values, (95 * n + 99) \div 100)

Latency(checks) == Percentile95([i \in Observed(checks) |-> checks[i].latency])

\* Mutant: meeting the target exactly already exhausts the budget.
StrictErrorBudget(target, score) ==
  [allowed |-> Floor(1000 - target), consumed |-> Floor(1000 - score),
   remaining |-> Floor(score - target), ratio |-> 0,
   exhausted |-> Floor(1000 - score) >= Floor(1000 - target)]

ErrorBudget(target, score) ==
  LET allowed  == Floor(1000 - target)
      consumed == Floor(1000 - score)
  IN  [allowed   |-> allowed,
       consumed  |-> consumed,
       remaining |-> Floor(allowed - consumed),
       ratio     |-> IF allowed = 0 THEN 0
                     ELSE (2000 * consumed + allowed) \div (2 * allowed),
       exhausted |-> consumed > allowed]

Status(slo, score, latency) ==
  IF score < slo.target \/ latency > slo.latencyP95 THEN "failing" ELSE "passing"

Regression(score, baseline) == IF baseline > 0 THEN score - baseline ELSE 0

\* The part of a run Correlate and Run compute in the same way.
Verdict(slo, checks, baseline) ==
  LET score == Score(checks)
  IN  [score      |-> score,
       latency    |-> Latency(checks),
       status     |-> Status(slo, score, Latency(checks)),
       budget     |-> ErrorBudget(slo.target, score),
       regression |-> Regression(score, baseline)]

----------------------------------------------------------------------------
(* Live runs.                                                              *)

ChecksOf(slo, truth, observations) ==
  [i \in DOMAIN slo.required |-> Check(slo.required[i], truth, observations)]

\* The dimensions whose context was lost, each with the reason given.
Breaks(checks) ==
  {<<c.dimension, Reason(c)>> : c \in {k \in ToSet(checks) : ~Preserved(k)}}

\* The dimensions that each edge of the live graph stands for.
EdgeNeeds ==
  [lineage   |-> {"process"},     workload |-> {"kubernetes"},
   request   |-> {"api", "network"},
   assumeRole |-> {"cloudIdentity"}, toolCall |-> {"mcp"}]

\* The edges that are drawn as intact.
LiveEdges(checks) ==
  LET kept == {c.dimension : c \in {k \in ToSet(checks) : Preserved(k)}}
  IN  {edge \in DOMAIN EdgeNeeds : EdgeNeeds[edge] \subseteq kept}

Correlate(slo, truth, observations, baseline) ==
  LET checks == ChecksOf(slo, truth, observations)
  IN  [verdict |-> Verdict(slo, checks, baseline),
       breaks  |-> Breaks(checks),
       edges   |-> LiveEdges(checks)]

----------------------------------------------------------------------------
(* Demo runs.                                                              *)

Scenarios == {"baseline", "identity-gap", "mcp-gap", "latency-regression"}

\* Run's default for an empty scenario.
ScenarioOf(input) == IF input = "" THEN "identity-gap" ELSE input

DemoDimensions == <<"process", "filesystem", "network", "dns", "kubernetes",
                    "api", "cloudIdentity", "mcp">>
DemoLatencies  == <<780, 920, 1120, 840, 1360, 1710, 2420, 3180>>
SlowLatencies  == <<780, 920, 1120, 840, 1360, 11400, 13800, 15200>>

ChecksFor(scenario) ==
  [i \in DOMAIN DemoDimensions |->
     [dimension   |-> DemoDimensions[i],
      groundTruth |-> TRUE,
      observed    |-> ~(scenario = "identity-gap" /\ i = 8),
      attributed  |-> CASE scenario = "identity-gap" -> i < 7
                        [] scenario = "mcp-gap"      -> i # 8
                        [] scenario \in {"latency-regression", "baseline"} -> TRUE
                        [] OTHER -> i # 7,
      latency     |-> IF scenario = "latency-regression" THEN SlowLatencies[i]
                      ELSE DemoLatencies[i]]]

BreaksFor(scenario) ==
  CASE scenario = "identity-gap"       -> {"cloudIdentity", "mcp"}
    [] scenario = "mcp-gap"            -> {"mcp"}
    [] scenario = "latency-regression" -> {"latency"}
    [] OTHER                           -> {}

DemoRun(slo, scenario, baseline) ==
  [verdict |-> Verdict(slo, ChecksFor(scenario), baseline),
   breaks  |-> BreaksFor(scenario)]
=============================================================================
