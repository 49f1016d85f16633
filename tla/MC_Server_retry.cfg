CONSTANTS
  m1 = m1
  Markers = {m1}
  Requests = {r1, r2, r3}
  Clusters = {"prod"}
  SLOs <- SmallSLOs
  SessionSLOs <- CustomSLOs
  Truths <- SmallTruths
  Observations <- SmallObservations
  Runs <- SmallRuns
  InitSLO <- ActiveSLO
  SeedRuns <- NoSeeds
  PutSLOs <- SmallPutSLOs
  ProbeResults <- SmallProbeResults
  TruthBatches <- SmallTruthBatches
  ObservationBatches <- SmallObservationBatches
  DemoIds = {d1, d2, d3}
  ProbeMayHang = TRUE
  MaxRuns = 2
  MaxWindow = 2
  NoSLO = NoSLO
  NoRun = NoRun
  NoEvidence = NoEvidence
  SaveMayFail = TRUE
SPECIFICATION Spec
INVARIANT AckedDurable
CHECK_DEADLOCK FALSE
SYMMETRY Symmetric
