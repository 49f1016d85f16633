CONSTANTS
  m1 = m1
  m2 = m2
  Markers = {m1, m2}
  Clusters <- SmallClusters
  SLOs = {s1}
  Truths <- SmallTruths
  Observations <- SmallObservations
  Runs <- SmallRuns
  InitSLO = s1
  SeedRuns <- OneSeed
  MaxRuns = 2
  MaxWindow = 2
  NoSLO = NoSLO
  NoRun = NoRun
  SaveMayFail = TRUE
  MaxAccepted = 3
SPECIFICATION MCSpec
INVARIANTS StoreTypeOK ActiveSessionsMatch TruthCounted HistoryMatchesSessions EvidenceHeldOnce
VIEW StatesOnly
