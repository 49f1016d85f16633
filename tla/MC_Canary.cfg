CONSTANTS
  m1 = m1
  m2 = m2
  c1 = c1
  r1 = r1
  server = server
  init = init
  Markers = {m1, m2}
  Requests <- SmallRequests
  Clusters = {"prod"}
  SLOs <- SmallSLOs
  SessionSLOs <- None
  PutSLOs <- SmallPutSLOs
  Truths <- SmallTruths
  Observations <- SmallObservations
  Runs <- SmallRuns
  InitSLO <- ActiveSLO
  SeedRuns <- NoSeeds
  ProbeResults <- SmallProbeResults
  TruthBatches <- None
  ObservationBatches <- SmallObservationBatches
  DemoIds = {"demo"}
  ProbeMayHang = TRUE
  MaxRuns = 3
  MaxWindow = 3
  NoSLO = NoSLO
  NoRun = NoRun
  NoEvidence = NoEvidence
  SaveMayFail = TRUE
  Others <- OneOther
  Canaries = {c1}
  Probers = {c1}
  Actions <- SmallActions
  MayFail = {"network"}
  NeverWorks = {"filesystem"}
  Specs <- SmallSpecs
  Unparsable = Unparsable
  Cluster = "prod"
  OwnPid <- InContainer
  HostPid <- HostPids
  Processes <- Process
  KernelDimensions = {"network"}
  RingSize = 1
  MaxKernelEvents = 2
SPECIFICATION MCSpec
INVARIANTS PassedIsTrue KernelTruthIsReported
ACTION_CONSTRAINT Bounds
VIEW WithoutHistory
CHECK_DEADLOCK FALSE
