CONSTANTS
  NoEvidence = NoEvidence
  MaxTruth = 2
  MaxObservations = 3
  Marker <- Mine
  SLOs <- SmallSLOs
  TruthEvents <- SmallTruths
  Deliveries <- SmallDeliveries
SPECIFICATION Spec
INVARIANTS VerdictMatchesReference PassingMeansAttributed ReportIsConsistent
INVARIANTS EventsCountOnce EachToItsSession
PROPERTY EvidenceNeverLowersScore
CHECK_DEADLOCK FALSE
