CONSTANTS
  NoEvidence = NoEvidence
  MaxTruth = 1
  MaxObservations = 3
  Marker <- Mine
  SLOs <- SmallSLOs
  TruthEvents <- SmallTruths
  Deliveries <- ContainerAlerts
SPECIFICATION Spec
INVARIANT EveryEventCounts
CHECK_DEADLOCK FALSE
