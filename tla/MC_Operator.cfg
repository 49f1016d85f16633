CONSTANTS
  Items <- TwoSLOs
  BaseName <- TwoNames
  CutNames <- LongNames
  Interval <- TwoIntervals
  TTL = 1
  JobTime = 1
  CallTime = 0
  MaxFaults = 1
SPECIFICATION Spec
INVARIANTS OperatorTypeOK JobsSpaced StatusMatchesJob
PROPERTY ValidatedForever
