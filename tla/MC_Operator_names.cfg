CONSTANTS
  Items <- TwoSLOs
  BaseName <- OneName
  CutNames <- NoNames
  Interval <- OneInterval
  TTL = 1
  JobTime = 1
  CallTime = 1
  MaxFaults = 0
SPECIFICATION Spec
PROPERTY ValidatedForever
