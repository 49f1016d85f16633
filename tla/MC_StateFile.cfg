CONSTANTS
  Values = {v0, v1, v2}
  InitValue = v0
  Torn = Torn
  Absent = Absent
  NoCall = NoCall
  DirSyncResults = {TRUE}
SPECIFICATION Spec
INVARIANTS TypeOK AlwaysDecodable AcknowledgedSurvives
PROPERTY ImplementsDurableState
