SPECIFICATION Spec
CONSTANTS
  k1 = k1  k2 = k2
  Clients = {c1}
  Paths <- RecordPaths
  Keys = {k1, k2}
  NoKey = NoKey
  None = None
INVARIANTS TypeOK CheckedIndexIsCurrent
PROPERTIES LookupIsCurrent ConflictIsReal RefusalIsReal CheckedUpsertKeepsUnique
