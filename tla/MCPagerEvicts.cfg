SPECIFICATION Spec
CONSTANTS
  LastPage = 2
  MaxCached = 2
  Truncates = {}
  MaxRevision = 2
  MaxGeneration = 2
  MaxQueries = 0
  MaxFailures = 0
INVARIANT OneSnapshotShown
CHECK_DEADLOCK FALSE
