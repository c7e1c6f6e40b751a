SPECIFICATION Spec
CONSTANTS
  LastPage = 2
  MaxCached = 3
  Truncates = {1}
  MaxRevision = 1
  MaxGeneration = 1
  MaxQueries = 0
  MaxFailures = 0
INVARIANT NoSkippedIds
CHECK_DEADLOCK FALSE
