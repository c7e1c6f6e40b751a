SPECIFICATION Spec
CONSTANTS
  LastPage = 1
  MaxCached = 2
  Truncates = {}
  MaxRevision = 1
  MaxGeneration = 2
  MaxQueries = 1
  MaxFailures = 0
INVARIANT OneQueryShown
CHECK_DEADLOCK FALSE
