SPECIFICATION FairSpec
CONSTANTS
  LastPage = 1
  MaxCached = 2
  Truncates = {}
  MaxRevision = 2
  MaxGeneration = 0
  MaxQueries = 0
  MaxFailures = 0
PROPERTY VisiblePageComes
CHECK_DEADLOCK FALSE
