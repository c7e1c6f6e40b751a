SPECIFICATION FairSpec
CONSTANTS
  LastPage = 2
  MaxCached = 3
  Truncates = {}
  MaxRevision = 2
  MaxGeneration = 2
  MaxQueries = 1
  MaxFailures = 1
INVARIANT OneSnapshotShown
PROPERTY SheetComesBack
CHECK_DEADLOCK FALSE
