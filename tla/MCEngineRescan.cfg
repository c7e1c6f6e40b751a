SPECIFICATION Spec
CONSTANTS
  l1 = l1  l2 = l2  r1 = r1  r2 = r2
  s1 = s1  s2 = s2  s3 = s3  q1 = q1  q2 = q2
  Libraries = {l1, l2}
  Roots = {r1, r2}
  LibraryOf <- TwoRoots
  Scans = {s1, s2, s3}
  Renditions = {}
  RootOf <- RescanJobs
  ImageRoots = {}
  MaxScans = 2
  Workers = 1
  MaxWork = 2
  EventCapacity = 1
  MaxOpens <- ReopenedOne
INVARIANT TypeOK
INVARIANT OneScanPerRoot
INVARIANT WritersHaveSession
INVARIANT WorkIsReachable
INVARIANT ScanningIsExplained
INVARIANT ScanLimit
PROPERTY CleanExit
SYMMETRY RescanSymmetry
