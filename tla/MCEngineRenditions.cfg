SPECIFICATION Spec
CONSTANTS
  l1 = l1  l2 = l2  r1 = r1  r2 = r2
  s1 = s1  s2 = s2  s3 = s3  q1 = q1  q2 = q2
  Libraries = {l1}
  Roots = {r1}
  LibraryOf <- OneRoot
  Scans = {s1}
  Renditions = {q1, q2}
  RootOf <- RenditionJobs
  ImageRoots = {}
  MaxScans = 1
  Workers = 1
  MaxWork = 2
  EventCapacity = 1
  MaxOpens <- OneOpening
INVARIANT InflightIsExact
INVARIANT OneReplyEach
SYMMETRY RenditionSymmetry
