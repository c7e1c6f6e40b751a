SPECIFICATION FairSpec
CONSTANTS
  w1 = w1  w2 = w2  w3 = w3  p1 = p1  p2 = p2
  Grids = {"g"}
  Previews = {"p"}
  Processes = {p1, p2}
  Workers = {w1, w2, w3}
  ProcessOf <- TwoHelpers
  Faults = TRUE
  Reverts = FALSE
  MaxRequests = 2
  MaxEdits = 1
INVARIANT OnePermitPerKey
INVARIANT DescribedEntriesAreValid
INVARIANT ServedIsRevision
PROPERTY AuthorizationsEnd
