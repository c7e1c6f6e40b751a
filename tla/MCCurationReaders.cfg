SPECIFICATION FairSpec
CONSTANTS
  Assets = {1, 2}
  Titles = {1}
  Collections = {1}
  Names = {"a"}
  Lower <- TwoCases
  Sessions = {1}
  Clients = {1, 2}
  SessionOf <- OneSession
  Queries <- SomeQueries
  Provers = {1, 2}
  Editors = {}
  Readers = {1}
  Curators = {2}
  FirstAssets = {1}
  FirstNames <- NameOfOne
  PageSize = 1
  MaxCollections = 1
  MaxMemberships = 1
  MaxRevision = 2
  OpenedAt = {1}
  Nothing = Nothing
INVARIANT PagesShowOneSnapshot
INVARIANT ProofPagesMatchDigest
PROPERTY ReadersFinish
PROPERTY ProversFinish
CHECK_DEADLOCK FALSE
