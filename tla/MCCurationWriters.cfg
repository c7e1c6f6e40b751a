SPECIFICATION Spec
CONSTANTS
  Assets = {1, 2}
  Titles = {1, 2}
  Collections = {1, 2, 3}
  Names = {"a", "b", "B", "c"}
  Lower <- TwoCases
  Sessions = {1, 2}
  Clients = {1, 2}
  SessionOf <- OwnSessions
  Queries = {}
  Provers = {}
  Editors = {1, 2}
  Readers = {}
  Curators = {1, 2}
  FirstAssets = {1}
  FirstNames <- NamesOfBoth
  PageSize = 1
  MaxCollections = 2
  MaxMemberships = 1
  MaxRevision = 3
  OpenedAt = {}
  Nothing = Nothing
INVARIANT CollectionsStayListable
INVARIANT EqualRevisionsEqualTitle
PROPERTY NamesChangeWithRevisions
CHECK_DEADLOCK FALSE
