SPECIFICATION FairSpec
CONSTANTS
  Paths = {1, 4, 5}
  Dirs = {0, 2, 3}
  Top = 0
  Parent <- DeepParent
  Above <- DeepAbove
  Inodes = {1, 2}
  Contents = {"x", "y", "other"}
  Media = {"x", "y"}
  Probed = {"x", "y"}
  Damaged = {"y"}
  FirstDisk <- DeepDisk
  FirstData <- TwoBytes
  Kinds = {"create", "rename", "link", "remove", "edit", "protect"}
  Batch = 2
  MaxChanges = 2
  MaxScans = 2
INVARIANT OneRowPerPath
INVARIANT EvidentRenamesAreFollowed
INVARIANT CompletedScanMirrorsFolder
PROPERTY KeepsCatalogue
PROPERTY MissingIsEarned
PROPERTY StandingPathsKeepAssets
PROPERTY ScanEnds
