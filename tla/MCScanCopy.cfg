SPECIFICATION Spec
CONSTANTS
  Paths = {1, 2}
  Dirs = {0}
  Top = 0
  Parent <- FlatParent
  Above <- FlatAbove
  Inodes = {1, 2}
  Contents = {"x"}
  Media = {"x"}
  Probed = {}
  Damaged = {}
  FirstDisk <- OneFile
  FirstData <- SameBytes
  Kinds = {"create", "remove"}
  Batch = 2
  MaxChanges = 2
  MaxScans = 2
PROPERTY DeletePlusCopyIsNotIdentity
