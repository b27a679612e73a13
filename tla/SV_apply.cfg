SPECIFICATION VersionsSpec
CONSTANTS
  Tables = {"t"}
  MaxVersions = 1
  MaxLists = 1
  MaxDiffs = 1
  LIVE = LIVE
  Unset = Unset
  NoResult = NoResult
  NoApply = NoApply
PROPERTY RunsOnItsBase
CHECK_DEADLOCK FALSE
