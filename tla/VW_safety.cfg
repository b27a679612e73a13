SPECIFICATION ViewsSpec
CONSTANTS
  Profiles = {"c1", "c2"}
  NoProfile = NoProfile
  MaxFetches = 2
  MaxSaves = 1
  Files = {"a.csv", "b.csv", "c.json"}
  Sheets = {"a.csv", "b.csv"}
  NoFile = NoFile
  NoPreview = NoPreview
  MaxPreviews = 2
  MaxImports = 1
  Tables = {"t"}
  MaxVersions = 1
  MaxLists = 1
  MaxDiffs = 1
  LIVE = LIVE
  Unset = Unset
  NoResult = NoResult
  NoApply = NoApply
  Places <- MCPlaces
  Contents = {"x", "y"}
  NotPicked = NotPicked
  NoSync = NoSync
  Shapes = {"s", "t"}
  Unseen = "unseen"
  MaxStructureReads = 2
  MaxAlters = 2
  RefDatabases = {"home", "other"}
  RefTables <- MCRefTables
  HomeDatabase = "home"
  NoRef = NoRef
  MaxRefLists = 2
  Holders = {"v", "w"}
  Entries = {"a", "b", "c"}
  MaxKept = 2
  Users = {"u", "w"}
  MaxReads = 1
  MaxWrites = 1
  NoUser = NoUser
  Unread = Unread
  Objects = {"p", "q"}
  NewObject = "q"
  MaxRoutineReads = 1
  MaxDrops = 1
  NoObject = NoObject
  NoSave = NoSave
  BackupSettings = {"off", "set"}
  Defaults = "off"
  Dumps = {"d"}
  MaxBackupCalls = 1
  NoDump = NoDump
  Processes = {"p"}
  Values = {1, 2}
  MaxProcessReads = 2
  MaxVariableReads = 1
  MaxKills = 1
  NoProcess = NoProcess
  NoValue = NoValue
  Schemas = {"d"}
  Global = "*"
  MaxMatrixReads = 2
  MaxToggles = 2
  Unloaded = Unloaded
INVARIANTS
  StoredAsItsOwn
  ImportMapsItsFile
  ResultIsCurrent
  SyncIsCurrent
  BusyIsHonest
  RefersToWhatIsThere
  OneEntryEach
  GrantsAreOfSelected
  UntouchedIsKept
  ViewsAreCurrent
PROPERTIES
  EntriesStay
CHECK_DEADLOCK FALSE
