SPECIFICATION PageSpec
CONSTANTS
  Routes <- MCRoutes
  Welcome = Welcome
  Connections = {"c1", "c2"}
  OtherSessions <- MCOtherSessions
  MaxTabs = 2
  MaxCalls = 1
  None = None
  Conns = {"c"}
  Dbs = {"d"}
  TableNames = {"t", "u"}
  MaxAsks = 2
  MaxWork = 1
  NoList = NoList
INVARIANTS
  TabsAreDistinct
  UrlIsActiveTab
  SessionIsSaved
  TreeIsCurrent
PROPERTIES
  SettlesUnlessBack
CHECK_DEADLOCK FALSE
