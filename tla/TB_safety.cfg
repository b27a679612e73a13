SPECIFICATION TabSpec
CONSTANTS
  Connections = {c1, c2}
  ReadOnly = {c2}
  Databases = {d1}
  select = select
  update = update
  wipe = wipe
  params = params
  script = script
  Texts <- MCTexts
  Kind <- MCKind
  Statements <- MCStatements
  Expand <- MCExpand
  Table <- MCTable
  ResultColumns <- MCResultColumns
  Files = {script}
  MaxCalls = 2
  Nothing = Nothing
  None = None
  Sortable = {"a"}
  Sizes = {100, 200}
  DefaultSize = 100
  Filters = {f}
  Words = {w}
  Answers <- MCAnswers
  SavedViews <- MCSavedViews
  MaxLoads = 5
  NoRow = NoRow
  Keys = {"k1", "k2"}
  PagesOfRows <- MCPagesOfRows
  MaxWork = 1
  MaxEdits = 2
  NColumns = 2
  RowCounts = {1, 3}
  Widths = {"narrow"}
  OthersPrefs <- MCOthersPrefs
  NoRange = NoRange
  NoPrefs = NoPrefs
  NoRowYet = NoRowYet
INVARIANTS
  SentIsVetted
  EditTargetIsCurrent
  SpinnerIsHonest
  ShownIsAskedFor
  EditsNameTheirRow
  SelectionsStayOnTheGrid
  ColumnsAreSaved
PROPERTIES
  NewSearchStartsOver
CHECK_DEADLOCK FALSE
