CONSTANTS
  ItemTables = {"raw"}
  FieldKinds <- MCFieldKinds
  FirstField <- MCFirstField
  UsedOperators <- MCOperators
  Stored <- MCStored
  MaxNodes = 2
  Numbers <- MCNumbers
  Slices = {15, 60}
  RuleIds = {"r1", "r2"}
  Words = {"a", "b"}
  LoadedValues <- MCLoadedValues
  MaxRules = 1
  MaxConditions = 2
  MaxWords = 2
  Tables = {"curated", "raw"}
  Columns <- MCColumns
  DefaultWidth <- MCDefaultWidth
  DefaultVisible <- MCDefaultVisible
  StoredWidths = {0, 10}
  Deltas <- MCDeltas
  WindowWidths = {900, 1200, 1600}
  Breakpoint = 1160
  MinLeft = 320
  MinRight = 320
  ResizerWidth = 20
  PointerAt = {0, 700, 1599}
  Documents = {"a", "A", "b"}
  NormalForm <- MCNormalForm
  MaxRequests = 3
SPECIFICATION Spec
INVARIANTS SubmittedIsComplete FiltersSurviveReopen SpecIsNormal TextShowsValue EditorShowsServer WidthsConserved StackedPanesAreFree
