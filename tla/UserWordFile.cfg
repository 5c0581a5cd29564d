SPECIFICATION FileSpec
CONSTANTS
  Word = {"a", "b"}
  Line <- MCLine
  Read <- MCRead
  Stub <- MCStub
  Tables <- MCTables
  Empty = "empty"
  Closed = Closed
  DefaultWords = {"b"}
  MaxSignals = 2
INVARIANTS InStepWhenQuiet
PROPERTIES EngineKeepsOthers PanelReachesEngine
