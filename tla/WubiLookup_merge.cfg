SPECIFICATION LookupSpec
CONSTANTS
  Word <- MCWord
  Line <- MCLine
  Read <- MCRead
  Stub <- MCStub
  Tables <- MCTables
  Empty = Empty
  Place <- MCPlace
  PyTable <- MCPyTable
  Phrases <- MCPhrases
  Rare = {"b"}
  MaxCandidates = 2
INVARIANT MergesSortedLists
