SPECIFICATION Spec
CONSTANTS
  EngineSeq <- MCEngines
  Letter = {"a", "b"}
  Key <- MCKey
  MaxCode = 3
  FullCode = 2
  WordCount = 2
  Text <- MCText
  Lookup <- MCLookup
  Quick <- MCQuick
  AddCommand <- MCAdd
  DelCommand <- MCDel
  OtherCommand <- MCOther
  None = "none"
  Raw = "raw"
INVARIANT RestoredOnExit
