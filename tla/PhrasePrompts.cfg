SPECIFICATION Spec
CONSTANTS
  HanziChars = {"h1", "h2"}
  OtherChars = {"m"}
  Candidates <- MCCandidates
  Clips <- MCClips
  Tables = {"t1", "t2"}
  PhraseCode <- MCPhraseCode
  NoCode <- MCNoCode
  MaxRecords = 3
  MaxPhrase = 4
  DefaultLen = 2
  MaxTyped = 4
  MaxQueue = 2
INVARIANTS TypeOK PhraseIsTyped PromptInStep
PROPERTIES ConfirmedWasShown ForgetsTheWordPicked PromptGoesAway
