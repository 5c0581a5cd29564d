SPECIFICATION Spec
CONSTANTS
  Quotes = {"quote"}
  Openers = {"(", "{"}
  Plain = {"{"}
  Closers = {")", "}"}
  OpenerOf <- MCOpenerOf
  Stops = {","}
  Others = {"backslash"}
  Backslash = "backslash"
  Space = "space"
  Customized = {",", "backslash"}
  VkMapped = {",", "letter"}
  Candidates <- MCCandidates
  MaxRecords = 3
PROPERTIES HalfOnlyPassed StopsFollowDigits QuotesTakeTurns MarksHoldTheComposition
