SPECIFICATION Spec
CONSTANTS
  Hanzi = {"x", "y"}
  CodeOf <- MCCodeOf
  Main <- MCMain
  MaxRun = 5
  None = None
  Bad = Bad
PROPERTIES SavedPhrasesStay
