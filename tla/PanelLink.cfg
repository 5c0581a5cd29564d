SPECIFICATION LinkSpec
CONSTANTS
  Codes <- MCCodes
  Lookup <- MCLookup
  WidthSettings = {0, 2, 3}
  NoText = "none"
  MaxQueue = 2
INVARIANTS ShownIsAPage ArrowsAreRight PairedAtWidth WindowShowsThePage
PROPERTY WindowGoesAway
