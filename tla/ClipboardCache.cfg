SPECIFICATION FairSpec
CONSTANTS
  MaxCopies = 1
  MaxPastes = 2
  MaxToggles = 1
  MaxDeaths = 1
  MaxReads = 1
  MaxOrders = 1
INVARIANTS
  TranscriptIsTemporary
PROPERTIES
  CopiesSurvive
  PasteEnds
CHECK_DEADLOCK FALSE
