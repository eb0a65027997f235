CONSTANTS
  Names = {"agent-1"}
  Count = 2
  MaxLen = 4
  Malformed = {}
  Poison = {}
  MaxEntries = 4
  MaxCrashes = 2
  MaxFailures = 0
  MaxReadErrors = 0
CHECK_DEADLOCK FALSE
SPECIFICATION FairSpec
PROPERTIES FirstAttemptsInOrder EveryEntryHandled
