CONSTANTS
  Names = {"agent-1", "agent-2"}
  Count = 2
  MaxLen = 3
  Malformed = {}
  Poison = {}
  MaxEntries = 3
  MaxCrashes = 1
  MaxFailures = 0
  MaxReadErrors = 0
CHECK_DEADLOCK FALSE
SPECIFICATION FairSpec
PROPERTIES EveryEntryHandled
