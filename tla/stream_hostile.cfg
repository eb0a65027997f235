CONSTANTS
  Names = {"agent-1", "agent-2"}
  Count = 2
  MaxLen = 2
  Malformed = {2}
  Poison = {3}
  MaxEntries = 5
  MaxCrashes = 2
  MaxFailures = 1
  MaxReadErrors = 1
CHECK_DEADLOCK FALSE
SPECIFICATION FairSpec
INVARIANTS TypeOK NothingLost BacklogFirst
PROPERTIES OnlyPoisonStarves
