CONSTANTS
  Hashes = {"h1"}
  Accounts = {"agent"}
  Targets = {"pool"}
  DefenseTypes = {"Pause"}
  Zero = "0"
  AcceptsEmpty = FALSE
  VictimOf <- OnePool
  Agent = "agent"
  Events = {"t1", "t2"}
  Known = {"t1", "t2"}
  Gated = {"t1", "t2"}
  MaxVersion = 1
  MaxDecisions = 2
  MaxCrashes = 1
  MaxFaults = 1
CHECK_DEADLOCK FALSE
SPECIFICATION FairSpec
PROPERTIES OnlyApprovedIsSent EveryThreatIsReleased
