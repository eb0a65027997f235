CONSTANTS
  Hashes = {"h1", "h2"}
  Accounts = {"agent"}
  Targets = {"pool"}
  DefenseTypes = {"Pause"}
  Zero = "0"
  AcceptsEmpty = TRUE
  VictimOf <- OnePool
  Agent = "agent"
  Events = {"t2", "t3"}
  Known = {"t2"}
  Gated = {"t2"}
  MaxVersion = 2
  MaxDecisions = 1
  MaxCrashes = 1
  MaxFaults = 1
CHECK_DEADLOCK FALSE
SPECIFICATION Spec
INVARIANTS TypeOK PauseHasItsThreat ActivatedOncePerDelivery RejectedStaysOff ReportsMatchChain
PROPERTIES ActivatesUnderCurrentPolicy
