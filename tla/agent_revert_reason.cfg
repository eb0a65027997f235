CONSTANTS
  Hashes = {"h1", "h2"}
  Accounts = {"agent"}
  Targets = {"pool"}
  DefenseTypes = {"Pause"}
  Zero = "0"
  AcceptsEmpty = FALSE
  VictimOf <- OnePool
  Agent = "agent"
  Events = {"t1", "t3"}
  Known = {"t1"}
  Gated = {}
  MaxVersion = 2
  MaxDecisions = 0
  MaxCrashes = 0
  MaxFaults = 0
CHECK_DEADLOCK FALSE
SPECIFICATION Spec
INVARIANTS StatusZeroMeansInvalidProof
