CONSTANTS
  Hashes = {"h1", "h2"}
  Accounts = {"agent", "other"}
  Targets = {"pool"}
  Events = {"e1", "e2"}
  DefenseTypes = {"Pause", "RateLimit"}
  Zero = "0"
  AcceptsEmpty = FALSE
  MaxVersion = 4
SPECIFICATION ChainSpec
INVARIANTS ChainTypeOK HistoryAgrees ActiveIsAuthorized
PROPERTIES PolicyIsALog ActiveSlotIsKept
