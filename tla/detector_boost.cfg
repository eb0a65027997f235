CONSTANTS
  Addresses = {"a1", "a2"}
  Scores = {0, 10}
  Deviations = {1, 5}
  Window = 1
SPECIFICATION Spec
PROPERTIES OracleImpactConfirms
