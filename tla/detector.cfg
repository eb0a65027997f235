CONSTANTS
  Addresses = {a1, a2}
  Scores = {0, 10}
  Deviations = {0, 5}
  Window = 1
SPECIFICATION Spec
INVARIANTS TypeOK NoExploitIsSilent EvidenceIsRecent ForgottenInTime
PROPERTIES NeverDowngraded
SYMMETRY AddressSymmetry
