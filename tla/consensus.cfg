CONSTANTS
  Operators = {o1, o2, o3}
  Models = {m1, m2}
  Events = {e1}
  Attackers = {x1}
  Admins = {a1}
  None = None
  Thresholds <- MCThresholds
  Confidences <- MCConfidences
  MaxBundle = 3
  CountWrap = 3
SPECIFICATION Spec
INVARIANTS TypeOK
PROPERTIES DecidesByQuorum RecordsAreFinal
