CONSTANTS
  ToastDelay = 35
  TickDelay = 32
  PoolLength = 2
  MaxMoves = 3
CHECK_DEADLOCK FALSE
SPECIFICATION Spec
PROPERTIES ToastIsDismissed
