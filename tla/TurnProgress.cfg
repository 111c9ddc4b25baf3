SPECIFICATION FairSpec
CONSTANTS
  MaxRequests = 3
  MaxRetries = 1
  RateCap = 2
  StreamCap = 3
  DoomRetries = 0
  Failures = {"auth"}
  Reuse = FALSE
  AuthRetries = 1
  MaxAborts = 1
  Lags = TRUE
CHECK_DEADLOCK FALSE
INVARIANTS ActiveIsLive BarrierOrders NoOrphan
PROPERTIES CancelledStops TurnGoesOn
