SPECIFICATION OpenFairSpec
CONSTANTS
  MaxRequests = 1
  MaxRetries = 3
  RateCap = 2
  StreamCap = 3
  DoomRetries = 2
  Failures = {"auth", "refused", "image", "rate", "stream", "http", "body", "server", "config"}
  Reuse = FALSE
CHECK_DEADLOCK FALSE
INVARIANTS RetryBudget
PROPERTIES RequestEnds
