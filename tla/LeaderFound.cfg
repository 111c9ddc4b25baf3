SPECIFICATION MCSpec
CONSTANTS
  c1 = c1  c2 = c2  l1 = l1  l2 = l2  l3 = l3
  None = None
  Clients = {c1, c2}
  Leaders = {l1, l2}
  MaxInodes = 5
  MaxCrashes = 1
  Envs <- MCEnvs
CHECK_DEADLOCK FALSE
INVARIANTS LockInv
PROPERTIES ClientReturns
