SPECIFICATION Spec
CONSTANTS
  c1 = c1  c2 = c2  l1 = l1  l2 = l2  l3 = l3
  None = None
  Clients = {c1, c2}
  Leaders = {l1, l2, l3}
  MaxInodes = 2
  MaxCrashes = 0
  Envs <- Returning
CHECK_DEADLOCK FALSE
SYMMETRY Alike
INVARIANT OneLeader
