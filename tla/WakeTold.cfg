SPECIFICATION FairSpec
CONSTANTS
  s1 = s1  s2 = s2  a1 = a1
  User = User  Drain = Drain  None = None
  Shells = {s1}
  Agents = {a1}
  Envs <- MCEnvs
  MaxUser = 2
CHECK_DEADLOCK FALSE
INVARIANTS NotLost RemindedOnce
PROPERTIES EventuallyTold
