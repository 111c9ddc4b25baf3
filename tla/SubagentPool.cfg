SPECIFICATION Spec
CONSTANTS
  k1 = k1  k2 = k2  w1 = w1  w2 = w2  p1 = p1  p2 = p2
  Kids = {k1, k2}
  Waiters = {}
  Target <- MCTarget
  Sessions = {p1, p2}
  Parent <- MCParent
  Background = {k1}
  MaxConcurrency = 1
  Envs = {{}}
CHECK_DEADLOCK FALSE
INVARIANT PoolBounded
