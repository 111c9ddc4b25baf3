SPECIFICATION MCSpec
CONSTANTS
  p1 = p1  p2 = p2  p3 = p3  w1 = w1  w2 = w2
  Parent = Parent  Child = Child  None = None
  Procs = {p1, p2, p3}
  Sessions = {Parent, Child}
  Waits = {w1, w2}
  Envs <- MCEnvs
  MaxTombs = 1
CHECK_DEADLOCK FALSE
INVARIANTS AnnouncedOnce QuietOnlyIfSeen
PROPERTIES NoDeadLetter RunEnds Reaped WaitEnds
