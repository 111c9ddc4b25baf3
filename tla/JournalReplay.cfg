SPECIFICATION Spec
CONSTANTS
  A = A  B = B  C = C
  c1 = c1  c2 = c2
  None = None
  Ids = {A, B, C}
  OwnerOf <- MCOwnerOf
  Envs <- MCEnvs
  MaxLines = 4
  MaxVer = 1
  MaxCrash = 2
CHECK_DEADLOCK FALSE
INVARIANTS ReplayMatches SeenIsDurable NoRowForgotten ReplayTwice TornLosesNoOther
