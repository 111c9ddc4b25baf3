SPECIFICATION FairSceneSpec
CONSTANTS
  None = None
  p1 = p1  p2 = p2  p3 = p3  i1 = i1  i2 = i2  w1 = w1  c1 = c1  s1 = s1  r1 = r1
  n1 = n1  n2 = n2  alice = alice  bob = bob
  Clients = {p1, p2}
  Owner <- OneOwner
  Interjections = {i1, i2}
  Wakes = {}
  Cron = {}
  Synth = {}
  Resumes = {r1}
  Notifs = {}
  Monitors = {}
  Source <- NoSource
  Scenes <- Narrow
  MaxPending = 1
  MaxBuffer = 1
  MaxVersion = 0
  Gates = {}
  Commands = {"sendNow", "cancel"}
CHECK_DEADLOCK FALSE
PROPERTIES LedgerSpec Answered InterjectionServed
