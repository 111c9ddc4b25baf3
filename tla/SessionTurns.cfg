SPECIFICATION SceneSpec
CONSTANTS
  None = None
  p1 = p1  p2 = p2  p3 = p3  i1 = i1  i2 = i2  w1 = w1  c1 = c1  s1 = s1  r1 = r1
  n1 = n1  n2 = n2  alice = alice  bob = bob
  Clients = {p1, p2, p3}
  Owner <- TwoOwners
  Interjections = {i1, i2}
  Wakes = {w1}
  Cron = {}
  Synth = {s1}
  Resumes = {r1}
  Notifs = {n1, n2}
  Monitors = {n1}
  Source <- FromWake
  Scenes <- Wide
  MaxPending = 1
  MaxBuffer = 1
  MaxVersion = 1
  Gates = {"wait", "goal"}
  Commands = {"edit", "sendNow", "cancel", "kill", "rewind", "shutdown"}
CHECK_DEADLOCK FALSE
INVARIANTS FrontInv FrontIsRunning PromotionHeld RemovedNeverRan Conserved NoSilentDrop PinSound OneTerminal NoStranded
PROPERTIES MirrorLostByKill
