\* users registered and unregistered under way, numbers that wrap, open and socket calls that fail
SPECIFICATION Spec
CONSTANTS
  ana = ana luis = luis c1 = c1 c2 = c2 w1 = w1 w2 = w2
  h1 = h1 h2 = h2 p1 = p1 p2 = p2 m1 = m1 m2 = m2
  User = {ana, luis}
  Client = {c1, c2}
  Worker = {w1, w2}
  Ip = {h1, h2}
  Port = {p1}
  Message = {m1}
  None = None
  HostOf <- TwoHosts
  Registered = {ana}
  Session <- AnaOnline
  MaxId = 1
  BacklogMax = 1
  OpenMayFail = TRUE
  Commands = {"REGISTER", "UNREGISTER", "CONNECT", "DISCONNECT", "SENDATTACH"}
  MaxCommands = 3
  MaxCrashes = 0
  MaxKills = 0
CHECK_DEADLOCK FALSE
SYMMETRY WorkerSymmetry
INVARIANT TypeOK
PROPERTIES SessionEndsForAReason SessionNotTakenOver ImplementsMailSystem
