\* a crash between unlink and rename
SPECIFICATION StorageSpec
CONSTANTS
  ana = ana luis = luis w1 = w1 w2 = w2 c1 = c1 h1 = h1 p1 = p1 m1 = m1
  User = {ana, luis}
  Client = {c1}
  Worker = {w1, w2}
  Ip = {h1}
  Port = {p1}
  Message = {m1}
  None = None
  HostOf <- OneHost
  Registered = {ana}
  Session <- NobodyOnline
  MaxId = 1
  BacklogMax = 1
  OpenMayFail = FALSE
  Commands = {}
  MaxCommands = 0
  MaxCrashes = 1
  MaxKills = 0
  Failing = {}
  MaxCalls = 2
CHECK_DEADLOCK FALSE
PROPERTY UsersSurviveRestart
