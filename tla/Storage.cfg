\* calls of two threads, opens that fail, a crash between any two system calls
SPECIFICATION StorageFairSpec
CONSTANTS
  ana = ana luis = luis w1 = w1 w2 = w2 c1 = c1 h1 = h1 p1 = p1 m1 = m1
  User = {ana, luis}
  Client = {c1}
  Worker = {w1, w2}
  Ip = {h1}
  Port = {p1}
  Message = {m1}
  None = None
  HostOf <- OneHost
  Registered = {ana}
  Session <- AnaOnline
  MaxId = 2
  BacklogMax = 1
  OpenMayFail = TRUE
  Commands = {}
  MaxCommands = 0
  MaxCrashes = 1
  MaxKills = 0
  Failing <- Tested
  MaxCalls = 3
CHECK_DEADLOCK FALSE
INVARIANTS StorageTypeOK OneLinePerUser CopyOnDisk
PROPERTIES ImplementsDatabase EveryCallReturns
