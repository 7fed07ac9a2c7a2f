\* a CONNECT between the lookup and the store of a SEND
SPECIFICATION Spec
CONSTANTS
  ana = ana luis = luis c1 = c1 c2 = c2 w1 = w1 w2 = w2
  h1 = h1 h2 = h2 p1 = p1 p2 = p2 m1 = m1 m2 = m2
  User = {ana, luis}
  Client = {c1, c2}
  Worker = {w1, w2}
  Ip = {h1, h2}
  Port = {p1}
  Message = {m1}
  None = None
  HostOf <- TwoHosts
  Registered = {ana, luis}
  Session <- AnaOnline
  MaxId = 3
  BacklogMax = 2
  OpenMayFail = FALSE
  Commands = {"CONNECT", "SEND"}
  MaxCommands = 2
  MaxCrashes = 0
  MaxKills = 0
CHECK_DEADLOCK FALSE
INVARIANT OnlineIsCaughtUp
