\* threads and commands end, pending mail goes out: two messages, a CONNECT that finds them, the death of a client
SPECIFICATION FairSpec
CONSTANTS
  ana = ana luis = luis c1 = c1 c2 = c2 w1 = w1 w2 = w2
  h1 = h1 h2 = h2 p1 = p1 p2 = p2 m1 = m1 m2 = m2
  User = {ana, luis}
  Client = {c1, c2}
  Worker = {w1, w2}
  Ip = {h1, h2}
  Port = {p1}
  Message = {m1}
  None = None
  HostOf <- TwoHosts
  Registered = {ana, luis}
  Session <- AnaOnline
  MaxId = 2
  BacklogMax = 1
  OpenMayFail = FALSE
  Commands = {"CONNECT", "SEND"}
  MaxCommands = 3
  MaxCrashes = 0
  MaxKills = 1
CONSTRAINT AnaWritesToLuis
CHECK_DEADLOCK FALSE
PROPERTIES EveryCommandEnds EveryThreadEnds PendingGoesOut
