\* two clients with their listeners, GETFILE, and a push or a death
SPECIFICATION PeersFairSpec
CONSTANTS
  ana = ana luis = luis l1 = l1 l2 = l2 p1 = p1 p2 = p2 p3 = p3
  Client = {ana, luis}
  Listener = {l1, l2}
  Port = {p1, p2, p3}
  None = None
  Online = {ana, luis}
  Chunks = 1
  BacklogMax = 2
  MaxCommands = 3
  MaxEvents = 1
CHECK_DEADLOCK FALSE
INVARIANTS PeersTypeOK ConnectedHasListener
PROPERTIES OkUnlessOwnerFails CommandsEnd
