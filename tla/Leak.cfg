\* part 2 answers a SEND and keeps its socket
SPECIFICATION ProcessSpec
CONSTANTS
  w1 = w1 w2 = w2
  Worker = {w1, w2}
  Main = Main
  None = None
  MaxConnections = 2
  MaxFds = 3
  MaxSignals = 0
CHECK_DEADLOCK FALSE
INVARIANTS ClosedAfterwards
