\* connections of every kind, descriptors that run out, threads that cannot be made,
\* a log server that fails or dies, one SIGINT
SPECIFICATION ProcessFairSpec
CONSTANTS
  w1 = w1 w2 = w2
  Worker = {w1, w2}
  Main = Main
  None = None
  MaxConnections = 4
  MaxFds = 2
  MaxSignals = 1
CHECK_DEADLOCK FALSE
INVARIANTS ProcessTypeOK HandedOverOnce PartOneCloses LogOffIsHarmless NobodyWaitsInVain
PROPERTIES OneSigintEndsServer EveryConnectionEnds EveryThreadReturns
