SPECIFICATION FairSpec
CONSTANTS
  Threads = {1, 2, 3}
  Signals = {}
  Asyncs = {}
  Scdl = scdl
  MaxTimeout = 2
  MaxTimers = 3
  MaxVals = 1
  MaxPending = 1
  Programs <- JoinTerminated
PROPERTIES
  SleeperReturns
