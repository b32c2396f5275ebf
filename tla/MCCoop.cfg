SPECIFICATION FairSpec
CONSTANTS
  Threads = {1, 2}
  Signals = {a}
  Asyncs = {}
  Scdl = scdl
  MaxTimeout = 2
  MaxTimers = 3
  MaxVals = 2
  MaxPending = 1
  Programs <- Coop
INVARIANTS
  QueuesSound
PROPERTIES
  InstantsExact
