SPECIFICATION FairSpec
CONSTANTS
  Threads = {1, 2}
  Signals = {a}
  Asyncs = {x}
  Scdl = scdl
  MaxTimeout = 2
  MaxTimers = 3
  MaxVals = 1
  MaxPending = 1
  Programs <- Control
INVARIANTS
  ControlSound
PROPERTIES
  ControlExact
  AsyncServed
