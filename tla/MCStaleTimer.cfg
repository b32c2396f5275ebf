SPECIFICATION Spec
CONSTANTS
  Threads = {1, 2}
  Signals = {a, b}
  Asyncs = {}
  Scdl = scdl
  MaxTimeout = 2
  MaxTimers = 3
  MaxVals = 1
  MaxPending = 1
  Programs <- StaleTimer
PROPERTIES
  AwaitSound
