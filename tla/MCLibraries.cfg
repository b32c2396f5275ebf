SPECIFICATION Spec
CONSTANTS
  mA = mA  mB = mB  mC = mC  mD = mD  mE = mE  none = none
  Threads = {mA, mB, mC}  Main = mA  Nil = none  Victims = {mB}  Callers = {mA, mB}
  Mutexes = {mD, mE}  Lockers <- MCLockers  Waiters = {mB}  Lookers <- MCLookers
  Procs = {mD, mE}  None = none  Increment = 1  MaxCells = 2  MaxCalls = 3
  Streams = {mA, mB}  Sockets = {mC}  Timers = {"timer"}  Idles = {"idle"}  Plains = {"plain"}
  Ops = {{"fs"}, {"stat"}, {"net"}, {"write", "stream"}, {"watcher"}}
  Foreign = {mA, mB}  Service = mC  Nobody = none  FirstLength = 1  MaxEvents = 3
  Classes = {"manager", "ifkit", "spatial", "servo", "advancedservo", "stepper", "motorcontrol", "encoder"}
  MaxHandlers = 1  Ports = {"file", "socket"}  PortSize = 2  SyswriteMax = 2  MaxCreates = 3
  Timeouts = {mD}  MaxTimeouts = 2  Libs = {"gst", "gstsrc", "gstsink", "phidget", "avahi"}
INVARIANTS
  JoinsTell
  MutexesAbandoned
  PoolsSound
  CalledOwn
  MarksKeep
  CallbacksExact
  ElementsExact
PROPERTIES
  JoinEnds
  CloseIsTold
  Heard
CHECK_DEADLOCK FALSE
