SPECIFICATION Spec
CONSTANTS
  FileLen = 4
  PipeCap = 2
  Newlines = {2}
  BufSize = 2
  MaxToken = 3
  Chunks = {1, 3}
  Writers = {1, 2}
  None = none
  OutSize = 2
  MaxSent = 5
  Scenarios <- MCScenarios
INVARIANTS
  PortsSound
  FramesExact
PROPERTIES
  IsStream
CHECK_DEADLOCK FALSE
