SPECIFICATION Spec
CONSTANTS
  mA = mA  mB = mB  mC = mC  none = none
  Threads = {"t", "u"}  Procs = {mA, mB, mC}  NoOne = none  MaxProcNum = 2
  Tasks = {mA, mB, mC}  Mutexes = {"l"}  NoTask = none  MaxDepth = 2  EnvValues = {"v", "w"}
  Runners = {mA, mB}  Winds = {mB, mC}  MaxBlocks = 2  MaxKonts = 2  MaxMissed = 1
  Callers = {mA, mB}  Stems = {"g", "x"}  MaxSymbols = 3  Objects = {mB, mC}  Unspec = none
INVARIANTS
  ProcessTable
  NumbersExact
  TextExact
  TablesExact
  SecureMaterial
  WindsBalanced
  CallsAgree
  MediaExact
  SystemExact
  FilesExact
  
  LocksExact
PROPERTIES
  LandsThere
CHECK_DEADLOCK FALSE
