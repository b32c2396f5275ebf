SPECIFICATION StoppingSpec
CONSTANTS
  Threads = {t1, t2}
  Scdl = scdl
  Externals = {e1}
  NoToken = none
INVARIANTS
  TypeOK
  MutualExclusion
  NoLostToken
  NoLostNotify
PROPERTIES
  BatonFairSpec
  NativesServed
