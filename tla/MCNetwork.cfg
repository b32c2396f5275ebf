SPECIFICATION Spec
CONSTANTS
  mA = mA  mB = mB  mC = mC  none = none
  Socks = {mA, mB}  Fds = {1, 2, 3}  NoSock = none
  Clients = {mA, mB}  Hosts = {"g", "h"}  Validity = 4  MaxTime = 6
  Texts <- MCTexts  Sessions = {mC}
SYMMETRY MCSymmetry
INVARIANTS
  NetworkExact
  SecureChannels
CHECK_DEADLOCK FALSE
