\* No revocation and one lost connection or restart.
SPECIFICATION FairSpec
CONSTANTS
  Socket = {c1, c2}
  NoSocket = NoSocket
  Operator = {o1}
  MayRevoke = FALSE
  MaxFaults = 1
PROPERTY
  AcceptedIsFinalized
CHECK_DEADLOCK FALSE
