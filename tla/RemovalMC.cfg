\* Two overlapping connections, one removal request, one fault.
SPECIFICATION FairSpec
CONSTANTS
  Socket = {c1, c2}
  NoSocket = NoSocket
  Operator = {o1}
  MayRevoke = TRUE
  MaxFaults = 1
INVARIANTS
  TypeOK
  OpenIsRegistered
  InstructionNotMissed
  HelloIsHeard
PROPERTIES
  KeepsLifecycle
  RevokedIsDisconnected
  RequestReachesAgent
  QuietAfterRemoval
CHECK_DEADLOCK FALSE
