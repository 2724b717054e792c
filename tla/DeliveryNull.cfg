\* One operator, no lost connection, sessions that do not expire.
SPECIFICATION FairSpec
CONSTANTS
  SessionId = {s1}
  NoSession = NoSession
  NoRow = NoRow
  Caller = {c1}
  Minutes = {20}
  MaxTime = 2
  MaxCalls = 1
  MaxLosses = 0
PROPERTY
  StartReachesAgent
CHECK_DEADLOCK FALSE
