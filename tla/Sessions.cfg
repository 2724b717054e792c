\* Two concurrent requests, from no session or one, over one lost connection.
SPECIFICATION FairSpec
CONSTANTS
  SessionId = {s1, s2}
  NoSession = NoSession
  NoRow = NoRow
  Caller = {c1, c2}
  Minutes = {6}
  MaxTime = 3
  MaxCalls = 2
  MaxLosses = 1
INVARIANTS
  TypeOK
  OneActive
PROPERTIES
  OverStaysOver
  EndReachesAgent
CHECK_DEADLOCK FALSE
