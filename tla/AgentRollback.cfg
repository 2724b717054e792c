\* The OS clock may be set behind real time once; the loop is punctual.
SPECIFICATION PunctualSpec
CONSTANTS
  SessionId = {s1}
  NoSession = NoSession
  NoDeadline = NoDeadline
  Identity = {i1, i2}
  NoIdentity = NoIdentity
  Absent = Absent
  Corrupt = Corrupt
  TenMinutes = 3
  FiveMinutes = 3
  OneMinute = 2
  FinalSeconds = 1
  ContinuityGap = 1
  PerSecond = 1
  MaxTime = 3
  MaxFaults = 1
  MaxClockSteps = 1
  MayFallBehind = TRUE
PROPERTY RollbackCannotExtend
CHECK_DEADLOCK FALSE
