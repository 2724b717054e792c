\* One computer, two enrollments, an OS clock that is never behind.
SPECIFICATION FairSpec
CONSTANTS
  SessionId = {s1}
  NoSession = NoSession
  NoDeadline = NoDeadline
  Identity = {i1, i2}
  NoIdentity = NoIdentity
  Absent = Absent
  Corrupt = Corrupt
  TenMinutes = 3
  FiveMinutes = 3
  OneMinute = 2
  FinalSeconds = 1
  ContinuityGap = 1
  PerSecond = 1
  MaxTime = 3
  MaxFaults = 2
  MaxClockSteps = 2
  MayFallBehind = FALSE
INVARIANTS
  TypeOK
  WarningIsCurrent
  FinalWarningUp
  SavedBeforeActing
PROPERTIES
  HighWaterMarkNeverFalls
  NeverReverts
  AllowedInTime
  KeepsPromise
  OverdueLocks
CHECK_DEADLOCK FALSE
