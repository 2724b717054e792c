\* Two sessions, extensions, two units of time to a second, and two kills
\* or failed calls.
SPECIFICATION Spec
CONSTANTS
  SessionId = {s1, s2}
  NoSession = NoSession
  NoDeadline = NoDeadline
  TenMinutes = 3
  FiveMinutes = 3
  OneMinute = 2
  FinalSeconds = 1
  ContinuityGap = 1
  PerSecond = 2
  WarningName = {w1, w2, w3, w4}
  NoWarning = NoWarning
  Durations = {3, 7}
  MaxTime = 7
  MaxFaults = 2
  MaxSent = 3
SYMMETRY Names
CONSTRAINT SentBound
INVARIANTS
  TypeOK
  OneFinalWarning
  ScreenFollowsDecision
  BeliefsAgree
  StoppedLeavesNothing
