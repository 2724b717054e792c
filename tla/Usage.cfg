\* Two units to a second, two days of different length, two sessions.
SPECIFICATION Spec
CONSTANTS
  SessionId = {s1, s2}
  NoRow = NoRow
  Caller = {c1, c2}
  Granted = {1, 3}
  PerSecond = 2
  Borders = {0, 2, 5}
  Midnights = {0, 2, 5}
  MaxRange = 5
  MaxTime = 5
  MaxCalls = 4
SYMMETRY Symmetry
CONSTRAINT NotDone
INVARIANTS
  TypeOK
  ReportMatchesHistory
  DaysMatchHistory
  RowsMatchHistory
CHECK_DEADLOCK FALSE
