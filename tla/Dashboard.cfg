\* Two machines, two changes to each session.
SPECIFICATION Spec
CONSTANTS
  Machine = {m1, m2}
  Absent = Absent
  Gone = Gone
  Unloaded = Unloaded
  NoRead = NoRead
  MaxRev = 2
  MaxUnderWay = 3
SYMMETRY Symmetry
CONSTRAINT Bounded
INVARIANTS
  TypeOK
  ShowsServer
CHECK_DEADLOCK FALSE
