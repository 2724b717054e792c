\* Three platforms, one enrollment after the first, two faults.
SPECIFICATION FairSpec
CONSTANTS
  Platform = {"systemd", "launchd", "scm"}
  Torn = Torn
  Absent = Absent
  MaxEnrollments = 2
  MaxFaults = 2
INVARIANTS
  TypeOK
  EnrollmentKept
  InstallerEnrollsAlone

PROPERTIES
  StopCompletes
  LocksWhoIsThere
CHECK_DEADLOCK FALSE
