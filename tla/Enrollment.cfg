\* Two tokens, three attempts and two removal requests of one machine.
SPECIFICATION Spec
CONSTANTS
  Token = {t1, t2}
  Attempt = {a1, a2, a3}
  NoAttempt = NoAttempt
  Operator = {o1, o2}
SYMMETRY Symmetry
INVARIANTS
  TypeOK
  StrandedOnlyByRace
PROPERTY
  RemovedForGood
CHECK_DEADLOCK FALSE
