\* One token, posted once, and one removal request.
SPECIFICATION Spec
CONSTANTS
  Token = {t1}
  Attempt = {a1}
  NoAttempt = NoAttempt
  Operator = {o1}
INVARIANT
  NoneOrphaned
CHECK_DEADLOCK FALSE
