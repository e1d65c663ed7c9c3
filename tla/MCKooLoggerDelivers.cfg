CONSTANTS
  Callers = {t1, t2}
  Admin = admin
  None = None
  MaxInits = 2
SPECIFICATION Spec
SYMMETRY CallerSymmetry
INVARIANTS
  GetLoggerDelivers
