CONSTANTS
  Callers = {t1, t2}
  Admin = admin
  None = None
  MaxInits = 2
SPECIFICATION FairSpec
INVARIANTS
  TypeOK
  OneLogger
  LoggerComplete
  InitDelivers
PROPERTIES
  OutputFlushed
  InitReturns
