CONSTANTS
  Workers = {w1, w2}
  Producers = {p1, p2}
  Owner = owner
  Msgs = {1, 2, 3, 4}
  Blocking = {1, 2, 3}
  QSize = 2
  Terminate = terminate
  Blank = blank
SPECIFICATION ReducedSpec
CHECK_DEADLOCK FALSE
INVARIANTS
  TypeOK
  Accounting
  NoLostWakeup
  NoUseAfterFree
  Drained
PROPERTIES
  ImplementsLogChannel
  CallsReturn
  AcceptedWritten
