CONSTANTS
  Fds = {0}
  Sockets = {s1}
  NoSocket = NoSocket
  Conns = {k1}
  SizeModulus = 8
  Sizes = {1, 2}
SPECIFICATION Spec
INVARIANTS
  SendFailureReported
