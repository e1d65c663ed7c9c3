CONSTANTS
  Fds = {0, 1, 2}
  Sockets = {server, s1, s2}
  NoSocket = NoSocket
  SizeModulus = 8
  Conns = {k1, k2}
  Server = server
  NoConn = NoConn
  Peers = {p1, p2}
  NoPeer = NoPeer
  MaxInits = 3
SPECIFICATION Spec
SYMMETRY ServerSymmetry
INVARIANTS
  NonBlockingWhenReady
