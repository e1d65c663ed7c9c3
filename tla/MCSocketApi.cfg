CONSTANTS
  Fds = {0, 1}
  Sockets = {s1, s2, s3}
  NoSocket = NoSocket
  Conns = {k1, k2}
  SizeModulus = 8
  Sizes = {2}
SPECIFICATION Spec
SYMMETRY ApiSymmetry
INVARIANTS
  TypeOK
  DescriptorOwned
  StatusCoherent
  OneAccept
PROPERTIES
  ErrorsChangeNothing
