SPECIFICATION ServerSpec
CONSTANTS
  Sockets = {s1, s2, s3}
  MaxFiles = 2
CHECK_DEADLOCK FALSE
INVARIANTS
  ServedKeepSockets
PROPERTIES
  PeersAnswered
