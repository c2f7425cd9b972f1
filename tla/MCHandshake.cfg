CONSTANTS
  Kinds = {"own", "c2first", "s2first"}
  Sums = {0, 727, 728, 1020}
SPECIFICATION FairSpec
INVARIANTS
  HandshakeOrder
  OwnEndsAgree
  ServerAnswersAcceptable
  MutualWaitOnlyIfPatient
  HandshakeInv
PROPERTIES
  HandshakeCompletes
CHECK_DEADLOCK FALSE
