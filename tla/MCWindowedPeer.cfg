CONSTANTS
  Word = 16
  ResetAt = 13
  MaxRead = 3
  MaxWindow = 5
  Windows = {3, 5}
  Budgets = {7, 14}
  MaxBefore = 12
  MaxInFlight = 4
SPECIFICATION FairPeerSpec
INVARIANTS
  NeverStalls
  StallMeansRestart
  PeerInv
PROPERTIES
  KeepsFlowing
CHECK_DEADLOCK FALSE
