CONSTANTS
  Word = 32
  ResetAt = 20
  MaxRead = 4
  MaxWindow = 9
  Windows = {1, 3, 9}
  MaxUnacked = 30
SPECIFICATION MCAckSpec
INVARIANTS
  MarkBehindCount
  NeverOvercounted
  OutstandingBounded
  AckInv
