CONSTANTS
  Word = 64
  ResetAt = 40
  MaxRead = 8
  MaxWindow = 6
  Windows = {6}
  DefaultReadChunkSize = 4
  MaxHeaderSize = 6
  MaxStreamsNum = 32
  HandshakeSizes <- Sizes44
  Msgs <- AllMsgs
  Csids = {3, 32, 33, 70, 400}
  Fmts = {0, 1, 2, 3}
  ExtTimes <- Both
  Claims <- CooperativeClaims
  AppErrors = TRUE
  MaxMsgs = 3
  MaxBacklog = 2
SPECIFICATION MCConnSpec
CHECK_DEADLOCK FALSE
INVARIANTS
  ConnTypeOK
  FollowsPeer
  ChunkSizeAgreed
  NotDroppedForNothing
  RepliesFit
PROPERTIES
  AckSpec
  ServesEverything
