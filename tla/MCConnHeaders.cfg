CONSTANTS
  Word = 64
  ResetAt = 40
  MaxRead = 8
  MaxWindow = 6
  Windows = {6}
  DefaultReadChunkSize = 4
  MaxHeaderSize = 6
  MaxStreamsNum = 32
  HandshakeSizes <- Sizes44
  Msgs <- PlainMsgs
  Csids = {3}
  Fmts = {0, 1, 2, 3}
  ExtTimes <- Never
  Claims <- CooperativeClaims
  AppErrors = FALSE
  MaxMsgs = 2
  MaxBacklog = 2
SPECIFICATION ConnSpec
CHECK_DEADLOCK FALSE
INVARIANT HeadersRemembered
