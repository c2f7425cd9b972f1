SPECIFICATION MessagesSpec
CONSTANTS
  MaxHeaderSize = 18
  ChunkSizes = {1, 3, 4, 5}
  MaxLen = 10
  Requests = {0, 1, 2, 3, 5, 7}
  DefaultSendChunkSize = 4
  MaxStreamsNum = 32
  Word = 10
  Escape = 6
  Lengths = {0, 1, 3, 6}
  Headers <- TimedHeaders
  MaxMsgs = 2
CHECK_DEADLOCK FALSE
INVARIANTS
  ReadsMessageThenZeros
  FailsOnlyAtEnd
  WireIsChunk
  HeadersUnderstood
