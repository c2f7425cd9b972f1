SPECIFICATION CodecSpec
CONSTANTS
  Goroutines = {g1, g2}
  EncodeStates = {e1, e2}
  Inputs <- MCInputs
  Shared <- SharedInputs
  Targets <- MCTargets
  Foreign <- MCForeign
  Names <- MCNames
  Upper <- MCUpper
  LongStringSize = 2
  Significand = 3
  Wide = 5
  OutOfRange <- NoSuchInteger
  StackLimit = 8
CHECK_DEADLOCK FALSE
INVARIANTS
  ResultsOwn
  NothingHalfEncoded
  NothingLost
  ConsumesValue
  RefusesOnlyKnown
  CutNoticed
