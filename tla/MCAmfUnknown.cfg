SPECIFICATION CodecSpec
CONSTANTS
  Goroutines = {g1}
  EncodeStates = {e1}
  Inputs <- NoInputs
  Shared = {}
  Targets <- NoTargets
  Foreign <- UnknownMember
  Names <- MCNames
  Upper <- MCUpper
  LongStringSize = 2
  Significand = 3
  Wide = 5
  OutOfRange <- NoSuchInteger
  StackLimit = 8
CHECK_DEADLOCK FALSE
INVARIANTS
  UnknownDiscarded
