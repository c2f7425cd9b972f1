CONSTANTS
  Kinds = {"own", "c2first", "s2first"}
  Sums = {0, 727, 728, 1020}
SPECIFICATION Spec
INVARIANT NeverPanics
CHECK_DEADLOCK FALSE
