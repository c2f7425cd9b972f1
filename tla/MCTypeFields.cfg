SPECIFICATION TypeFieldsSpec
CONSTANTS
  Graphs <- MCGraphs
  Top = "T"
CHECK_DEADLOCK FALSE
INVARIANTS
  GoRulesUnlessShared
PROPERTIES
  SearchEnds
