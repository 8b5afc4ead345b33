SPECIFICATION FairSpec
CONSTANTS
  N = 3
  Periods <- MCPeriods
  W = 19
  MaxPass = 2
  StallLimit = 4
  WwdgTime = 2
INVARIANTS
  InTime
  NoFalseReset
PROPERTIES
  NeverEarly
  HangsEnd
  TasksRun
