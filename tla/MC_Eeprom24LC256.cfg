CONSTANTS
  NumSections = 2
  Chunks = 1
  Values = {v1, v2}
  Bad = Bad
  WriteCycle = 2
SPECIFICATION DriverSpec
INVARIANTS
  NoLostCompletion
PROPERTIES
  ReportsAreTrue
