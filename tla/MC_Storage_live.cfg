CONSTANTS
  NumSections = 1
  Chunks = 2
  Values = {dflt, a, z}
  Default = dflt
  ZeroDivisors = {z}
  Bad = Bad
  UiSection = 1
  DispSection = 1
  WriteCycle = 2
  MaxRetries = 1
  AsyncTimeout = 1
SPECIFICATION FairSpec
INVARIANTS
  NoZeroDivisor
PROPERTIES
  QuietBootMatchesChip
  SaveEnds
