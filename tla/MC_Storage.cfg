CONSTANTS
  NumSections = 2
  Chunks = 2
  Values = {dflt, a}
  Default = dflt
  ZeroDivisors = {}
  Bad = Bad
  UiSection = 1
  DispSection = 2
  WriteCycle = 2
  MaxRetries = 1
  AsyncTimeout = 1
SPECIFICATION Spec
INVARIANTS
  SaveProgress
PROPERTIES
  CompletedSaveIsOnChip
  PagesAreIndivisible
