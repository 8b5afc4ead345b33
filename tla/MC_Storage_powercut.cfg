CONSTANTS
  NumSections = 2
  Chunks = 1
  Values = {dflt, a}
  Default = dflt
  ZeroDivisors = {}
  Bad = Bad
  UiSection = 1
  DispSection = 2
  WriteCycle = 2
  MaxRetries = 1
  AsyncTimeout = 1
SPECIFICATION Spec
PROPERTY PowerCutKeepsPages
