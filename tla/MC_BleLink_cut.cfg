\* The bring-up releases a module that the power test has cut
SPECIFICATION Spec
CONSTANTS
  Ids = {1, 2, 3}
  Kinds = {"short", "subscribe", "unsubscribe"}
  Slots = 4
  Margin = 2
  MaxLag = 4
  Chunk = 2
  QueueSize = 2
  Reserve = 1
  MaxAttempts = 2
  MaxAsked = 1
  Between = "noticed"
  PowerTests = TRUE
  Nothing = Nothing
INVARIANTS
  CutStaysCut
