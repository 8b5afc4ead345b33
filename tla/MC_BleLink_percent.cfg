\* A request that ends in the byte 0x25 puts the token parser out of step
SPECIFICATION Spec
CONSTANTS
  Ids = {1, 2, 3}
  Kinds = {"short", "subscribe", "percent"}
  Slots = 4
  Margin = 2
  MaxLag = 2
  Chunk = 2
  QueueSize = 2
  Reserve = 1
  MaxAttempts = 2
  MaxAsked = 1
  Between = "task"
  PowerTests = FALSE
  Nothing = Nothing
INVARIANTS
  LinkIsTracked
