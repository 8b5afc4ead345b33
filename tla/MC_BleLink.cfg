\* One central; requests of two halves; the ring laps
SPECIFICATION FairSpec
CONSTANTS
  Ids = {1, 2, 3}
  Kinds = {"short", "subscribe", "unsubscribe"}
  Slots = 4
  Margin = 2
  MaxLag = 4
  Chunk = 2
  QueueSize = 2
  Reserve = 1
  MaxAttempts = 2
  MaxAsked = 1
  Between = "noticed"
  PowerTests = TRUE
  Nothing = Nothing
INVARIANTS
  ReadyIsConfigured
  LinkIsTracked
PROPERTIES
  HostSession
  BringUpSucceeds
  HostIsServed
