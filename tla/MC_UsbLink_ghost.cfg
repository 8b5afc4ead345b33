SPECIFICATION Spec
CONSTANTS
  Ids <- MCIds
  Kinds <- MCKinds
  Frames <- MCFrames
  Size = 8
  Prefix = 1
  Reserve = 2
  Report = 2
  ShortLen = 1
  LongLen = 3
  PushLen = 1
  MaxAsked = 2
  MaxOver = 1
  EdgesSeen = TRUE
  Nothing = Nothing
  NoFrame = NoFrame
  NoByte = NoByte
INVARIANTS
  NoGhostSubscription
