CONSTANTS
  RingFrames = 4
  IndexRange = 4
  SettleMs = 1
  DeficitLimit = 4
  DeficitHoldMs = 1
  ConversionsPerMs = 2
  MaxLate = 1
  MaxLost = 7
  Labels = 2
  BadQualities = {}
  NoFrame = NoFrame
SPECIFICATION FairSpec
INVARIANTS
  SlipIsReal
PROPERTIES
  LossesAreLatched
