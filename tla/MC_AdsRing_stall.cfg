CONSTANTS
  RingFrames = 8
  IndexRange = 8
  SettleMs = 1
  DeficitLimit = 4
  DeficitHoldMs = 2
  ConversionsPerMs = 5
  MaxLate = 4
  MaxLost = 1
  Labels = 2
  BadQualities = {}
  NoFrame = NoFrame
SPECIFICATION Spec
INVARIANTS
  StallRecovers
