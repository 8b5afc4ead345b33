CONSTANTS
  RingFrames = 3
  IndexRange = 6
  SettleMs = 1
  DeficitLimit = 1
  DeficitHoldMs = 0
  ConversionsPerMs = 1
  MaxLate = 3
  MaxLost = 0
  Labels = 4
  BadQualities = {"framing", "crc"}
  NoFrame = NoFrame
SPECIFICATION Spec
INVARIANTS
  DmaSlotIsFree
  DamageIsLatched
PROPERTIES
  ImplementsFifo
