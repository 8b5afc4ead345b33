CONSTANTS
  BatchSamples = 1
  RingDepth = 2
  MaxPerTick = 1
  SeqRange = 3
  MaxDrops = 0
  MaxUnread = 1
  ZcSamples = 1
  Window = 1
  Timeout = 0
  CapSamples = 2
  CapChunks = 2
  RunLabels = 3
  MaxFaults = 1
  Transports = {t1, t2}
  t1 = t1
  t2 = t2
  Uses = {"bulk", "phasors", "power_test"}
SPECIFICATION Spec
INVARIANTS
  HeldForSomebody
  SentCaptureIsWhole
PROPERTIES
  OneOwner
SYMMETRY TransportSymmetry
