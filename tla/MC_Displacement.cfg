CONSTANTS
  BatchSamples = 2
  RingDepth = 2
  MaxPerTick = 1
  SeqRange = 4
  MaxDrops = 1
  MaxUnread = 1
  ZcSamples = 1
  Window = 2
  Timeout = 1
  CapSamples = 2
  CapChunks = 2
  RunLabels = 3
  MaxFaults = 1
  Transports = {}
  Uses = {"zero_cal", "precision", "reconfigure", "power_test", "degenerate"}
SPECIFICATION Spec
INVARIANTS
  ReadingIsLive
  ZeroCalIsOneRun
  PrecisionIsContiguous
