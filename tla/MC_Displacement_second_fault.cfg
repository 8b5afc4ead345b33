CONSTANTS
  BatchSamples = 1
  RingDepth = 2
  MaxPerTick = 1
  SeqRange = 3
  MaxDrops = 0
  MaxUnread = 1
  ZcSamples = 1
  Window = 1
  Timeout = 1
  CapSamples = 1
  CapChunks = 1
  RunLabels = 3
  MaxFaults = 2
  Transports = {t1}
  t1 = t1
  Uses = {"bulk"}
SPECIFICATION FairSpec
PROPERTIES
  BulkSurvivesFaults
