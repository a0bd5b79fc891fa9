CONSTANTS
  HistorySizeParam = 4
  PatternLengthParam = 3
  PageBytes = 8
  UsePC = TRUE
  AddrBits = 4
  PCs <- MC_PCs
  NoPC <- MC_NoPC
  MaxInserts = 7
  CountBits = 8
  BlkSize = 2
  PfiAddrs <- MC_PfiAddrs
SPECIFICATION Spec
INVARIANTS TypeOK PrefetchOnPage PrefetchPredictionIsMode
CHECK_DEADLOCK FALSE
