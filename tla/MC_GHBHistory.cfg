CONSTANTS
  HistorySizeParam = 3
  PatternLengthParam = 3
  PageBytes = 8
  UsePC = TRUE
  AddrBits = 4
  Addrs <- MC_Addrs
  PCs <- MC_PCs
  NoPC <- MC_NoPC
  MaxInserts = 7
SPECIFICATION Spec
INVARIANTS TypeOK IndexSound IndexNewest PatternFaithful
PROPERTY WindowRefinement
