CONSTANTS
  Ways <- MC_Ways
  PCs <- MC_PCs
  NoPC <- MC_NoPC
  EnableOnlineLearning = FALSE
  WeightChoices <- MC_Fixed
  AgeFeat <- MC_AgeFeat
  CountFeat <- MC_CountFeat
  ReuseFeat <- MC_ReuseFeat
  MaxTick = 2
  MaxOps = 5
SPECIFICATION Spec
INVARIANT InvalidWayPreferred
CHECK_DEADLOCK FALSE
