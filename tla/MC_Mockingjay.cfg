CONSTANTS
  Ways <- MC_Ways
  PCs <- MC_PCs
  NoPC <- MC_NoPC
  EnableOnlineLearning = TRUE
  WeightChoices <- MC_Trained
  AgeFeat <- MC_AgeFeat
  CountFeat <- MC_CountFeat
  ReuseFeat <- MC_ReuseFeat
  MaxTick = 2
  MaxOps = 5
SPECIFICATION Spec
INVARIANTS TypeOK TrainingMatchesEviction
CHECK_DEADLOCK FALSE
