CONSTANTS
  FeatureNames <- MC_FeatureNames
  Numbers <- MC_Numbers
  Missing = Missing
  Bad = Bad
  MaxFeatures = 2
  ParamRates <- MC_ParamRates
SPECIFICATION Spec
INVARIANT LoadIsPrefix
CHECK_DEADLOCK FALSE
