CONSTANTS
  CountBits = 2
  Deltas <- MC_Deltas
  ChronLens <- MC_ChronLens
  MaxUpdates = 4
INIT PTInit
NEXT PTNext
INVARIANT PredictionIsMode
