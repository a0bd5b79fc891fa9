CONSTANTS
  CountBits = 8
  Deltas <- MC_Deltas
  ChronLens <- MC_ChronLens
  MaxUpdates = 4
INIT PTInit
NEXT PTNext
INVARIANTS PredictionIsMode TotalIsSum
