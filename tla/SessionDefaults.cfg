SPECIFICATION Spec
CONSTANTS
  Nil = Nil
  Points = {p, origin, nan}
  BadPoints = {nan}
  Origin = origin
  MaxTime = 1
  MaxOutputs = 3
  Capacity = 2
  Motions = {standard, wobbly}
  DefaultMotion = standard
  Samplings = {dense, zeroRate}
  UnsetSampling = unset
  Kalmans = {kalman, badKalman}
  FillerKalman = filler
  Rejected = {unset, zeroRate, badKalman, filler}
  LimitCodes = {"kInvalidArgument", "kInternal", "kOutOfRange"}
  MaxInputs = 2
  PredictSizes = {0, 1, 4}
INVARIANT ResetUsesDefaults
