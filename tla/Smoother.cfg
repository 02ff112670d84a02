SPECIFICATION Spec
CONSTANTS
  Nil = Nil
  standard = standard
  dense = dense
  zeroRate = zeroRate
  Points = {spot, origin, inf}
  spot = spot
  origin = origin
  inf = inf
  near = near
  nearby = nearby
  zero = zero
  huge = huge
  CGPoints = {near, nearby, zero, huge}
  AsFloat <- MCAsFloat
  BadPoints = {inf}
  Origin = origin
  MaxTime = 1
  MaxOutputs = 3
  Capacity = 2
  Motions = {standard}
  DefaultMotion = standard
  Samplings = {dense, zeroRate}
  UnsetSampling = unset
  Kalmans = {kalman}
  FillerKalman = filler
  Rejected = {unset, zeroRate, filler}
  LimitCodes = {"kInvalidArgument", "kInternal"}
  Configs <- MCConfigs
  MaxInputs = 3
  MaxPaths = 2
  MaxHanded = 1
INVARIANTS
  TypeOK
  PathMirrorsStroke
  OneSubpath
  FlagsAgreeWithModeler
  WellFormedStroke
  HandedPathsAreStable
PROPERTIES
  StartRecovers
  ImplementsContract
CHECK_DEADLOCK FALSE
