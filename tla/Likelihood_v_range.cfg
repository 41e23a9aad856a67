SPECIFICATION Spec
CONSTANTS
  Scale = 10000
  Grid = 20
  CF_MAX_ITER = 20
INVARIANT LikelihoodIsProbability
