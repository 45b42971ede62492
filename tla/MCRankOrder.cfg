SPECIFICATION FairRankSpec
CONSTANTS
  Contexts <- MCContexts
  Matrices <- MCMatrices
  NoContext = NoContext
  high_weight = 1000
INVARIANTS
  Potentials Optimal BothPermutations NoRegret WeightsCountValues SwapsKeepMost
PROPERTIES
  BothTerminate
