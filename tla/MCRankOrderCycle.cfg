SPECIFICATION RankSpec
CONSTANTS
  Contexts <- FourToSix
  Matrices = {}
  NoContext = NoContext
  high_weight = 1000
INVARIANTS
  KeepsMost
