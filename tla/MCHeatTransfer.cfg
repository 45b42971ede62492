SPECIFICATION Spec
CONSTANTS
  Simulations <- MCSimulations
INVARIANTS
  TypeOK LayersFit NoLayerLeft RankGridTells
PROPERTIES
  ImplementsSequential
