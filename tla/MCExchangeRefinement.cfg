SPECIFICATION Spec
CONSTANTS
  Rank <- MCRank
  Comm <- MCComm
  RankId <- MCRankId
  Scripts <- MCScripts
  Serialized = TRUE
  EagerModes = {TRUE, FALSE}
CHECK_DEADLOCK FALSE
PROPERTIES
  ImplementsRedistribution
INVARIANTS
  IInv
