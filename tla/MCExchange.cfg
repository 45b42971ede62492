SPECIFICATION FairSpec
CONSTANTS
  Rank <- MCRank
  Comm <- MCComm
  RankId <- MCRankId
  Scripts <- MCScripts
  Serialized = FALSE
  EagerModes = {TRUE, FALSE}
INVARIANTS
  CollectivesAgree
  NoCrossTalk
  NoStrayMessage
  ResultsComplete
PROPERTIES
  Termination
