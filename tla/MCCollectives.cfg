SPECIFICATION BothSpec
CONSTANTS
  Rank <- MCRank
  Comm <- MCComm
  RankId <- MCRankId
  Scripts <- MCScripts
  NULL = NULL
  THROW = THROW
  Spare <- MCSpare
  Jobs <- MCJobs
INVARIANTS
  LikeWithLike
  SameConclusion
  RankMapsTranslate
  NoDeadlock
  CollectivesMatch
PROPERTIES
  Termination
  EveryoneAdapts
