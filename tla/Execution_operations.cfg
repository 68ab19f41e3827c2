\* Three queries and a mutation with nine loads, one of them refused by the
\* repository; a context that may end at any time or never.
CONSTANTS
  Operations <- AllOperations
  Loads <- AllLoads
  Refused <- RefusedLoads
SPECIFICATION ExecutionFairSpec
INVARIANTS
  NoLoadLostOrDoubled
  SomebodyWillDispatch
  AnsweredWithOwnPage
  ResponseIsSound
PROPERTIES
  ReadsFollowTheirEffect
  EveryOperationAnswers
  EveryDispatcherEnds
CHECK_DEADLOCK FALSE
