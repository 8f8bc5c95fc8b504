\* Three attempts, up to two repairs, answers that may repeat, a crash anywhere.
SPECIFICATION SinkFairSpec
CONSTANTS
  ProposalOpportunities = 2
  ProviderAttempts = 3
  RepairsPerOpportunity = 2
  RepairCeiling = 2
  RetryCeiling = 1
  TokenCeiling = 9
  TrainingCeiling = 0
  Unknown = Unknown
  None = None
  seed = seed
  novel = novel
  garbage = garbage
  rubbish = rubbish
  Sources <- MCSources
  Seed = seed
  Garbage <- MCGarbage
  ParentPolicy = "single"
  PortfolioSize = 1
  TransitionOpportunities <- MCNone
  Usages <- MCOneToken
  TrainingUses <- MCNoTraining
  RetryUses <- MCNoRetries
  EvaluationOutcomes <- MCAccepted
  MaxLaunches = 2
  Repeats = TRUE
INVARIANTS
  RefusalExplained
  ResponsesGrounded
  CausallyOrdered
  CompletedMirrored
PROPERTIES
  MirrorSettles
