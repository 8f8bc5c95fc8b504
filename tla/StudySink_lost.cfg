\* A crash between the write of a repair and its observation.
SPECIFICATION SinkSpec
CONSTANTS
  ProposalOpportunities = 1
  ProviderAttempts = 2
  RepairsPerOpportunity = 1
  RepairCeiling = 1
  RetryCeiling = 1
  TokenCeiling = 9
  TrainingCeiling = 0
  Unknown = Unknown
  None = None
  seed = seed
  novel = novel
  garbage = garbage
  rubbish = rubbish
  Sources <- MCSources
  Seed = seed
  Garbage <- MCTwoGarbage
  ParentPolicy = "single"
  PortfolioSize = 1
  TransitionOpportunities <- MCNone
  Usages <- MCOneToken
  TrainingUses <- MCNoTraining
  RetryUses <- MCNoRetries
  EvaluationOutcomes <- MCTwoOutcomes
  MaxLaunches = 2
  Repeats = FALSE
INVARIANTS
  ResponsesTrue
