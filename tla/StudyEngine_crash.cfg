\* Two opportunities, two attempts each, a crash anywhere.
SPECIFICATION FairSpec
CONSTANTS
  ProposalOpportunities = 2
  ProviderAttempts = 2
  RepairsPerOpportunity = 1
  RepairCeiling = 1
  RetryCeiling = 1
  TokenCeiling = 2
  TrainingCeiling = 2
  Unknown = Unknown
  None = None
  seed = seed
  novel = novel
  garbage = garbage
  Sources <- MCSources
  Seed = seed
  Garbage <- MCGarbage
  ParentPolicy = "portfolio"
  PortfolioSize = 2
  TransitionOpportunities <- MCFirst
  Usages <- MCUsages
  TrainingUses <- MCTrainingUses
  RetryUses <- MCNoRetries
  EvaluationOutcomes <- MCTwoOutcomes
  MaxLaunches = 2
INVARIANTS
  RunInv
  NeverRejected
  StateReconstructs
  TrainingAccounted
PROPERTIES
  NeverReplayed
  HistoryIsFinal
  ImplementsProtocol
  RunSettles
