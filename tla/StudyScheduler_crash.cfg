\* Two campaign processes and an operator; one failure, one crash,
\* one read or write that raises.
SPECIFICATION FairSpec
CONSTANTS
  c1 = c1
  c2 = c2
  op = op
  Campaigners <- MCTwoCampaigners
  Operators <- MCOneOperator
  RunCount = 2
  NoRun = NoRun
  NoProc = NoProc
  MaxFailures = 1
  MaxCrashes = 1
  MaxAuthorizations = 1
  MaxFaults = 1
INVARIANTS
  SchedulerInv
  LeaseExclusive
  ExecutedOnce
PROPERTIES
  CompletedIsFinal
  CampaignProgresses
