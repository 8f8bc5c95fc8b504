\* A launch that is rejected before it reserves anything.
SPECIFICATION Spec
CONSTANTS
  canary = canary
  single = single
  r1 = r1
  r2 = r2
  r3 = r3
  Attempts <- MCAttempts
  Runs <- MCRuns
  Plans <- MCPlans
  Recoverer = Recoverer
  Sealer = Sealer
  Nobody = Nobody
  MaxBoots = 2
  MaxFaults = 2
CHECK_DEADLOCK FALSE
INVARIANT
  RejectionsRecoverable
