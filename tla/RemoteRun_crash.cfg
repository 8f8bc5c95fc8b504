\* A run of every kind and one that reads it; a preemption and two faults.
SPECIFICATION Spec
CONSTANTS
  x = x
  y = y
  Runs <- MCRuns
  Kinds <- MCKinds
  Source <- MCSource
  MaxRequests = 2
  MaxRestarts = 1
  MaxFaults = 2
CHECK_DEADLOCK FALSE
INVARIANTS
  RemoteInv
  StartedOnce
  ManifestIsTruth
  QuarantineHolds
  SpendIsBounded
PROPERTIES
  ManifestedIsFinal
