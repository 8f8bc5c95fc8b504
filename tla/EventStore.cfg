\* Two processes, two events, two crashes.
SPECIFICATION Spec
CONSTANTS
  p = p
  q = q
  e = e
  f = f
  Procs <- MCProcs
  Events <- MCEvents
  Nobody = Nobody
  Torn = Torn
  MaxEvents = 2
  MaxCrashes = 2
INVARIANTS
  StoreInv
  OneCrashContained
PROPERTIES
  ImplementsLog
