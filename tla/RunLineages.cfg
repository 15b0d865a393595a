SPECIFICATION Spec
CONSTANTS
  None = None
  EveryCommit = FALSE
  InitialAll = TRUE
  MaxAge = 1
  FixedPeriod = None
  Sha <- MCSha
  DevActions = {"commit", "amend", "reset", "merge"}
  MaxDev = 3
  MaxTime = 2
  Proc = {p1}
  ProofCommit = TRUE
  Faults = {"veto"}
  Repairs = FALSE
  CrashAt <- AllSteps
  MaxFaults = 1
INVARIANTS
  TagsBacked
  ClaimsBacked
PROPERTIES
  NothingLeftInFlight
