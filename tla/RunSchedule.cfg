SPECIFICATION Spec
CONSTANTS
  None = None
  EveryCommit = FALSE
  InitialAll = TRUE
  MaxAge = None
  FixedPeriod = 2
  Sha <- MCSha
  DevActions = {"commit", "amend", "drop", "clean", "config"}
  MaxDev = 3
  MaxTime = 2
  Proc = {p1}
  ProofCommit = FALSE
  Faults = {"submit", "veto"}
  Repairs = FALSE
  CrashAt <- AllSteps
  MaxFaults = 1
INVARIANTS
  ClaimsBacked
  ClaimedOnce
PROPERTIES
  NothingInFlightAtSubmit
  NoResubmission
  Converged
  OccurrenceOnce
