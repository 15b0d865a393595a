SPECIFICATION Spec
CONSTANTS
  None = None
  EveryCommit = FALSE
  InitialAll = TRUE
  MaxAge = 1
  FixedPeriod = 3
  Sha <- MCSha
  DevActions = {"commit"}
  MaxDev = 2
  MaxTime = 2
  Proc = {p1}
  ProofCommit = TRUE
  Faults = {}
  Repairs = FALSE
  CrashAt = {}
  MaxFaults = 0
PROPERTIES
  OccurrenceOnce
