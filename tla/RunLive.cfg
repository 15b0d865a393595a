SPECIFICATION FairSpec
CONSTANTS
  None = None
  EveryCommit = TRUE
  InitialAll = TRUE
  MaxAge = None
  FixedPeriod = None
  Sha <- MCSha
  DevActions = {"commit"}
  MaxDev = 2
  MaxTime = 0
  Proc = {p1, p2}
  ProofCommit = TRUE
  Faults = {"submit", "veto"}
  Repairs = FALSE
  CrashAt <- NotManifest
  MaxFaults = 1
INVARIANTS
  Exclusive
  TagsDurable
PROPERTIES
  EventuallyCovered
