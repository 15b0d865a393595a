SPECIFICATION Spec
CONSTANTS
  None = None
  EveryCommit = TRUE
  InitialAll = TRUE
  MaxAge = None
  FixedPeriod = None
  Sha <- MCSha
  DevActions = {"commit"}
  MaxDev = 1
  MaxTime = 0
  Proc = {p1}
  ProofCommit = TRUE
  Faults = {}
  Repairs = TRUE
  CrashAt = {"durable"}
  MaxFaults = 1
INVARIANTS
  TagsDurable
