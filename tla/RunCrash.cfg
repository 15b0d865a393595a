SPECIFICATION Spec
CONSTANTS
  None = None
  EveryCommit = TRUE
  InitialAll = TRUE
  MaxAge = None
  FixedPeriod = None
  Sha <- MCSha
  DevActions = {"commit", "amend", "clean"}
  MaxDev = 2
  MaxTime = 1
  Proc = {p1}
  ProofCommit = TRUE
  Faults = {"refuse", "submit", "veto"}
  Repairs = TRUE
  CrashAt <- AllSteps
  MaxFaults = 2
INVARIANTS
  TypeOK
  TagsTruthful
PROPERTIES
  NothingLeftInFlight
  LateTagsReopenNothing
  Ledger
