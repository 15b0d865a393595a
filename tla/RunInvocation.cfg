SPECIFICATION FairSpec
CONSTANTS
  Proc = {p1, p2}
  Instance <- MCInstances
  None = None
  RetryWindow = 3
  MaxBackoff = 2
INVARIANTS
  TypeOK
  WorksUnderLock
PROPERTIES
  LockedOutByOthers
  LeavesNoClient
  EventuallyEnds
