SPECIFICATION Spec
CONSTANTS
  None = None
  Source = {s1, s2}
  Calendar = {k1}
  Configs <- MCConfigs
  DevActions = {"commit", "amend", "push", "reset", "restore", "configure"}
  MaxDev = 2
  Faults = {"calendar", "client", "contended", "interrupt"}
  MaxFaults = 1
INVARIANTS
  TypeOK
PROPERTIES
  AttestsNoLess
  FoldsOnlyItsOwn
  FastForwards
  RecordsRefreshes
  EventuallySettled
CHECK_DEADLOCK FALSE
