SPECIFICATION Spec
CONSTANTS
  None = None
  k1 = k1
  k2 = k2
  m = m
  b1 = b1
  b2 = b2
  Calendar = {k1, k2}
  Answer <- MCAnswer
  MaxFilings = 4
  MaxCommits = 1
INVARIANTS
  TypeOK
  ReadsBack
  CollectsExactly
  MergesOnce
  AlwaysRecognised
  Credited
