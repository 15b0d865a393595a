SPECIFICATION Spec
CONSTANTS
  Scope = {1, 2, 3}
  MaxEdits = 5
INVARIANTS
  TypeOK
  ResolvesGroup
  RejectsOnlyAmbiguous
  OneScopeDecides
