SPECIFICATION Spec
CONSTANTS
  j1 = j1
  j2 = j2
  Job = {j1}
  KindChoices <- OneImport
  Own = Own
  None = None
  Partial = Partial
  Mark = Mark
  MaxAttempts = 2
  MaxEdits = 1
  MaxTroubles = 2
INVARIANT ServesRefreshedState
CHECK_DEADLOCK FALSE
