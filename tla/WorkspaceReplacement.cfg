SPECIFICATION FairSpec
CONSTANTS
  j1 = j1
  j2 = j2
  Job = {j1, j2}
  KindChoices <- BesideClear
  Own = Own
  None = None
  Partial = Partial
  Mark = Mark
  MaxAttempts = 2
  MaxEdits = 1
  MaxTroubles = 3
INVARIANTS TypeOK ServesSettledTree BackupIsNamed CompleteWasCommitted ReplacesWhatWasReviewed FirstAttemptsRefresh
PROPERTIES ReplacementIsAtomic ServesAgain
CHECK_DEADLOCK FALSE
