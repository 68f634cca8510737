SPECIFICATION FairSpec
CONSTANTS
  A = A
  B = B
  C = C
  Proc <- TwoProcs
  Undefined = Undefined
  MaxCalls = 2
  MaxRestarts = 2
INVARIANTS TypeOK ExclusiveUnlessDisplaced
PROPERTIES RecoveryDeletesOnlyDead AcquireEnds
CHECK_DEADLOCK FALSE
