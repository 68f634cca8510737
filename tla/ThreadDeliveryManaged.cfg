SPECIFICATION Spec
CONSTANTS
  a = a
  b = b
  l1 = l1
  l2 = l2
  l3 = l3
  w1 = w1
  w2 = w2
  s1 = s1
  s2 = s2
  Message <- TwoMessages
  Identity = {a}
  Participant = {a}
  Lease = {l1, l2, l3}
  None = None
  Worker = {w1}
  Scanner = {}
  GrokBots = {a}
  Phase = {"working", "receiving"}
  MAX_ATTEMPTS = 1
  MaxRevision = 2
  MayRestore = TRUE
  Fence = 9
SYMMETRY SymmetryOfPools
INVARIANTS AttemptsBounded LeaseFencing OneManagedExecution
CHECK_DEADLOCK FALSE
