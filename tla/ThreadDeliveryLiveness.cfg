SPECIFICATION FairSpec
CONSTANTS
  a = a
  b = b
  l1 = l1
  l2 = l2
  l3 = l3
  w1 = w1
  w2 = w2
  s1 = s1
  s2 = s2
  Message <- OneMessage
  Identity = {a}
  Participant = {a}
  Lease = {l1, l2}
  None = None
  Worker = {w1}
  Scanner = {s1}
  GrokBots = {}
  Phase = {"working"}
  MAX_ATTEMPTS = 2
  MaxRevision = 2
  MayRestore = FALSE
  Fence = 9
PROPERTY RequestSettles
CHECK_DEADLOCK FALSE
