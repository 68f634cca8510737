SPECIFICATION FairSpec
CONSTANTS
  None = None
  Client = {c1}
  Edit = {1, 2}
  Author <- OneAuthor
  External = {x1}
  Agent = {a1}
  Barriers = {"move", "capture"}
  MAX_PENDING_CONNECTION_FRAMES = 3
  MaxEvents = 3
INVARIANTS TypeOK CacheIsTrue  AckMeansKept NothingStranded CaptureHoldsAccepted
PROPERTIES EverythingSettles
CHECK_DEADLOCK FALSE
