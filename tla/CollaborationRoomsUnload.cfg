SPECIFICATION Spec
CONSTANTS
  None = None
  Client = {c1}
  Edit = {1, 2}
  Author <- OneAuthor
  External = {}
  Agent = {}
  Barriers = {}
  MAX_PENDING_CONNECTION_FRAMES = 3
  MaxEvents = 3
INVARIANTS UnloadForgetsNothing
CHECK_DEADLOCK FALSE
