SPECIFICATION FairSpec
CONSTANTS
  reader = reader
  writer = writer
  e1 = e1
  e2 = e2
  None = None
  Request <- Handlers
  Writers <- OneWriter
  Export <- TwoExports
  MaxSignals = 2
INVARIANTS TypeOK CaptureSeesNoWriter ReplacementIsAlone WaitsForCapture NoLostWakeUp
PROPERTIES AdmissionReopens ReplacementEnds
