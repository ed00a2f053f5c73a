SPECIFICATION Spec
CONSTANTS
  LastEvent = 1
  ATTEMPTS = 2
  Readers = {{"browser"}, {"export"}}
  Exporters = {c1, c2}
  MAX_EXPORT_ATTEMPTS = 2
  FaultKinds = {"timeout", "crash", "disconnect", "error", "pause"}
  MaxFaults = 1
INVARIANTS
  BrowserSeesTheLog
  ExportIsComplete
PROPERTY ReadersFinish
CHECK_DEADLOCK FALSE
