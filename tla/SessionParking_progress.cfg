SPECIFICATION FairSpec
CONSTANTS
  LastTurn = 2
  Reconcilers = {c1}
  FaultKinds = {"crash", "pause", "race", "refused", "rollback", "lostreply"}
  MaxFaults = 1
PROPERTIES
  QueuedTurnStarts
  SuspendedSourcesGo
  ExpiredCheckpointGoes
\* After the launch race the session may have nothing left to do.
CHECK_DEADLOCK FALSE
