SPECIFICATION MCSpec
CONSTANTS
  LastTurn = 2
  Reconcilers = {c1, c2}
  FaultKinds = {"crash", "pause", "race", "refused", "rollback", "lostreply"}
  MaxFaults = 1
SYMMETRY Alike
INVARIANTS
  NoMachineOutlivesSession
  TurnsTakeTurns
PROPERTIES
  DeletionSparesTurns
  SessionCheckpointGoes
CHECK_DEADLOCK FALSE
