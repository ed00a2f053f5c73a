SPECIFICATION Spec
CONSTANTS
  LastTurn = 3
  Reconcilers = {c1}
  FaultKinds = {"crash", "rollback"}
  MaxFaults = 2
INVARIANTS
  UnexpiredCheckpointExists
  NothingIsLeaked
