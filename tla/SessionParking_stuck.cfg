SPECIFICATION FairSpec
CONSTANTS
  LastTurn = 1
  Reconcilers = {c1}
  FaultKinds = {"race"}
  MaxFaults = 1
PROPERTY EndedTurnIsParked
\* The deadlock is the violation this run is about.
CHECK_DEADLOCK FALSE
