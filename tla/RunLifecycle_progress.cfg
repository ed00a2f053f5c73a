SPECIFICATION FairSpec
CONSTANTS
  Runs = {1}
  Reconcilers = {c1}
  MaxAttempts = 2
  MaxConcurrentProvisions = 1
  MaxClaims = 3
  MaxFaults = 1
PROPERTIES
  QueuedRunEnds
  RecordedMachineIsReclaimed
