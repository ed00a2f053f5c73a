SPECIFICATION Spec
SYMMETRY Symmetry
CONSTANTS
  Runs = {1}
  Reconcilers = {c1, c2}
  MaxAttempts = 2
  MaxConcurrentProvisions = 2
  MaxClaims = 3
  MaxFaults = 1
INVARIANTS
  TypeOK
  OneRecordedRuntime
  StampedMeansGone
  NoOrphanWithoutFault
PROPERTY ImplementsPromise
