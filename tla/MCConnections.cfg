SPECIFICATION Spec
CONSTANTS
  Flows = {1, 2}
  Runs = {r1, r2}
  Scopes <- MCScopes
  ATTEMPTS = 2
  MaxRefreshes = 2
  FaultKinds = {"restart", "disconnect", "stopped", "error"}
  MaxFaults = 1
  Concerns = {"model", "service"}
  Users = {u1, u2}
  Nobody = Nobody
  Requests = {1, 2}
  Services = {"forge", "rotating forge", "plugin"}
  MaxVersion = 2
  MaxLosses = 1
SYMMETRY MCSymmetry
INVARIANTS
  NewestIsCarried
  RunsKeepTheirRevision
  SignInIsAnswered
  ConnectionOwned
  ConnectionUsable
CHECK_DEADLOCK FALSE
