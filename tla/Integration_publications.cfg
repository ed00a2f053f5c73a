SPECIFICATION Spec
CONSTANTS
  Deliveries = {1}
  PullRequests = {pr}
  Controllers = {c1, c2}
  MAX_DELIVERY_ATTEMPTS = 2
  MaxSubmissions = 2
  FaultKinds = {"crash", "pause", "error", "lostreply"}
  MaxFaults = 2
INVARIANT OnePost
PROPERTY ImplementsPromise
