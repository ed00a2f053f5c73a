SPECIFICATION Spec
CONSTANTS
  Deliveries = {1, 2}
  PullRequests = {pr1, pr2}
  Controllers = {c1, c2}
  MAX_DELIVERY_ATTEMPTS = 2
  MaxSubmissions = 0
  FaultKinds = {"crash", "pause", "error", "lostreply"}
  MaxFaults = 1
INVARIANTS
  OneRunPerDelivery
  OneSessionPerPullRequest
PROPERTY DeliveryIsSettled
