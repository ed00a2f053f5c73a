SPECIFICATION StartSpec
CONSTANTS
  Concerns = {"machine", "conversation"}
  Names = {"linear"}
  Versions = {v1, v2}
  Demanding = {"linear"}
  MaxChanges = 2
  Workers = {1, 2}
  Configured <- MCConfigured
  LastTurn = 2
  MAX_ATTEMPTS = 2
  MaxClaims = 2
  MaxBuilds = 2
  Scopes <- MCScopes
  ATTEMPTS = 2
  FaultKinds = {"error", "late", "clone", "suspend"}
  MaxFaults = 2
SYMMETRY MCSymmetry
INVARIANTS
  SessionKeepsItsImage
  PluginsAgree
  SuccessIsRemembered
  DiffShowsEveryEdit
PROPERTY TalkMovesForward
CHECK_DEADLOCK FALSE
