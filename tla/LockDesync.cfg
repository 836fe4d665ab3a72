SPECIFICATION Spec
CONSTANTS
  None = None
  Clients = {c1}
  Requests <- LockRequests
  Probabilities <- TwoProbabilities
  MaxCrashes = 0
  Backlog = 2
PROPERTY
  NewAttackIsLocked
