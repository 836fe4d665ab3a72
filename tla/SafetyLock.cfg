\* Two clients with every kind of request, two crashes.
SPECIFICATION Spec
CONSTANTS
  None = None
  Clients = {c1, c2}
  Requests <- AllRequests
  Probabilities <- AllProbabilities
  MaxCrashes = 2
  Backlog = 2
SYMMETRY ClientSymmetry
INVARIANTS
  TypeOK
  LockTracked
  AtMostOneSignal
  LateWritesBlocked
  SafetyCoilNeverBlocked
PROPERTIES
  ImplementsWriteLock
