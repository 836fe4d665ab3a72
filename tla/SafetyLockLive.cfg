\* Two clients that write or release, one crash, no symmetry.
SPECIFICATION FairSpec
CONSTANTS
  None = None
  Clients = {c1, c2}
  Requests <- LockRequests
  Probabilities <- TwoProbabilities
  MaxCrashes = 1
  Backlog = 2
PROPERTIES
  SignalTakesEffect
  EscalationEngages
  ClientsServed
