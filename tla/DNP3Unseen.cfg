SPECIFICATION Spec
CONSTANTS
  None = None
  Clients = {c1}
  Commands <- DNP3Commands
  MaxSessions = 1
INVARIANTS
  DNP3Exposed
CHECK_DEADLOCK FALSE
