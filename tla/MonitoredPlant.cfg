SPECIFICATION Spec
CONSTANTS
  None = None
  Clients = {c1, c2}
  Commands <- DemoCommands
  MaxSessions = 3
SYMMETRY ClientSymmetry
INVARIANTS
  TypeOK
  WriteViewsAgree
  EvidenceLeft
CHECK_DEADLOCK FALSE
