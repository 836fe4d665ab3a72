SPECIFICATION Spec
CONSTANTS
  windowSize = 50
  stepSize = 10
  VLog <- Logarithms
  Script <- SlowPolling
  Flood = 0
INVARIANTS
  ReadsStayBelow
CHECK_DEADLOCK FALSE
