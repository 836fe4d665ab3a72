\* The demo from its reset of the safety coil on.
SPECIFICATION Spec
CONSTANTS
  windowSize = 50
  stepSize = 10
  VLog <- Logarithms
  Script <- DemoFromReset
  Flood = 4
INVARIANTS
  CalmBeforeFlood
CHECK_DEADLOCK FALSE
