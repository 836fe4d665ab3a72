SPECIFICATION Spec
CONSTANTS
  windowSize = 50
  stepSize = 10
  VLog <- Logarithms
  Script <- DemoWithPause
  Flood = 4
INVARIANTS
  FloodDetected
CHECK_DEADLOCK FALSE
