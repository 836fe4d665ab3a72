SPECIFICATION Spec
CONSTANTS
  windowSize = 50
  stepSize = 10
  VLog <- Logarithms
  Script <- DemoInTime
  Flood = 4
INVARIANTS
  TypeOK
  WriteHeavyIsHigh
  RegularReadsClear
  FloodDetected
  CalmBeforeFlood
  WindowsCatchUp
PROPERTIES
  EscalationHasCause
CHECK_DEADLOCK FALSE
