\* Five records over 7 seconds: up to three windows, idle gaps, records on both
\* ends of a window, two records in one instant and records out of order.
\* The behaviour ends when MaxRecords records are accepted and none is older.
SPECIFICATION Spec
CONSTANTS
  windowSize = 10
  stepSize = 2
  MaxTime = 14
  MaxRecords = 5
  Timestamps <- MCTimestamps
  Arrivals <- MCArrivals
INVARIANTS
  TypeOK
  BufferHoldsWhatIsNeeded
  WindowIsComplete
  NoRecordSkipped
PROPERTY
  ImplementsSlidingWindow
CHECK_DEADLOCK FALSE
