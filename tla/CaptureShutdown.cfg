\* Two packets in libpcap's ring, three per drain, both loops.
\* The process ends when main has returned.
SPECIFICATION FairSpec
CONSTANTS
  RingSize = 2
  MaxDrain = 3
INVARIANTS
  TypeOK
  WatcherBeforeDestruction
  BrokenOnce
  OnePacketAfterStop
PROPERTY
  SignalStops
CHECK_DEADLOCK FALSE
