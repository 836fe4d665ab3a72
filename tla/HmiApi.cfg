\* One request: one command, two, or the fixed four; two faults, two processes.
SPECIFICATION FairSpec
CONSTANTS
  None = None
  Jobs = {j1}
  Counts = {0, 2}
  Delays = {0, 1}
  DefaultDelay = 2
  Jitter = 1
  GeneratePause = 1
  Latency = 0
  Backlog <- ShortQueues
  PidLimit = 2
  MaxFaults = 2
INVARIANTS
  TypeOK
  InOrderWhenPaced
PROPERTIES
  NoProcessAfterFailure
  DownUntilRestart
  EveryCommandEnds
  RestartHeals
