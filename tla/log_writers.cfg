\* A configuration of two logs, one call of log by each thread.
CONSTANTS
  m = m
  a = a
  b = b
  Threads <- MCThreads
  Main <- MCMain
  Configurations <- MCConfigurations
  Startup <- MCStartup
  Messages <- MCMessages
  MaxCalls = 1
  MaxSecond = 1
SPECIFICATION Spec
INVARIANT EveryLogIsWritten
CHECK_DEADLOCK FALSE
