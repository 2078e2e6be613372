\* Three threads, one call each (the main thread one more): two seconds.
CONSTANTS
  m = m
  a = a
  b = b
  Threads <- MCThreads
  Main <- MCMain
  Configurations <- MCConfigurations
  Startup <- MCStartup
  Messages <- MCMessages
  MaxCalls = 1
  MaxSecond = 1
SPECIFICATION Spec
INVARIANTS
  TypeOK
  WriterComesBack
  ReturnedIsKept
  OnlyAskedForIsLogged
PROPERTY WritingResumes
CHECK_DEADLOCK FALSE
