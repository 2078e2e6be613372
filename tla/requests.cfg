\* Two threads, two requests of any kind, one or two calls that fail.
CONSTANTS
  a = a
  b = b
  Threads = {a, b}
  Asked <- MCAsked
  Refusals = {400, 404}
  ChunkSize = 2
  MaxRequests = 2
  MaxFailures = 2
SPECIFICATION Spec
INVARIANTS
  OwnContext
  AnsweredAsDone
  OnlyWithToken
  AccessIsLogged
  ErrorsAreLogged
PROPERTY EveryRequestAnswered
CHECK_DEADLOCK FALSE
