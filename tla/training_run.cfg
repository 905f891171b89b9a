\* Three attempts at two steps, each request tried twice.
SPECIFICATION FairSpec
CONSTANTS
  Threads = {main}
  Main = main
  MaxAttempts = 3
  MaxSteps = 2
  Retries = 1
  BatchSize = 2
  MaxLogged = 2
  MaxLost = 1
  Name <- NamedByStep
CHECK_DEADLOCK FALSE
INVARIANTS TypeOK OfferFetchable HistoryKept NothingSilentlyLost
PROPERTIES AttemptsEnd
