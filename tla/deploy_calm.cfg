\* One deployment, one request or pass at a time, one fault of any kind: what apply and the status loop keep and where they end.
SPECIFICATION FairSpec
CONSTANTS
  Versions = {1, 2}
  Shares = {0, 50}
  Operators = {op1}
  Sync = Sync
  Router = Router
  None = None
  Gone = Gone
  Overlap = FALSE
  MaxRequests = 4
  Faults = {"end", "pods", "load"}
  MaxFaults = 1
CHECK_DEADLOCK FALSE
INVARIANTS TypeOK SecretIsLive WholeSplit NothingOrphaned
PROPERTIES AddressKept Converges
