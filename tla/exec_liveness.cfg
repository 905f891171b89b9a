\* One fair executor, one job, three attempts, three faults: every attempt keeps the contract, and the job comes to rest.
SPECIFICATION FairSpec
CONSTANTS
  Jobs = {j1}
  Executors = {e1}
  NoJob = NoJob
  MaxRetries = 2
  Slots = 1
  MaxFaults = 3
CHECK_DEADLOCK FALSE
INVARIANTS ResultsObserved NoStaleReporter
PROPERTIES EveryJobSettles CancelCompletes ImplementsContract
