\* One replica restarts between createJob and markLaunched.
SPECIFICATION Spec
CONSTANTS
  Jobs = {j1}
  Executors = {e1}
  NoJob = NoJob
  MaxRetries = 1
  Slots = 1
  MaxFaults = 1
CHECK_DEADLOCK FALSE
INVARIANT RunHoldsCredential
