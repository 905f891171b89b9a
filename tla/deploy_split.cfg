\* Two versions behind the router, and then one of them: nothing overlaps and nothing fails.
SPECIFICATION Spec
CONSTANTS
  Versions = {1, 2}
  Shares = {50, 100}
  Operators = {op1}
  Sync = Sync
  Router = Router
  None = None
  Gone = Gone
  Overlap = FALSE
  MaxRequests = 3
  Faults = {}
  MaxFaults = 0
CHECK_DEADLOCK FALSE
PROPERTY LastAnswerKept
