\* Two requests read the split before either writes it.
SPECIFICATION Spec
CONSTANTS
  Versions = {1, 2, 3}
  Shares = {50}
  Operators = {op1, op2}
  Sync = Sync
  Router = Router
  None = None
  Gone = Gone
  Overlap = TRUE
  MaxRequests = 3
  Faults = {}
  MaxFaults = 0
CHECK_DEADLOCK FALSE
SYMMETRY OperatorSymmetry
INVARIANT WholeSplit
