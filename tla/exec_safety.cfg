\* One executor, two jobs, one slot: contention, a retry, one fault.
SPECIFICATION Spec
CONSTANTS
  Jobs = {j1, j2}
  Executors = {e1}
  NoJob = NoJob
  MaxRetries = 1
  Slots = 1
  MaxFaults = 1
SYMMETRY JobSymmetry
CHECK_DEADLOCK FALSE
INVARIANTS TypeOK NoOrphan VerdictOnlyOnFailure WithinSlots IInv
PROPERTIES SettledIsFinal
