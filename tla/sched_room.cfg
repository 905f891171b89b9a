\* Two replicas schedule two jobs that do not share the one node there is.
SPECIFICATION Spec
CONSTANTS
  train = train tune = tune eval = eval
  gpuNode = gpuNode miniNode = miniNode
  Jobs = {train, tune}
  Nodes = {miniNode}
  Replicas = {r1, r2}
  None = None
  MaxFaults = 1
  JobLimit = 0
  Project <- MCProject
  Priority <- MCPriority
  Request <- MCRequest
  Machine <- MCMachine
  Quota <- MCQuota
  Affords <- WithinQuota
  Place <- BestNode
  Budget <- Allowance
  Room <- Capacity
SYMMETRY ReplicaSymmetry
CHECK_DEADLOCK FALSE
INVARIANTS TypeOK GatedWithinRoom
