\* One replica, three jobs on two nodes: two share a quota of one job, the third contends with them for room.
SPECIFICATION FairSpec
CONSTANTS
  train = train tune = tune eval = eval
  gpuNode = gpuNode miniNode = miniNode
  Jobs = {train, tune, eval}
  Nodes = {gpuNode, miniNode}
  Replicas = {r1}
  None = None
  MaxFaults = 1
  JobLimit = 1
  Project <- MCProject
  Priority <- MCPriority
  Request <- MCRequest
  Machine <- MCMachine
  Quota <- MCQuota
  Affords <- WithinQuota
  Place <- BestNode
  Budget <- Allowance
  Room <- Capacity
CHECK_DEADLOCK FALSE
INVARIANTS GatedWithinQuota NoOvercommit PodWhereBound PodsWithinRoom
PROPERTIES PlaceableJobLeaves
