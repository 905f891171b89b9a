---------------------------- MODULE MCScheduler ----------------------------
(* Instances of Scheduler for TLC.  Two nodes can each run one of train     *)
(* and tune, which need a large GPU; eval wants most of a node's CPU.       *)
(* The gates are those of the code, and what a node can hold and a project *)
(* may have is defined on its own, so that TLC checks one against the      *)
(* other (SchedulerAssumption).                                            *)
EXTENDS SchedulerInv, Gates, TLC

CONSTANTS train, tune, eval,   \* jobs
          gpuNode, miniNode,         \* nodes
          JobLimit                   \* job_limit of every project's quota

MCRequest == [j \in Jobs |->
  CASE j = train -> [jobs |-> 1, cpu |-> 1, memory |-> 2, gpu |-> 1, gpuMemory |-> 24]
    [] j = tune  -> [jobs |-> 1, cpu |-> 1, memory |-> 1, gpu |-> 1, gpuMemory |-> 16]
    [] j = eval  -> [jobs |-> 1, cpu |-> 2, memory |-> 0, gpu |-> 0, gpuMemory |-> 0]]

MCMachine == [n \in Nodes |->
  CASE n = gpuNode -> [cpu |-> 3, memory |-> 4, reservedCpu |-> 1, reservedMemory |-> 1,
                       advertised |-> 3, name |-> 1,
                       devices |-> <<[memory |-> 24, health |-> "OK"],
                                     [memory |-> 8, health |-> "UNKNOWN"],
                                     [memory |-> 24, health |-> "FAILED"]>>]
    [] n = miniNode -> [cpu |-> 2, memory |-> 2, reservedCpu |-> 0, reservedMemory |-> 0,
                        advertised |-> 1, name |-> 2,
                        devices |-> <<[memory |-> 24, health |-> "OK"]>>]]

MCProject  == [j \in Jobs |-> IF j = eval THEN "sharing" ELSE "research"]
MCPriority == [j \in Jobs |-> IF j = tune THEN 1 ELSE 2]

MCQuota == [p \in Projects |-> [jobs |-> JobLimit, gpu |-> 0, cpu |-> 3, memory |-> 0]]

ReplicaSymmetry == Permutations(Replicas)
=============================================================================
