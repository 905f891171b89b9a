----------------------------- MODULE Placement -----------------------------
(***************************************************************************)
(* The two gates of the scheduler, domain/quota.js and                     *)
(* domain/placement.js: whether a project may have one more job, which     *)
(* nodes could take it, and which of them is the best fit.                 *)
(*                                                                         *)
(* A node is a record [cpu, memory, reservedCpu, reservedMemory,           *)
(* advertised, devices, name]; devices is a sequence of [memory, health]   *)
(* and name a number, for its place in the alphabet.  A request is a       *)
(* record [jobs, cpu, memory, gpu, gpuMemory] with jobs = 1.               *)
(***************************************************************************)
EXTENDS Integers, Sequences, FiniteSetsExt

(* A limit of zero is no limit, and asking for nothing is never refused.   *)
CheckQuota(request, quota, usage) ==
  \A d \in DOMAIN quota :
    quota[d] = 0 \/ request[d] = 0 \/ usage[d] + request[d] <= quota[d]

(* clusterView and projectUsage: what a set of jobs adds up to             *)
Total(request, S, d) == MapThenSumSet(LAMBDA j : request[j][d], S)

HealthyGpus(node) ==
  {i \in DOMAIN node.devices : node.devices[i].health \in {"OK", "UNKNOWN"}}

(* The lesser of what Kubernetes grants and what is healthy; a node whose  *)
(* devices nobody has discovered is taken at its word.                     *)
SchedulableGpus(node) ==
  IF node.devices = <<>> THEN node.advertised
  ELSE Min({node.advertised, Cardinality(HealthyGpus(node))})

FreeCapacity(node, allocated) ==
  [cpu    |-> node.cpu - node.reservedCpu - allocated.cpu,
   memory |-> node.memory - node.reservedMemory - allocated.memory,
   gpu    |-> SchedulableGpus(node) - allocated.gpu]

BigEnough(node, request) ==
  {i \in HealthyGpus(node) : node.devices[i].memory >= request.gpuMemory}

(* evaluateNode.  Which device a Pod gets is Kubernetes' choice, so the    *)
(* largest are taken to be the busy ones.  That nothing is advertised, or  *)
(* nothing healthy, is reported under a code of its own and is otherwise a *)
(* case of too few being free.                                             *)
EvaluateNode(node, ready, allocated, request) ==
  LET free == FreeCapacity(node, allocated) IN
  /\ ready
  /\ request.gpu > 0 => free.gpu >= request.gpu
  /\ request.gpu > 0 /\ request.gpuMemory > 0 =>
       Cardinality(BigEnough(node, request)) - allocated.gpu >= request.gpu
  /\ free.cpu >= request.cpu
  /\ request.memory > 0 => free.memory >= request.memory

(* rank: pack GPU jobs, keep other jobs off GPU nodes, then the tighter    *)
(* fit on CPU, then the name.                                              *)
RankKey(node, allocated, request) ==
  <<IF request.gpu > 0 THEN FreeCapacity(node, allocated).gpu ELSE SchedulableGpus(node),
    FreeCapacity(node, allocated).cpu,
    node.name>>

Precedes(k, l) ==
  \E i \in DOMAIN k : k[i] < l[i] /\ \A h \in 1 .. i - 1 : k[h] = l[h]

(* placeJob, over functions from node to its record, readiness and         *)
(* allocation; none is the answer when nothing fits.                       *)
PlaceJob(node, ready, allocated, request, none) ==
  LET fitting == {n \in DOMAIN node :
                    EvaluateNode(node[n], n \in ready, allocated[n], request)}
      Key(n) == RankKey(node[n], allocated[n], request)
  IN IF fitting = {} THEN none
     ELSE CHOOSE n \in fitting : \A m \in fitting \ {n} : Precedes(Key(n), Key(m))
=============================================================================
