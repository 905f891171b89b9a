----------------------- MODULE JobExecutorRefinement -----------------------
(***************************************************************************)
(* With one executor, JobExecutor implements JobContract: every step of a  *)
(* user, a Pod or the executor is a step of the contract, or shows the     *)
(* owner of the job nothing.                                               *)
(***************************************************************************)
EXTENDS JobExecutorProofs

(* The refinement mapping, as Contract's INSTANCE gives it *)
PhaseMap == [j \in Jobs |-> PhaseOf(row[j].state)]
TriesMap == [j \in Jobs |-> row[j].attempt]
RunMap   == [j \in Jobs |-> {a \in Attempts : work[<<j, a>>] \in Executing}]
AbsVars  == <<PhaseMap, TriesMap, RunMap>>

AbsNext == [Contract!ContractNext]_(Contract!contractVars)

LEMMA Stutters == AbsVars' = AbsVars => AbsNext
BY DEF AbsNext, AbsVars, PhaseMap, TriesMap, RunMap, Contract!contractVars

(* A step that moves the state of job j only, and starts or ends nothing *)
StateStep(j) ==
  /\ row \in [Jobs -> Row] /\ row' \in [Jobs -> Row]
  /\ j \in Jobs
  /\ \A k \in Jobs \ {j} : row'[k] = row[k]
  /\ work' = work

LEMMA StateStepMaps ==
  ASSUME NEW j, StateStep(j)
  PROVE  /\ PhaseMap' = [PhaseMap EXCEPT ![j] = PhaseOf(row'[j].state)]
         /\ TriesMap' = [TriesMap EXCEPT ![j] = row'[j].attempt]
         /\ RunMap' = RunMap
         /\ PhaseMap[j] = PhaseOf(row[j].state) /\ TriesMap[j] = row[j].attempt
         /\ row'[j].attempt = row[j].attempt => TriesMap' = TriesMap
BY DEF StateStep, PhaseMap, TriesMap, RunMap

(* Nothing of j executes *)
LEMMA IdleMaps ==
  ASSUME NEW j \in Jobs, \A r \in Runs : r[1] = j => work[r] \notin Executing
  PROVE  RunMap[j] = {}
<1>1. \A a \in Attempts : <<j, a>> \in Runs /\ <<j, a>>[1] = j BY DEF Runs
<1> QED BY <1>1 DEF RunMap

(* The steps of the contract, one per edge of the state machine that shows *)
LEMMA Edges ==
  ASSUME NEW j, StateStep(j), NEW s, NEW t, row[j].state = s, row'[j].state = t,
         row'[j].attempt = row[j].attempt,
         \/ s = "NONE" /\ t = "QUEUED"
         \/ s = "QUEUED" /\ t = "SCHEDULING"
         \/ s = "QUEUED" /\ t = "CANCELLED"
         \/ s \in CancelNeedsExecutor /\ t = "CANCELLING"
         \/ s = "SCHEDULING" /\ t = "QUEUED" /\ RunMap[j] = {}
         \/ s = "CANCELLING" /\ t = "CANCELLED" /\ RunMap[j] = {}
         \/ s \in CancelNeedsExecutor /\ t \in {"SUCCEEDED", "FAILED"} /\ RunMap[j] = {}
         \/ s \in CancelNeedsExecutor /\ t \in CancelNeedsExecutor
         \/ s = t
  PROVE  AbsNext
<1>1. /\ PhaseMap[j] = PhaseOf(s) /\ PhaseMap' = [PhaseMap EXCEPT ![j] = PhaseOf(t)]
      /\ RunMap' = RunMap /\ TriesMap' = TriesMap /\ j \in Jobs
  BY StateStepMaps DEF StateStep
<1>2. ASSUME PhaseOf(s) = PhaseOf(t) PROVE AbsNext
  <2>1. PhaseMap' = PhaseMap BY <1>1, <1>2 DEF PhaseMap
  <2> QED BY <1>1, <2>1, Stutters DEF AbsVars
<1>3. CASE s = "NONE" /\ t = "QUEUED"
  <2>1. PhaseMap[j] = "unknown" /\ PhaseMap' = [PhaseMap EXCEPT ![j] = "waiting"]
    BY <1>1, <1>3 DEF PhaseOf, CancelNeedsExecutor
  <2> QED
    BY <1>1, <1>3, <2>1
    DEF AbsNext, Contract!ContractNext, Contract!Accept, Contract!Move, PhaseMap, TriesMap, RunMap
<1>4. CASE s = "QUEUED" /\ t = "SCHEDULING"
  <2>1. PhaseMap[j] = "waiting" /\ PhaseMap' = [PhaseMap EXCEPT ![j] = "claimed"]
    BY <1>1, <1>4 DEF PhaseOf, CancelNeedsExecutor
  <2> QED
    BY <1>1, <1>4, <2>1
    DEF AbsNext, Contract!ContractNext, Contract!Claimed, Contract!Move, PhaseMap, TriesMap, RunMap
<1>5. CASE s = "QUEUED" /\ t = "CANCELLED"
  <2>1. PhaseMap[j] = "waiting" /\ PhaseMap' = [PhaseMap EXCEPT ![j] = "cancelled"]
    BY <1>1, <1>5 DEF PhaseOf, CancelNeedsExecutor
  <2> QED
    BY <1>1, <1>5, <2>1
    DEF AbsNext, Contract!ContractNext, Contract!Withdraw, Contract!Move, PhaseMap, TriesMap, RunMap
<1>6. CASE s \in CancelNeedsExecutor /\ t = "CANCELLING"
  <2>1. PhaseMap[j] = "claimed" /\ PhaseMap' = [PhaseMap EXCEPT ![j] = "stopping"]
    BY <1>1, <1>6 DEF PhaseOf, CancelNeedsExecutor
  <2> QED
    BY <1>1, <1>6, <2>1
    DEF AbsNext, Contract!ContractNext, Contract!AskToStop, Contract!Move, PhaseMap, TriesMap, RunMap
<1>7. CASE s = "SCHEDULING" /\ t = "QUEUED" /\ RunMap[j] = {}
  <2>1. PhaseMap[j] = "claimed" /\ PhaseMap' = [PhaseMap EXCEPT ![j] = "waiting"]
    BY <1>1, <1>7 DEF PhaseOf, CancelNeedsExecutor
  <2> QED
    BY <1>1, <1>7, <2>1
    DEF AbsNext, Contract!ContractNext, Contract!PutBack, Contract!Move, Contract!Idle, PhaseMap, TriesMap, RunMap
<1>8. CASE s = "CANCELLING" /\ t = "CANCELLED" /\ RunMap[j] = {}
  <2>1. PhaseMap[j] = "stopping" /\ PhaseMap' = [PhaseMap EXCEPT ![j] = "cancelled"]
    BY <1>1, <1>8 DEF PhaseOf, CancelNeedsExecutor
  <2> QED
    BY <1>1, <1>8, <2>1
    DEF AbsNext, Contract!ContractNext, Contract!Stopped, Contract!Move, Contract!Idle, PhaseMap, TriesMap, RunMap
<1>9. CASE s \in CancelNeedsExecutor /\ t = "SUCCEEDED" /\ RunMap[j] = {}
  <2>1. PhaseMap[j] = "claimed" /\ PhaseMap' = [PhaseMap EXCEPT ![j] = "succeeded"]
    BY <1>1, <1>9 DEF PhaseOf, CancelNeedsExecutor
  <2> QED
    BY <1>1, <1>9, <2>1
    DEF AbsNext, Contract!ContractNext, Contract!Succeed, Contract!Move, Contract!Idle, PhaseMap, TriesMap, RunMap
<1>10. CASE s \in CancelNeedsExecutor /\ t = "FAILED" /\ RunMap[j] = {}
  <2>1. PhaseMap[j] = "claimed" /\ PhaseMap' = [PhaseMap EXCEPT ![j] = "failed"]
    BY <1>1, <1>10 DEF PhaseOf, CancelNeedsExecutor
  <2> QED
    BY <1>1, <1>10, <2>1
    DEF AbsNext, Contract!ContractNext, Contract!Fail, Contract!Move, Contract!Idle, PhaseMap, TriesMap, RunMap
<1>11. CASE s \in CancelNeedsExecutor /\ t \in CancelNeedsExecutor
  BY <1>2, <1>11 DEF PhaseOf, CancelNeedsExecutor
<1>12. CASE s = t BY <1>2, <1>12
<1> QED BY <1>3, <1>4, <1>5, <1>6, <1>7, <1>8, <1>9, <1>10, <1>11, <1>12

(* A retry spends one attempt of the budget *)
LEMMA RetryEdge ==
  ASSUME NEW j, StateStep(j), row[j].state = "FAILED", row'[j].state = "QUEUED",
         row[j].attempt < MaxRetries, row'[j].attempt = row[j].attempt + 1
  PROVE  AbsNext
<1>1. /\ PhaseMap[j] = "failed" /\ PhaseMap' = [PhaseMap EXCEPT ![j] = "waiting"]
      /\ TriesMap[j] < MaxRetries /\ TriesMap' = [TriesMap EXCEPT ![j] = TriesMap[j] + 1]
      /\ RunMap' = RunMap /\ j \in Jobs
  BY StateStepMaps DEF StateStep, PhaseOf, CancelNeedsExecutor
<1> QED
  BY <1>1 DEF AbsNext, Contract!ContractNext, Contract!Retry, Contract!Move,
              PhaseMap, TriesMap, RunMap

----------------------------------------------------------------------------
(* Workloads: a run starts, ends, or keeps executing *)

LEMMA RunStarts ==
  ASSUME IInv, NEW j \in Jobs, UNCHANGED row,
         row[j].state \in {"SCHEDULING", "CANCELLING"},
         work[<<j, row[j].attempt>>] = "absent",
         work' = [work EXCEPT ![<<j, row[j].attempt>>] = "pending"]
  PROVE  AbsNext
<1>1. row[j].attempt \in Attempts /\ work \in [Runs -> WorkStates]
  BY DEF IInv, TypeOK, Row
<1>2. \A r \in Runs : r[1] = j => work[r] \notin Executing
  <2>1. \A r \in Runs : r[1] = j /\ work[r] \in Executing => r = <<j, row[j].attempt>>
    BY DEF IInv, Core, Backed, Runs
  <2> QED BY <2>1 DEF Executing
<1>3. RunMap[j] = {} BY <1>2, IdleMaps
<1>4. \A k \in Jobs, b \in Attempts :
        work'[<<k, b>>] \in Executing <=>
          work[<<k, b>>] \in Executing \/ (k = j /\ b = row[j].attempt)
  BY <1>1 DEF Runs, Executing
<1>5. \A k \in Jobs : RunMap'[k] = IF k = j THEN {row[j].attempt} ELSE RunMap[k]
  <2>1. ASSUME NEW k \in Jobs \ {j} PROVE RunMap'[k] = RunMap[k]
    BY <1>4, <2>1 DEF RunMap
  <2>2. RunMap'[j] = {row[j].attempt}
    <3>1. \A b \in Attempts : work[<<j, b>>] \notin Executing BY <1>3 DEF RunMap
    <3> QED BY <1>1, <1>4, <3>1 DEF RunMap
  <2> QED BY <2>1, <2>2
<1>6. RunMap' = [RunMap EXCEPT ![j] = {TriesMap[j]}]
  BY <1>5 DEF RunMap, TriesMap
<1>7. PhaseMap[j] \in {"claimed", "stopping"} /\ PhaseMap' = PhaseMap /\ TriesMap' = TriesMap
  BY DEF PhaseMap, TriesMap, PhaseOf, CancelNeedsExecutor
<1> QED
  BY <1>3, <1>6, <1>7
  DEF AbsNext, Contract!ContractNext, Contract!Start, Contract!Idle, PhaseMap, TriesMap, RunMap

LEMMA RunEnds ==
  ASSUME IInv, NEW r \in Runs, UNCHANGED row, NEW w, w \notin Executing,
         work' = [work EXCEPT ![r] = w]
  PROVE  AbsNext
<1> DEFINE j == r[1]
<1>1. /\ j \in Jobs /\ r[2] \in Attempts /\ r = <<j, r[2]>>
      /\ work \in [Runs -> WorkStates]
  BY DEF Runs, IInv, TypeOK
<1>2. \A q \in Runs : work'[q] \in Executing <=> work[q] \in Executing /\ q # r
  BY <1>1
<1>3. PhaseMap' = PhaseMap /\ TriesMap' = TriesMap BY DEF PhaseMap, TriesMap
<1>4. CASE work[r] \notin Executing
  <2>1. RunMap' = RunMap
    BY <1>2, <1>4 DEF RunMap, Runs
  <2> QED BY <1>3, <2>1, Stutters DEF AbsVars
<1>5. CASE work[r] \in Executing
  <2>1. \A q \in Runs : q[1] = j /\ work[q] \in Executing => q = r
    BY <1>1, <1>5 DEF IInv, Core, Backed, Runs
  <2>2. \A b \in Attempts : work'[<<j, b>>] \notin Executing
    BY <1>1, <1>2, <2>1 DEF Runs
  <2>3. \A k \in Jobs \ {j}, b \in Attempts :
          work'[<<k, b>>] \in Executing <=> work[<<k, b>>] \in Executing
    BY <1>1, <1>2 DEF Runs
  <2>4. RunMap' = [RunMap EXCEPT ![j] = {}]
    <3>1. \A k \in Jobs \ {j} : RunMap'[k] = RunMap[k] BY <2>3 DEF RunMap
    <3>2. RunMap'[j] = {} BY <1>1, <2>2 DEF RunMap
    <3> QED BY <3>1, <3>2 DEF RunMap
  <2>5. RunMap[j] # {} BY <1>1, <1>5 DEF RunMap
  <2> QED
    BY <1>1, <1>3, <2>4, <2>5
    DEF AbsNext, Contract!ContractNext, Contract!End, Contract!Idle, PhaseMap, TriesMap, RunMap
<1> QED BY <1>4, <1>5

LEMMA RunGoesOn ==
  ASSUME IInv, NEW r \in Runs, UNCHANGED row, work[r] \in Executing,
         work' = [work EXCEPT ![r] = "running"]
  PROVE  AbsNext
<1>1. \A q \in Runs : work'[q] \in Executing <=> work[q] \in Executing
  BY DEF IInv, TypeOK, Executing
<1>2. RunMap' = RunMap BY <1>1 DEF RunMap, Runs
<1> QED BY <1>2, Stutters DEF AbsVars, PhaseMap, TriesMap

----------------------------------------------------------------------------
(* Every step maps *)

LEMMA ClusterMaps == ASSUME IInv, NEW r \in Runs, PodStep(r) PROVE AbsNext
<1>1. UNCHANGED row
  BY DEF PodStep, PodStarts, PodSucceeds, PodCrashes, PodOOMKilled,
         JobConditionSet, WorkloadLost, PodReaped, WorkMoves
<1>2. CASE PodStarts(r)
  BY <1>1, <1>2, RunGoesOn DEF PodStarts, WorkMoves, Executing
<1>3. CASE \/ PodSucceeds(r) \/ PodCrashes(r) \/ PodOOMKilled(r) \/ JobConditionSet(r)
           \/ WorkloadLost(r)
  <2>1. PICK w \in {"succeeded", "crashed", "killed", "condemned", "absent"} :
          work' = [work EXCEPT ![r] = w]
    BY <1>3 DEF PodSucceeds, PodCrashes, PodOOMKilled, JobConditionSet, WorkloadLost,
                WorkMoves, DeletedWork
  <2>2. w \notin Executing BY DEF Executing
  <2> QED BY <1>1, <2>1, <2>2, RunEnds
<1>4. CASE PodReaped(r)
  BY <1>4, Stutters DEF PodReaped, AbsVars, PhaseMap, TriesMap, RunMap
<1> QED BY <1>2, <1>3, <1>4 DEF PodStep

LEMMA ExecutorMaps ==
  ASSUME IInv, TypeOK', NEW e \in Executors, PassStep(e) \/ JobStep(e) PROVE AbsNext
<1> DEFINE c == cur[e]
<1>0. /\ row \in [Jobs -> Row] /\ row' \in [Jobs -> Row]
      /\ Holds(e) /\ Lists(e) /\ Backed /\ RowsCoherent /\ TypeOK
  BY DEF IInv, Core, TypeOK
<1>1. CASE UNCHANGED <<row, work>>
  BY <1>1, Stutters DEF AbsVars, PhaseMap, TriesMap, RunMap
<1>2. ASSUME NEW j \in Jobs, ConsiderRetry(e, j) PROVE AbsNext
  <2>1. row[j].state = "FAILED" /\ row[j] \in Row
    BY <1>0, <1>2 DEF ConsiderRetry, Lists
  <2>2. StateStep(j) BY <1>0, <1>2 DEF ConsiderRetry, StateStep, cluster
  <2>3. \/ row'[j].state = "FAILED" /\ row'[j].attempt = row[j].attempt
        \/ /\ row'[j].state = "QUEUED" /\ row'[j].attempt = row[j].attempt + 1
           /\ Verdict(row[j]) = "RETRY"
    BY <1>0, <1>2, <2>1 DEF ConsiderRetry, NextAttempt, NoRow, Row
  <2>4. Verdict(row[j]) = "RETRY" => row[j].attempt < MaxRetries
    BY <2>1, ExecutorAssumption DEF Verdict, Row, Attempts
  <2>5. CASE row'[j].state = "FAILED" /\ row'[j].attempt = row[j].attempt
    BY <2>1, <2>2, <2>5, Edges
  <2> QED BY <2>1, <2>2, <2>3, <2>4, <2>5, RetryEdge
<1>3. ASSUME NEW j \in Jobs, ClaimNextJob(e, j) PROVE AbsNext
  <2>1. StateStep(j) BY <1>0, <1>3 DEF ClaimNextJob, StateStep, cluster
  <2>2. /\ row[j].state = "QUEUED" /\ row'[j].state = "SCHEDULING"
        /\ row'[j].attempt = row[j].attempt
    BY <1>0, <1>3 DEF ClaimNextJob, Claimable, Row
  <2> QED BY <2>1, <2>2, Edges
<1>4. CASE BindJob(e) \/ RequeueJob(e) \/ MarkLaunched(e)
  <2>1. /\ c \in Jobs /\ row[c].state \in {"SCHEDULING", "CANCELLING"}
        /\ pc[e] = "schedule" => row[c].bound = FALSE
    BY <1>0, <1>4 DEF BindJob, RequeueJob, MarkLaunched, At, Holds, Launching
  <2>2. StateStep(c)
    BY <1>0, <1>4, <2>1 DEF BindJob, RequeueJob, MarkLaunched, StateStep, cluster
  <2>3. /\ row'[c].attempt = row[c].attempt
        /\ \/ row'[c].state = row[c].state
           \/ RequeueJob(e) /\ row[c].state = "SCHEDULING" /\ row'[c].state = "QUEUED"
           \/ row[c].state = "SCHEDULING" /\ row'[c].state = "STARTING"
    BY <1>0, <1>4, <2>1 DEF BindJob, RequeueJob, MarkLaunched, Row
  <2>4. RequeueJob(e) => RunMap[c] = {}
    <3>1. RequeueJob(e) => \A r \in Runs : r[1] = c => work[r] \notin Executing
      BY <1>0, <2>1 DEF RequeueJob, At, Backed
    <3> QED BY <2>1, <3>1, IdleMaps
  <2> HIDE DEF c
  <2> QED BY <2>1, <2>2, <2>3, <2>4, Edges DEF CancelNeedsExecutor
<1>5. CASE CreateWorkload(e)
  <2>1. /\ c \in Jobs /\ row[c].state \in {"SCHEDULING", "CANCELLING"}
        /\ snap[e].attempt = row[c].attempt
    BY <1>0, <1>5 DEF CreateWorkload, At, Holds, Launching
  <2>2. UNCHANGED row BY <1>5 DEF CreateWorkload
  <2>3. \/ work' = work
        \/ /\ work[<<c, row[c].attempt>>] = "absent"
           /\ work' = [work EXCEPT ![<<c, row[c].attempt>>] = "pending"]
    BY <1>5, <2>1 DEF CreateWorkload
  <2> QED BY <1>1, <2>1, <2>2, <2>3, RunStarts
<1>6. CASE DeleteWorkload(e)
  <2>1. <<c, NameOf(snap[e])>> \in Runs /\ UNCHANGED row
    BY <1>0, <1>6, NamesTheAttempt DEF DeleteWorkload, At, Holds, Stopping
  <2>2. work' = [work EXCEPT ![<<c, NameOf(snap[e])>>] = "absent"]
    BY <1>6 DEF DeleteWorkload, DeletedWork
  <2>3. "absent" \notin Executing BY DEF Executing
  <2> QED BY <2>1, <2>2, <2>3, RunEnds
<1>7. CASE FinishCancellation(e)
  <2>1. c \in Jobs /\ Idle(c) /\ row[c].state = "CANCELLING"
    BY <1>0, <1>7 DEF FinishCancellation, At, Holds, Stopping
  <2>2. StateStep(c) BY <1>0, <1>7, <2>1 DEF FinishCancellation, StateStep, cluster
  <2>3. row'[c].state = "CANCELLED" /\ row'[c].attempt = row[c].attempt
    BY <1>0, <1>7, <2>1 DEF FinishCancellation, Row
  <2>4. RunMap[c] = {} BY <2>1, IdleMaps DEF Idle
  <2> QED BY <2>1, <2>2, <2>3, <2>4, Edges
<1>8. CASE RecordObservation(e)
  <2> DEFINE after == AfterObservation(row[c].state, seen[e])
  <2>1. /\ c \in Jobs /\ (seen[e] \notin Executing => Idle(c))
        /\ row[c].state \in {"STARTING", "RUNNING", "CANCELLING"}
    BY <1>0, <1>8 DEF RecordObservation, At, Holds, Watching
  <2>2. StateStep(c) BY <1>0, <1>8, <2>1 DEF RecordObservation, StateStep, cluster
  <2>3. row'[c].state = after /\ row'[c].attempt = row[c].attempt
    BY <1>0, <1>8, <2>1 DEF RecordObservation, Row
  <2>4. ASSUME row[c].state \in {"STARTING", "RUNNING"}
        PROVE  /\ after \in {row[c].state, "RUNNING", "SUCCEEDED", "FAILED"}
               /\ after \in {"SUCCEEDED", "FAILED"} => seen[e] \notin Executing
    BY <2>4 DEF AfterObservation, Outcomes, Failures, Executing
  <2>5. row[c].state = "CANCELLING" => after = row[c].state
    BY DEF AfterObservation, CanTransition, NextStates, JobStates, Failures
  <2>6. seen[e] \notin Executing => RunMap[c] = {} BY <2>1, IdleMaps DEF Idle
  <2> HIDE DEF after, c
  <2> QED
    BY <2>1, <2>2, <2>3, <2>4, <2>5, <2>6, Edges DEF CancelNeedsExecutor
<1> QED
  BY <1>1, <1>2, <1>3, <1>4, <1>5, <1>6, <1>7, <1>8
  DEF PassStep, JobStep, ListJobsToReconcile, ListRows, ReconcileJob, ListRetryDecisions,
      StartClaiming, EndPass, RereadJob, IssueRunToken, ObserveJob, ExpireRunTokens, cluster

LEMMA UserMaps ==
  ASSUME IInv, TypeOK', NEW j \in Jobs, SubmitJob(j) \/ CancelJob(j) PROVE AbsNext
<1>0. row \in [Jobs -> Row] /\ row' \in [Jobs -> Row] BY DEF IInv, TypeOK
<1>1. StateStep(j) BY <1>0 DEF SubmitJob, CancelJob, StateStep, cluster
<1>2. /\ row'[j].attempt = row[j].attempt
      /\ \/ row[j].state = "NONE" /\ row'[j].state = "QUEUED"
         \/ row[j].state = "QUEUED" /\ row'[j].state = "CANCELLED"
         \/ row[j].state \in CancelNeedsExecutor /\ row'[j].state = "CANCELLING"
  BY <1>0 DEF SubmitJob, CancelJob, CancelNeedsExecutor, Row
<1> QED BY <1>1, <1>2, Edges

(* With one executor, an owner of a job can see nothing the contract does  *)
(* not allow: one workload at a time, for the current attempt, while the   *)
(* job is claimed or stopping.                                             *)
THEOREM Refines == SoleExecutor => (Spec => ImplementsContract)
<1>1. Init => Contract!ContractInit
  <2> SUFFICES ASSUME Init PROVE Contract!ContractInit
    OBVIOUS
  <2>1. \A j \in Jobs : row[j] = NoRow BY DEF Init
  <2>2. \A j \in Jobs : PhaseOf(row[j].state) = "unknown" /\ row[j].attempt = 0
    BY <2>1 DEF NoRow, PhaseOf, CancelNeedsExecutor
  <2>3. \A j \in Jobs, a \in Attempts : work[<<j, a>>] \notin Executing
    BY DEF Init, Runs, Executing
  <2> QED BY <2>2, <2>3 DEF Contract!ContractInit
<1>2. IInv /\ TypeOK' /\ [Next]_vars => AbsNext
  <2> SUFFICES ASSUME IInv, TypeOK', [Next]_vars PROVE AbsNext
    OBVIOUS
  <2>1. CASE UNCHANGED <<row, work>>
    BY <2>1, Stutters DEF AbsVars, PhaseMap, TriesMap, RunMap
  <2> QED
    BY <2>1, UserMaps, ClusterMaps, ExecutorMaps
    DEF Next, vars, GraceEnds, CallFails, Crash, RulingFails, FaultStep, cluster
<1>3. IInv => TypeOK BY DEF IInv
<1> QED
  BY <1>1, <1>2, <1>3, Inductive, PTL
  DEF Spec, ImplementsContract, Contract!ContractSpec, AbsNext
=============================================================================
