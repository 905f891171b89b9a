---------------------------- MODULE JobExecutor ----------------------------
(***************************************************************************)
(* Training jobs from submission to outcome: the job rows, the executor    *)
(* loops that drive them (services/executor.js over services/jobs.js), the *)
(* run tokens they mint, and the Kubernetes Jobs they create, observe and  *)
(* delete.                                                                 *)
(*                                                                         *)
(* A database transaction is one step: every writer of a row locks it FOR  *)
(* UPDATE first and re-reads it.  Everything between two transactions is   *)
(* not: an executor acts on a snapshot of the row it read earlier, and     *)
(* cluster calls, other replicas, users and crashes come in between.       *)
(*                                                                         *)
(* One GPU-sized slot stands for the capacity a job asks for; which node   *)
(* and which quota is Scheduler.tla's subject.                             *)
(***************************************************************************)
EXTENDS JobState, Integers, FiniteSets

CONSTANTS Jobs,        \* the jobs users may submit
          Executors,   \* control-plane replicas running the executor loop
          NoJob,       \* an executor that holds no job
          MaxRetries,  \* max_retries of every job
          Slots,       \* how many placed jobs the cluster can hold
          MaxFaults    \* bound on crashes, failed calls, lost workloads

ASSUME ExecutorAssumption ==
  /\ NoJob \notin Jobs /\ IsFiniteSet(Jobs)
  /\ MaxRetries \in Nat /\ Slots \in Nat /\ MaxFaults \in Nat

VARIABLES
  row,        \* training_jobs: what the database says of each job
  work,       \* the Kubernetes Job of each attempt, as the API server has it
  lingering,  \* attempts whose Job is deleted and whose Pod is still ending
  completed,  \* attempts whose container really ran to success
  valid,      \* attempts whose Pod holds a token the server still accepts
  ending,     \* jobs whose live token is in its grace period
  phase,      \* where each executor is in its pass
  pc,         \* where it is in the job it is handling
  cur,        \* that job
  snap,       \* the copy of the row it is acting on
  listed,     \* rows listed for reconciliation and not yet handled
  fails,      \* jobs listed for a retry decision and not yet handled
  refused,    \* jobs this pass has claimed without launching
  seen,       \* what the cluster answered
  fresh,      \* executors whose just-minted token is still live
  faults      \* faults so far, for MaxFaults

cluster  == <<work, lingering, completed>>
tokens   == <<valid, ending, fresh>>
control  == <<phase, pc, cur, snap, listed, fails, refused, seen>>
vars     == <<row, work, lingering, completed, valid, ending, phase, pc, cur,
              snap, listed, fails, refused, seen, fresh, faults>>

----------------------------------------------------------------------------
(* Rows, attempts and the answers of the cluster *)

Attempts == 0 .. MaxRetries
Runs     == Jobs \X Attempts
NoName   == -1       \* k8s_job_name = ''; a recorded name is its attempt

(* "killed" is an OOM-killed Pod whose Job has no Failed condition yet;     *)
(* "condemned" is the same Job once it has one, which hides the Pod's      *)
(* reason; "crashed" is any other failed Pod.                              *)
WorkStates == {"absent", "pending", "running", "succeeded",
               "crashed", "killed", "condemned"}
Executing  == {"pending", "running"}
Failures   == {"missing", "crashed", "killed"}
Decisions  == {"none", "NOT_APPLICABLE", "PERMANENT", "EXHAUSTED"}

Row == [state    : JobStates \cup {"NONE"},
        attempt  : Attempts,
        bound    : BOOLEAN,                    \* scheduled_node_id IS NOT NULL
        name     : Attempts \cup {NoName},
        failure  : Failures \cup {"none"},     \* failure_reason, as a category
        decision : Decisions]                  \* retry_decision

NoRow == [state |-> "NONE", attempt |-> 0, bound |-> FALSE, name |-> NoName,
          failure |-> "none", decision |-> "none"]

(* Mutant: a Job that is gone is taken for one that finished *)
VanishedIsSuccess(w) == IF w = "absent" THEN "succeeded" ELSE w

(* observationFromJobStatus: a Failed condition wins over the Pod's reason *)
Observation(w) ==
  CASE w = "absent"    -> "missing"
    [] w = "condemned" -> "crashed"
    [] OTHER           -> w

(* Applying an observation to a row in state st (recordObservation and      *)
(* markWorkloadMissing).  An illegal edge throws and the row stays put.     *)
AfterObservation(st, obs) ==
  CASE st = "CANCELLING" \/ st \in Outcomes -> st
    [] obs = "running" /\ CanTransition(st, "RUNNING") -> "RUNNING"
    [] obs = "succeeded" /\ st \in {"STARTING", "RUNNING"} -> "SUCCEEDED"
    [] obs \in Failures /\ CanTransition(st, "FAILED") -> "FAILED"
    [] OTHER -> st

(* Mutant: the budget check is off by one *)
VerdictOffByOne(r) ==
  CASE r.state # "FAILED"       -> "NOT_APPLICABLE"
    [] r.failure = "killed"     -> "PERMANENT"
    [] r.attempt > MaxRetries   -> "EXHAUSTED"
    [] OTHER                    -> "RETRY"

(* decideRetry: the category is judged before the budget *)
Verdict(r) ==
  CASE r.state # "FAILED"       -> "NOT_APPLICABLE"
    [] r.failure = "killed"     -> "PERMANENT"
    [] r.attempt >= MaxRetries  -> "EXHAUSTED"
    [] OTHER                    -> "RETRY"

(* Mutant: a granted retry is marked as decided, too *)
NextAttemptDecided(r) ==
  [NoRow EXCEPT !.state = "QUEUED", !.attempt = r.attempt + 1, !.decision = "RETRY"]

(* prepareRetry between the two edges FAILED -> RETRYING -> QUEUED *)
NextAttempt(r) ==
  [NoRow EXCEPT !.state = "QUEUED", !.attempt = r.attempt + 1]

(* Mutant: a cancelled job's capacity is given away at once *)
AllocatedUntilCancelled == {j \in Jobs : row[j].bound /\ row[j].state \in CancelNeedsExecutor}

(* The placement gate, one slot a job: what clusterView says is allocated. *)
Allocated == {j \in Jobs : row[j].bound /\ row[j].state \in OccupyingStates}
Fits      == Cardinality(Allocated) < Slots

(* Which Kubernetes Job a snapshot names: recorded, or derived from the row *)
NameOf(r) == IF r.name = NoName THEN r.attempt ELSE r.name
----------------------------------------------------------------------------
Init ==
  /\ row = [j \in Jobs |-> NoRow]
  /\ work = [r \in Runs |-> "absent"]
  /\ lingering = {} /\ completed = {}
  /\ valid = {} /\ ending = {} /\ fresh = {}
  /\ phase = [e \in Executors |-> "idle"]
  /\ pc = [e \in Executors |-> "next"]
  /\ cur = [e \in Executors |-> NoJob]
  /\ snap = [e \in Executors |-> NoRow]
  /\ listed = [e \in Executors |-> [j \in {} |-> NoRow]]
  /\ fails = [e \in Executors |-> {}]
  /\ refused = [e \in Executors |-> {}]
  /\ seen = [e \in Executors |-> "none"]
  /\ faults = 0
----------------------------------------------------------------------------
(* Users *)

(* submitJob inserts the row and walks CREATED -> QUEUED in one transaction *)
SubmitJob(j) ==
  /\ row[j].state = "NONE"
  /\ row' = [row EXCEPT ![j].state = "QUEUED"]
  /\ UNCHANGED <<cluster, tokens, control, faults>>

(* Mutant: a claimed job is taken for one without a workload *)
CancelAtOnce(j) ==
  /\ row[j].state \in CancelNeedsExecutor \cup {"QUEUED"}
  /\ row' = [row EXCEPT ![j].state =
                IF @ \in {"QUEUED", "SCHEDULING"} THEN "CANCELLED" ELSE "CANCELLING"]
  /\ UNCHANGED <<cluster, tokens, control, faults>>

(* Mutant: the edge to CANCELLING is not checked *)
CancelAnyJob(j) ==
  /\ row[j].state # "NONE"
  /\ row' = [row EXCEPT ![j].state =
                IF @ = "QUEUED" THEN "CANCELLED" ELSE "CANCELLING"]
  /\ UNCHANGED <<cluster, tokens, control, faults>>

(* cancelJob; a FAILED job has no edge to CANCELLING and a settled one is   *)
(* refused, so neither changes anything.                                   *)
CancelJob(j) ==
  /\ row[j].state \in CancelNeedsExecutor \cup {"QUEUED"}
  /\ row' = [row EXCEPT ![j].state =
                IF @ = "QUEUED" THEN "CANCELLED" ELSE "CANCELLING"]
  /\ UNCHANGED <<cluster, tokens, control, faults>>

----------------------------------------------------------------------------
(* The cluster *)

WorkMoves(r, from, to) ==
  /\ work[r] \in from
  /\ work' = [work EXCEPT ![r] = to]
  /\ UNCHANGED <<row, lingering, tokens, control, faults>>

PodStarts(r)   == WorkMoves(r, {"pending"}, "running") /\ UNCHANGED completed
PodSucceeds(r) == WorkMoves(r, {"running"}, "succeeded")
                  /\ completed' = completed \cup {r}
PodCrashes(r)  == WorkMoves(r, Executing, "crashed") /\ UNCHANGED completed
PodOOMKilled(r) == WorkMoves(r, {"running"}, "killed") /\ UNCHANGED completed

(* The Job controller writes the Failed condition after counting the Pod *)
JobConditionSet(r) == WorkMoves(r, {"killed"}, "condemned") /\ UNCHANGED completed

(* Deleting a Job returns before the garbage collector has taken its Pod *)
DeletedWork(r) ==
  /\ work' = [work EXCEPT ![r] = "absent"]
  /\ lingering' = IF work[r] \in Executing THEN lingering \cup {r} ELSE lingering
  /\ UNCHANGED completed

(* An operator deletes the Job by hand, or its node is lost *)
WorkloadLost(r) ==
  /\ faults < MaxFaults /\ faults' = faults + 1
  /\ work[r] # "absent"
  /\ DeletedWork(r)
  /\ UNCHANGED <<row, tokens, control>>

PodReaped(r) ==
  /\ r \in lingering
  /\ lingering' = lingering \ {r}
  /\ valid' = IF work[r] = "absent" THEN valid \ {r} ELSE valid
  /\ UNCHANGED <<row, work, completed, ending, fresh, control, faults>>

(* Nobody's token for j is accepted any more *)
NoLiveToken(j) ==
  /\ valid' = {r \in valid : r[1] # j}
  /\ ending' = ending \ {j}

(* The grace period set by expireRunTokens runs out *)
GraceEnds(j) ==
  /\ j \in ending
  /\ NoLiveToken(j)
  /\ fresh' = {e \in fresh : cur[e] # j}
  /\ UNCHANGED <<row, cluster, control, faults>>

----------------------------------------------------------------------------
(* One executor pass: reconcile what was listed, rule on failures, launch  *)

At(e, label) == pc[e] = label
Goto(e, label) == pc' = [pc EXCEPT ![e] = label]
Idling(e, p) == phase[e] = p /\ pc[e] = "next"

Holding == <<phase, listed, fails>>

(* Done with the current job, whatever came of it *)
Leave(e) ==
  /\ cur' = [cur EXCEPT ![e] = NoJob]
  /\ snap' = [snap EXCEPT ![e] = NoRow]
  /\ seen' = [seen EXCEPT ![e] = "none"]
  /\ UNCHANGED Holding

Done(e) == Goto(e, "next") /\ Leave(e) /\ UNCHANGED refused

(* The claim loop walks past a job it could not launch *)
GiveUp(e) ==
  /\ Goto(e, "next") /\ Leave(e)
  /\ refused' = IF phase[e] = "claim"
                THEN [refused EXCEPT ![e] = @ \cup {cur[e]}] ELSE refused

ListRows(e, states) ==
  /\ Idling(e, "idle")
  /\ phase' = [phase EXCEPT ![e] = "reconcile"]
  /\ listed' = [listed EXCEPT ![e] =
                  [j \in {k \in Jobs : row[k].state \in states} |-> row[j]]]
  /\ UNCHANGED <<row, cluster, tokens, pc, cur, snap, fails, refused, seen, faults>>

(* Mutants: a state the executor owns is left out of the query *)
ListLaunchedOnly(e)      == ListRows(e, OccupyingStates \ {"SCHEDULING"})
ListWithoutCancelling(e) == ListRows(e, CancelNeedsExecutor)

(* runOnce lists the active jobs, rows and all, before handling any *)
ListJobsToReconcile(e) == ListRows(e, OccupyingStates)

(* placeAndLaunch schedules a job that has no node yet, and launches *)
PlacedOrNot(r) == IF r.bound THEN "mint" ELSE "schedule"

(* reconcileJob decides on the listed copy, not on the row *)
ReconcileJob(e, j) ==
  /\ Idling(e, "reconcile") /\ j \in DOMAIN listed[e]
  /\ cur' = [cur EXCEPT ![e] = j]
  /\ snap' = [snap EXCEPT ![e] = listed[e][j]]
  /\ listed' = [listed EXCEPT ![e] = [k \in DOMAIN @ \ {j} |-> @[k]]]
  /\ Goto(e, CASE listed[e][j].state = "CANCELLING" -> "delete"
               [] listed[e][j].state = "SCHEDULING" -> PlacedOrNot(listed[e][j])
               [] OTHER -> "observe")
  /\ UNCHANGED <<row, cluster, tokens, phase, fails, refused, seen, faults>>

(* Mutant: the query asks for undecided jobs, failed or not *)
ListAllUndecided(e) ==
  /\ Idling(e, "reconcile") /\ DOMAIN listed[e] = {}
  /\ phase' = [phase EXCEPT ![e] = "retry"]
  /\ fails' = [fails EXCEPT ![e] = {j \in Jobs : row[j].decision = "none"}]
  /\ UNCHANGED <<row, cluster, tokens, pc, cur, snap, listed, refused, seen, faults>>

(* listJobsAwaitingRetryDecision, by id: considerRetry re-reads each row *)
ListRetryDecisions(e) ==
  /\ Idling(e, "reconcile") /\ DOMAIN listed[e] = {}
  /\ phase' = [phase EXCEPT ![e] = "retry"]
  /\ fails' = [fails EXCEPT ![e] =
                 {j \in Jobs : row[j].state = "FAILED" /\ row[j].decision = "none"}]
  /\ UNCHANGED <<row, cluster, tokens, pc, cur, snap, listed, refused, seen, faults>>

(* considerRetry, one transaction; every verdict but RETRY is recorded *)
ConsiderRetry(e, j) ==
  /\ Idling(e, "retry") /\ j \in fails[e]
  /\ fails' = [fails EXCEPT ![e] = @ \ {j}]
  /\ row' = CASE row[j].decision # "none" -> row
              [] row[j].decision = "none" /\ Verdict(row[j]) = "RETRY" ->
                   [row EXCEPT ![j] = NextAttempt(@)]
              [] OTHER -> [row EXCEPT ![j].decision = Verdict(row[j])]
  /\ UNCHANGED <<cluster, tokens, phase, pc, cur, snap, listed, refused, seen, faults>>

StartClaiming(e) ==
  /\ Idling(e, "retry") /\ fails[e] = {}
  /\ phase' = [phase EXCEPT ![e] = "claim"]
  /\ refused' = [refused EXCEPT ![e] = {}]
  /\ UNCHANGED <<row, cluster, tokens, pc, cur, snap, listed, fails, seen, faults>>

Claimable(e) == {j \in Jobs \ refused[e] : row[j].state = "QUEUED"}

(* claimNextJob; its order among queued jobs is left open here *)
ClaimNextJob(e, j) ==
  /\ Idling(e, "claim") /\ j \in Claimable(e)
  /\ row' = [row EXCEPT ![j].state = "SCHEDULING"]
  /\ cur' = [cur EXCEPT ![e] = j]
  /\ snap' = [snap EXCEPT ![e] = [row[j] EXCEPT !.state = "SCHEDULING"]]
  /\ Goto(e, PlacedOrNot(row[j]))
  /\ UNCHANGED <<cluster, tokens, Holding, refused, seen, faults>>

EndPass(e) ==
  /\ Idling(e, "claim") /\ Claimable(e) = {}
  /\ phase' = [phase EXCEPT ![e] = "idle"]
  /\ refused' = [refused EXCEPT ![e] = {}]
  /\ UNCHANGED <<row, cluster, tokens, pc, cur, snap, listed, fails, seen, faults>>
----------------------------------------------------------------------------
(* Placing and launching one job: scheduleJob, re-read, issueRunToken,     *)
(* createJob, markLaunched -- five awaits on a copy of the row             *)

(* scheduleJob, one transaction; binding does not look at the job's state  *)
BindJob(e) ==
  /\ At(e, "schedule") /\ Fits
  /\ row' = [row EXCEPT ![cur[e]].bound = TRUE]
  /\ Goto(e, "reread")
  /\ UNCHANGED <<cluster, tokens, Holding, cur, snap, refused, seen, faults>>

(* Mutant: the binding is kept *)
RequeueStillBound(e) ==
  /\ At(e, "schedule") /\ ~Fits
  /\ row' = IF row[cur[e]].state = "SCHEDULING"
            THEN [row EXCEPT ![cur[e]].state = "QUEUED", ![cur[e]].bound = TRUE]
            ELSE row
  /\ GiveUp(e)
  /\ UNCHANGED <<cluster, tokens, faults>>

(* requeue clears the binding; from another state it throws and rolls back *)
RequeueJob(e) ==
  /\ At(e, "schedule") /\ ~Fits
  /\ row' = IF row[cur[e]].state = "SCHEDULING"
            THEN [row EXCEPT ![cur[e]].state = "QUEUED", ![cur[e]].bound = FALSE]
            ELSE row
  /\ GiveUp(e)
  /\ UNCHANGED <<cluster, tokens, faults>>

RereadJob(e) ==
  /\ At(e, "reread")
  /\ snap' = [snap EXCEPT ![e] = row[cur[e]]]
  /\ Goto(e, "mint")
  /\ UNCHANGED <<row, cluster, tokens, Holding, cur, refused, seen, faults>>

(* Mutant: earlier tokens stay live beside the new one *)
IssueBesideOld(e) ==
  /\ At(e, "mint")
  /\ fresh' = fresh \cup {e}
  /\ Goto(e, "create")
  /\ UNCHANGED <<row, cluster, valid, ending, Holding, cur, snap, refused, seen, faults>>

(* issueRunToken revokes every live token of the job in the transaction    *)
(* that creates the new one                                                *)
IssueRunToken(e) ==
  /\ At(e, "mint")
  /\ NoLiveToken(cur[e])
  /\ fresh' = {x \in fresh : cur[x] # cur[e]} \cup {e}
  /\ Goto(e, "create")
  /\ UNCHANGED <<row, cluster, Holding, cur, snap, refused, seen, faults>>

(* createJob; a Job of that name is adopted with the token it already has  *)
CreateWorkload(e) ==
  LET r == <<cur[e], snap[e].attempt>> IN
  /\ At(e, "create")
  /\ IF work[r] = "absent"
       THEN /\ work' = [work EXCEPT ![r] = "pending"]
            /\ valid' = IF e \in fresh THEN valid \cup {r} ELSE valid \ {r}
       ELSE UNCHANGED <<work, valid>>
  /\ fresh' = fresh \ {e}
  /\ Goto(e, "mark")
  /\ UNCHANGED <<row, lingering, completed, ending, Holding, cur, snap, refused,
                 seen, faults>>

(* markLaunched: the name and SCHEDULING -> STARTING, or neither *)
MarkLaunched(e) ==
  /\ At(e, "mark")
  /\ IF row[cur[e]].state = "SCHEDULING"
       THEN /\ row' = [row EXCEPT ![cur[e]].state = "STARTING",
                                  ![cur[e]].name = snap[e].attempt]
            /\ Done(e)
       ELSE row' = row /\ GiveUp(e)
  /\ UNCHANGED <<cluster, tokens, faults>>

----------------------------------------------------------------------------
(* Tearing a cancelled job down: deleteJob, then finishCancellation        *)

(* Mutant: nothing is deleted unless a Job name was recorded *)
DeleteRecordedOnly(e) ==
  /\ At(e, "delete")
  /\ IF snap[e].name = NoName THEN UNCHANGED cluster
                             ELSE DeletedWork(<<cur[e], NameOf(snap[e])>>)
  /\ Goto(e, "finish")
  /\ UNCHANGED <<row, tokens, Holding, cur, snap, refused, seen, faults>>

(* cancelWorkload deletes by name, recorded or not *)
DeleteWorkload(e) ==
  /\ At(e, "delete")
  /\ DeletedWork(<<cur[e], NameOf(snap[e])>>)
  /\ Goto(e, "finish")
  /\ UNCHANGED <<row, tokens, Holding, cur, snap, refused, seen, faults>>

FinishCancellation(e) ==
  /\ At(e, "finish")
  /\ IF row[cur[e]].state = "CANCELLING"
       THEN /\ row' = [row EXCEPT ![cur[e]].state = "CANCELLED"]
            /\ Goto(e, "expire")
            /\ UNCHANGED <<Holding, cur, snap, refused, seen>>
       ELSE row' = row /\ GiveUp(e)
  /\ UNCHANGED <<cluster, tokens, faults>>

----------------------------------------------------------------------------
(* Watching a launched job: observeJob, then recordObservation or          *)
(* markWorkloadMissing, then expireRunTokens if that ended the attempt     *)

ObserveJob(e) ==
  /\ At(e, "observe")
  /\ seen' = [seen EXCEPT ![e] = Observation(work[<<cur[e], NameOf(snap[e])>>])]
  /\ Goto(e, "record")
  /\ UNCHANGED <<row, cluster, tokens, Holding, cur, snap, refused, faults>>

RecordObservation(e) ==
  LET j == cur[e]
      after == AfterObservation(row[j].state, seen[e]) IN
  /\ At(e, "record")
  /\ IF after = row[j].state
       THEN row' = row /\ Done(e)
       ELSE /\ row' = [row EXCEPT ![j].state = after,
                                  ![j].failure = IF after = "FAILED" THEN seen[e] ELSE @]
            /\ IF after \in Outcomes
                 THEN Goto(e, "expire") /\ UNCHANGED <<Holding, cur, snap, refused, seen>>
                 ELSE Done(e)
  /\ UNCHANGED <<cluster, tokens, faults>>

HasLiveToken(j) == \/ \E r \in valid : r[1] = j
                   \/ \E e \in fresh : cur[e] = j

(* expireRunTokens shortens whatever live token the job has by now *)
ExpireRunTokens(e) ==
  /\ At(e, "expire")
  /\ ending' = IF HasLiveToken(cur[e]) THEN ending \cup {cur[e]} ELSE ending
  /\ Done(e)
  /\ UNCHANGED <<row, cluster, valid, fresh, faults>>

----------------------------------------------------------------------------
(* What goes wrong *)

(* A cluster or database call fails (for a cluster call, perhaps only its   *)
(* answer): the error is logged and the pass moves on to the next job.     *)
CallFails(e) ==
  /\ faults < MaxFaults /\ faults' = faults + 1
  /\ pc[e] # "next"
  /\ GiveUp(e)
  /\ fresh' = fresh \ {e}
  /\ UNCHANGED <<row, cluster, valid, ending>>

(* considerRetry fails: the job stays FAILED and undecided for a later pass *)
RulingFails(e, j) ==
  /\ faults < MaxFaults /\ faults' = faults + 1
  /\ Idling(e, "retry") /\ j \in fails[e]
  /\ fails' = [fails EXCEPT ![e] = @ \ {j}]
  /\ UNCHANGED <<row, cluster, tokens, phase, pc, cur, snap, listed, refused, seen>>

(* The replica restarts, or a query of the pass itself fails and ends it;   *)
(* the loop owns no state of its own.                                      *)
Crash(e) ==
  /\ faults < MaxFaults /\ faults' = faults + 1
  /\ phase[e] # "idle"
  /\ phase' = [phase EXCEPT ![e] = "idle"]
  /\ Goto(e, "next")
  /\ cur' = [cur EXCEPT ![e] = NoJob]
  /\ snap' = [snap EXCEPT ![e] = NoRow]
  /\ seen' = [seen EXCEPT ![e] = "none"]
  /\ listed' = [listed EXCEPT ![e] = [j \in {} |-> NoRow]]
  /\ fails' = [fails EXCEPT ![e] = {}]
  /\ refused' = [refused EXCEPT ![e] = {}]
  /\ fresh' = fresh \ {e}
  /\ UNCHANGED <<row, cluster, valid, ending>>

----------------------------------------------------------------------------
PassStep(e) ==
  \/ ListJobsToReconcile(e) \/ ListRetryDecisions(e) \/ StartClaiming(e) \/ EndPass(e)
  \/ \E j \in Jobs : ReconcileJob(e, j) \/ ConsiderRetry(e, j) \/ ClaimNextJob(e, j)

JobStep(e) ==
  \/ BindJob(e) \/ RequeueJob(e) \/ RereadJob(e) \/ IssueRunToken(e)
  \/ CreateWorkload(e) \/ MarkLaunched(e)
  \/ DeleteWorkload(e) \/ FinishCancellation(e)
  \/ ObserveJob(e) \/ RecordObservation(e) \/ ExpireRunTokens(e)

FaultStep(e) == CallFails(e) \/ Crash(e) \/ \E j \in Jobs : RulingFails(e, j)

PodStep(r) ==
  \/ PodStarts(r) \/ PodSucceeds(r) \/ PodCrashes(r) \/ PodOOMKilled(r)
  \/ JobConditionSet(r) \/ WorkloadLost(r) \/ PodReaped(r)

Next ==
  \/ \E j \in Jobs : SubmitJob(j) \/ CancelJob(j) \/ GraceEnds(j)
  \/ \E r \in Runs : PodStep(r)
  \/ \E e \in Executors : PassStep(e) \/ JobStep(e) \/ FaultStep(e)

Spec == Init /\ [][Next]_vars

(* The loop re-arms its own timer, so a replica keeps taking steps; Pods   *)
(* that fit their node start, and training runs end.                       *)
Fairness ==
  /\ \A e \in Executors : WF_vars(PassStep(e) \/ JobStep(e))
  /\ \A r \in Runs : WF_vars(\/ PodStarts(r) \/ PodSucceeds(r)
                               \/ PodCrashes(r) \/ PodOOMKilled(r))

FairSpec == Spec /\ Fairness

----------------------------------------------------------------------------
(* Types *)

(* Partial functions, told without the set of them all, which is too large *)
IsListing(l) ==
  /\ l = [e \in Executors |-> l[e]]
  /\ \A e \in Executors : DOMAIN l[e] \subseteq Jobs /\ l[e] \in [DOMAIN l[e] -> Row]

PassPhases == {"idle", "reconcile", "retry", "claim"}
Labels == {"next", "schedule", "reread", "mint", "create", "mark",
           "delete", "finish", "observe", "record", "expire"}

(* Every variable keeps its shape; an attempt number within 0..MaxRetries  *)
(* is what bounds the retry budget that considerRetry spends.              *)
TypeOK ==
  /\ row \in [Jobs -> Row]
  /\ work \in [Runs -> WorkStates]
  /\ lingering \subseteq Runs /\ completed \subseteq Runs /\ valid \subseteq Runs
  /\ ending \subseteq Jobs
  /\ phase \in [Executors -> PassPhases]
  /\ pc \in [Executors -> Labels]
  /\ cur \in [Executors -> Jobs \cup {NoJob}]
  /\ snap \in [Executors -> Row]
  /\ IsListing(listed)
  /\ fails \in [Executors -> SUBSET Jobs]
  /\ refused \in [Executors -> SUBSET Jobs]
  /\ seen \in [Executors -> WorkStates \cup {"none", "missing"}]
  /\ fresh \subseteq Executors
  /\ faults \in 0 .. MaxFaults
  /\ \A e \in Executors : pc[e] # "next" => cur[e] \in Jobs

----------------------------------------------------------------------------
(* Safety *)

(* No orphan workload (the comment on CANCEL_NEEDS_EXECUTOR): whatever      *)
(* executes in the cluster is the current attempt of a job whose row says  *)
(* so, so that some later pass will observe it or tear it down.            *)
NoOrphan ==
  \A r \in Runs : work[r] \in Executing =>
    /\ r[2] = row[r[1]].attempt
    /\ row[r[1]].state \in OccupyingStates

(* SUCCEEDED is reported only for an attempt whose container really ran to *)
(* success (markWorkloadMissing: never report a result not observed).      *)
ResultsObserved ==
  \A j \in Jobs : row[j].state = "SUCCEEDED" => <<j, row[j].attempt>> \in completed

(* A Pod of an earlier attempt cannot report into the attempt that replaced *)
(* it: once that one is in the cluster, no earlier Pod's token is live.    *)
NoStaleReporter ==
  \A r \in valid : r[2] < row[r[1]].attempt =>
    /\ work[<<r[1], row[r[1]].attempt>>] = "absent"
    /\ row[r[1]].state \notin {"STARTING", "RUNNING", "SUCCEEDED"}

(* A verdict is recorded only on the failure it ruled on (considerRetry).  *)
VerdictOnlyOnFailure ==
  \A j \in Jobs : row[j].decision # "none" =>
    row[j].state = "FAILED" /\ row[j].decision # "NOT_APPLICABLE"

(* The cluster never executes more workloads than it was said to hold,     *)
(* although a binding is made from a count and never checked again.        *)
WithinSlots ==
  /\ Cardinality(Allocated) <= Slots
  /\ Cardinality({r \in Runs : work[r] \in Executing}) <= Slots

(* A workload in the cluster can report: the token it was started with is  *)
(* the live one (launchJob mints before it creates for this reason).       *)
RunHoldsCredential ==
  \A r \in Runs : work[r] \in Executing /\ row[r[1]].state = "RUNNING" => r \in valid

(* An attempt the kernel killed for its memory is never run again: the     *)
(* same request would be exceeded again (retry-policy.js, out_of_memory).  *)
OOMNeverRetried ==
  [][\A j \in Jobs : row'[j].attempt # row[j].attempt =>
       work[<<j, row[j].attempt>>] \notin {"killed", "condemned"}]_vars

(* A cancelled job is gone from the cluster: nothing executes that no pass *)
(* will ever look at again (the orphan of the CANCEL_NEEDS_EXECUTOR note). *)
CancelledIsGone ==
  \A r \in Runs : row[r[1]].state = "CANCELLED" => work[r] \notin Executing

(* A settled job keeps its outcome, whatever observation, listing, launch  *)
(* or verdict about it another replica still has in flight.                *)
SettledIsFinal ==
  [][\A j \in Jobs : row[j].state \in Terminal =>
       row'[j].state = row[j].state /\ row'[j].attempt = row[j].attempt]_vars

(* What the executor implements of the contract with a job's owner *)
PhaseOf(s) ==
  CASE s = "NONE" -> "unknown"
    [] s = "QUEUED" -> "waiting"
    [] s \in CancelNeedsExecutor -> "claimed"
    [] s = "CANCELLING" -> "stopping"
    [] s = "SUCCEEDED" -> "succeeded"
    [] s = "FAILED" -> "failed"
    [] s = "CANCELLED" -> "cancelled"

Contract == INSTANCE JobContract WITH
  phase <- [j \in Jobs |-> PhaseOf(row[j].state)],
  tries <- [j \in Jobs |-> row[j].attempt],
  executing <- [j \in Jobs |-> {a \in Attempts : work[<<j, a>>] \in Executing}]

(* Every step of the executor, the cluster and the users is a step of the  *)
(* contract or changes nothing the owner can see.                          *)
ImplementsContract == Contract!ContractSpec

----------------------------------------------------------------------------
(* Liveness *)

Settled(j) == \/ row[j].state \in Terminal
              \/ row[j].state = "FAILED" /\ row[j].decision \in {"PERMANENT", "EXHAUSTED"}

(* Every submitted job comes to rest: it ends, or it failed and the        *)
(* platform has said that it will not run again.                           *)
EveryJobSettles == \A j \in Jobs : row[j].state = "QUEUED" ~> Settled(j)

(* A cancel that waits for the executor does complete, and no workload of  *)
(* the job outlives it.                                                    *)
CancelCompletes ==
  \A j \in Jobs : row[j].state = "CANCELLING" ~>
    /\ row[j].state = "CANCELLED"
    /\ \A a \in Attempts : work[<<j, a>>] \notin Executing
=============================================================================
