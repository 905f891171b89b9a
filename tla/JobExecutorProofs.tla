------------------------- MODULE JobExecutorProofs -------------------------
(***************************************************************************)
(* Theorems about JobExecutor, for any jobs, retry budget, capacity and    *)
(* number of faults.  Types and the finality of an outcome hold with any   *)
(* number of replicas; what the row snapshots rely on is proved for one.   *)
(***************************************************************************)
EXTENDS JobExecutorInv, FiniteSetTheorems, TLAPS

----------------------------------------------------------------------------
(* Types *)

(* What a list of a pass may hold: copies of some jobs' rows *)
Copies == UNION {[S -> Row] : S \in SUBSET Jobs}

LEMMA ListingsAreCopies ==
  ASSUME NEW l PROVE IsListing(l) <=> l \in [Executors -> Copies]
<1>1. ASSUME IsListing(l) PROVE l \in [Executors -> Copies]
  BY <1>1 DEF IsListing, Copies
<1>2. ASSUME l \in [Executors -> Copies] PROVE IsListing(l)
  <2>1. ASSUME NEW e \in Executors
        PROVE  DOMAIN l[e] \subseteq Jobs /\ l[e] \in [DOMAIN l[e] -> Row]
    <3>1. PICK S \in SUBSET Jobs : l[e] \in [S -> Row] BY <1>2 DEF Copies
    <3> QED BY <3>1
  <2> QED BY <1>2, <2>1 DEF IsListing
<1> QED BY <1>1, <1>2

(* Copying rows into a list, and taking one out of it, gives copies of rows *)
LEMMA CopiesOfRows ==
  /\ \A f \in [Jobs -> Row], S \in SUBSET Jobs : [j \in S |-> f[j]] \in Copies
  /\ \A c \in Copies, j \in Jobs : [k \in DOMAIN c \ {j} |-> c[k]] \in Copies
  /\ \A c \in Copies : DOMAIN c \subseteq Jobs /\ \A j \in DOMAIN c : c[j] \in Row
<1>1. \A f \in [Jobs -> Row], S \in SUBSET Jobs : [j \in S |-> f[j]] \in Copies
  BY DEF Copies
<1>2. ASSUME NEW c \in Copies
      PROVE  /\ DOMAIN c \subseteq Jobs /\ \A j \in DOMAIN c : c[j] \in Row
             /\ \A j \in Jobs : [k \in DOMAIN c \ {j} |-> c[k]] \in Copies
  <2>1. PICK S \in SUBSET Jobs : c \in [S -> Row] BY <1>2 DEF Copies
  <2>2. ASSUME NEW j \in Jobs PROVE [k \in DOMAIN c \ {j} |-> c[k]] \in Copies
    <3>1. [k \in DOMAIN c \ {j} |-> c[k]] \in [S \ {j} -> Row] BY <2>1
    <3> QED BY <3>1 DEF Copies
  <2> QED BY <2>1, <2>2
<1> QED BY <1>1, <1>2

LEMMA NullsTyped == NoRow \in Row /\ [j \in {} |-> NoRow] \in Copies
<1>1. NoRow \in Row
  BY ExecutorAssumption DEF NoRow, Row, JobStates, Attempts, Failures, Decisions
<1>2. [j \in {} |-> NoRow] \in [{} -> Row]
  OBVIOUS
<1> QED BY <1>1, <1>2 DEF Copies

UserSteps == \E j \in Jobs : SubmitJob(j) \/ CancelJob(j) \/ GraceEnds(j)

LEMMA UserTypes == ASSUME TypeOK, UserSteps PROVE TypeOK'
<1>0. row \in [Jobs -> Row] BY DEF TypeOK
<1>1. ASSUME NEW j \in Jobs, SubmitJob(j) PROVE TypeOK'
  <2>1. row' \in [Jobs -> Row] BY <1>0, <1>1 DEF SubmitJob, Row, JobStates
  <2> QED BY <1>1, <2>1 DEF SubmitJob, TypeOK, cluster, tokens, control
<1>2. ASSUME NEW j \in Jobs, CancelJob(j) PROVE TypeOK'
  <2>1. row' \in [Jobs -> Row] BY <1>0, <1>2 DEF CancelJob, Row, JobStates
  <2> QED BY <1>2, <2>1 DEF CancelJob, TypeOK, cluster, tokens, control
<1>3. ASSUME NEW j \in Jobs, GraceEnds(j) PROVE TypeOK'
  BY <1>3 DEF GraceEnds, NoLiveToken, TypeOK, cluster, control
<1> QED BY <1>1, <1>2, <1>3 DEF UserSteps

LEMMA ClusterTypes == ASSUME TypeOK, NEW r \in Runs, PodStep(r) PROVE TypeOK'
<1>1. ASSUME NEW from, NEW to \in WorkStates, WorkMoves(r, from, to),
             completed' = completed \/ completed' = completed \cup {r}
      PROVE TypeOK'
  BY <1>1 DEF WorkMoves, TypeOK, tokens, control
<1>2. CASE PodStarts(r) BY <1>1, <1>2 DEF PodStarts, WorkStates
<1>3. CASE PodSucceeds(r) BY <1>1, <1>3 DEF PodSucceeds, WorkStates
<1>4. CASE PodCrashes(r) BY <1>1, <1>4 DEF PodCrashes, WorkStates
<1>5. CASE PodOOMKilled(r) BY <1>1, <1>5 DEF PodOOMKilled, WorkStates
<1>6. CASE JobConditionSet(r) BY <1>1, <1>6 DEF JobConditionSet, WorkStates
<1>7. CASE WorkloadLost(r)
  BY <1>7, ExecutorAssumption DEF WorkloadLost, DeletedWork, TypeOK, tokens, control, WorkStates
<1>8. CASE PodReaped(r)
  BY <1>8 DEF PodReaped, TypeOK, control
<1> QED BY <1>2, <1>3, <1>4, <1>5, <1>6, <1>7, <1>8, PodStep(r) DEF PodStep

LEMMA PassTypes == ASSUME TypeOK, NEW e \in Executors, PassStep(e) PROVE TypeOK'
<1>0. row \in [Jobs -> Row] /\ listed \in [Executors -> Copies] BY ListingsAreCopies DEF TypeOK
<1>1. CASE ListJobsToReconcile(e)
  <2>1. [j \in {k \in Jobs : row[k].state \in OccupyingStates} |-> row[j]] \in Copies
    BY <1>0, CopiesOfRows, {k \in Jobs : row[k].state \in OccupyingStates} \in SUBSET Jobs
  <2> QED
    BY <1>0, <1>1, <2>1, ListingsAreCopies DEF ListJobsToReconcile, ListRows, TypeOK, cluster, tokens, PassPhases
<1>2. CASE ListRetryDecisions(e)
  BY <1>2 DEF ListRetryDecisions, TypeOK, cluster, tokens, PassPhases
<1>3. CASE StartClaiming(e)
  BY <1>3 DEF StartClaiming, TypeOK, cluster, tokens, PassPhases
<1>4. CASE EndPass(e)
  BY <1>4 DEF EndPass, TypeOK, cluster, tokens, PassPhases
<1>5. ASSUME NEW j \in Jobs, ReconcileJob(e, j) PROVE TypeOK'
  <2>1. listed' \in [Executors -> Copies]
    BY <1>0, <1>5, CopiesOfRows DEF ReconcileJob
  <2>2. listed[e][j] \in Row
    BY <1>0, <1>5, CopiesOfRows DEF ReconcileJob
  <2> QED
    BY <1>5, <2>1, <2>2, ListingsAreCopies
    DEF ReconcileJob, PlacedOrNot, Goto, TypeOK, cluster, tokens, Labels
<1>6. ASSUME NEW j \in Jobs, ConsiderRetry(e, j) PROVE TypeOK'
  <2>1. row[j] \in Row /\ row[j].attempt \in Attempts BY <1>0 DEF Row
  <2>2. Verdict(row[j]) # "RETRY" => Verdict(row[j]) \in Decisions
    BY DEF Verdict, Decisions
  <2>3. Verdict(row[j]) = "RETRY" => NextAttempt(row[j]) \in Row
    <3>1. Verdict(row[j]) = "RETRY" => row[j].attempt + 1 \in Attempts
      BY <2>1, ExecutorAssumption DEF Verdict, Attempts
    <3> QED BY <3>1, NullsTyped DEF NextAttempt, Row, JobStates
  <2>4. \A d \in Decisions : [row[j] EXCEPT !.decision = d] \in Row
    BY <2>1 DEF Row
  <2>5. row' \in [Jobs -> Row]
    <3>1. PICK r \in Row : row' = row \/ row' = [row EXCEPT ![j] = r]
      BY <1>0, <1>6, <2>2, <2>3, <2>4 DEF ConsiderRetry
    <3> QED BY <1>0, <3>1
  <2> QED BY <1>6, <2>5 DEF ConsiderRetry, TypeOK, cluster, tokens
<1>7. ASSUME NEW j \in Jobs, ClaimNextJob(e, j) PROVE TypeOK'
  <2>1. row' \in [Jobs -> Row] BY <1>0, <1>7 DEF ClaimNextJob, Row, JobStates
  <2>2. [row[j] EXCEPT !.state = "SCHEDULING"] \in Row BY <1>0 DEF Row, JobStates
  <2> QED
    BY <1>7, <2>1, <2>2
    DEF ClaimNextJob, PlacedOrNot, Goto, Holding, TypeOK, cluster, tokens, Labels
<1> QED BY <1>1, <1>2, <1>3, <1>4, <1>5, <1>6, <1>7, PassStep(e) DEF PassStep

(* Leaving a job, for whatever reason, keeps the executor's variables typed *)
LEMMA LeavingTyped ==
  ASSUME TypeOK, NEW e \in Executors, pc[e] # "next", Done(e) \/ GiveUp(e)
  PROVE  /\ phase' = phase /\ listed' = listed /\ fails' = fails
         /\ pc' \in [Executors -> Labels]
         /\ cur' \in [Executors -> Jobs \cup {NoJob}]
         /\ snap' \in [Executors -> Row]
         /\ refused' \in [Executors -> SUBSET Jobs]
         /\ seen' \in [Executors -> WorkStates \cup {"none", "missing"}]
         /\ \A x \in Executors : pc'[x] # "next" => cur'[x] \in Jobs
  BY NullsTyped DEF Done, GiveUp, Leave, Goto, Holding, TypeOK, Labels

LEMMA StateAndBinding ==
  ASSUME row \in [Jobs -> Row], NEW j \in Jobs, NEW s \in JobStates, NEW b \in BOOLEAN
  PROVE  [row EXCEPT ![j].state = s, ![j].bound = b] \in [Jobs -> Row]
BY DEF Row

LEMMA JobTypes == ASSUME TypeOK, NEW e \in Executors, JobStep(e) PROVE TypeOK'
<1>0. row \in [Jobs -> Row] BY DEF TypeOK
<1>s. snap \in [Executors -> Row] BY DEF TypeOK
<1>c. pc[e] # "next" => cur[e] \in Jobs BY DEF TypeOK
<1>1. CASE BindJob(e)
  <2>1. cur[e] \in Jobs BY <1>1, <1>c DEF BindJob, At
  <2>2. row' \in [Jobs -> Row]
    <3>1. row' = [row EXCEPT ![cur[e]].bound = TRUE] BY <1>1 DEF BindJob
    <3> QED BY <1>0, <2>1, <3>1 DEF Row
  <2> QED
    BY <1>1, <2>2 DEF BindJob, At, Goto, Holding, TypeOK, cluster, tokens, Labels
<1>2. CASE RequeueJob(e)
  <2>1. cur[e] \in Jobs BY <1>2, <1>c DEF RequeueJob, At
  <2>2. row' \in [Jobs -> Row]
    <3>1. "QUEUED" \in JobStates BY DEF JobStates
    <3> QED BY <1>0, <1>2, <2>1, <3>1, StateAndBinding DEF RequeueJob
  <2> QED BY <1>2, <2>2, LeavingTyped DEF RequeueJob, At, TypeOK, cluster, tokens
<1>3. CASE RereadJob(e)
  BY <1>3 DEF RereadJob, At, Goto, Holding, TypeOK, cluster, tokens, Labels
<1>4. CASE IssueRunToken(e)
  BY <1>4 DEF IssueRunToken, NoLiveToken, At, Goto, Holding, TypeOK, cluster, Labels
<1>5. CASE CreateWorkload(e)
  <2>1. <<cur[e], snap[e].attempt>> \in Runs
    BY <1>s, <1>c, <1>5 DEF CreateWorkload, At, Runs, Row
  <2> QED
    BY <1>5, <2>1 DEF CreateWorkload, At, Goto, Holding, TypeOK, Labels, WorkStates
<1>6. CASE MarkLaunched(e)
  <2>1. snap[e].attempt \in Attempts BY <1>s DEF Row
  <2>2. ASSUME row[cur[e]].state = "SCHEDULING" PROVE row' \in [Jobs -> Row]
    BY <1>0, <1>6, <2>1, <2>2 DEF MarkLaunched, Row, JobStates
  <2>3. row' \in [Jobs -> Row]  BY <1>0, <1>6, <2>2 DEF MarkLaunched
  <2> QED BY <1>6, <2>3, LeavingTyped DEF MarkLaunched, At, TypeOK, cluster, tokens
<1>7. CASE DeleteWorkload(e)
  <2>1. <<cur[e], NameOf(snap[e])>> \in Runs
    BY <1>s, <1>c, <1>7 DEF DeleteWorkload, At, Runs, Row, NameOf
  <2> QED
    BY <1>7, <2>1
    DEF DeleteWorkload, DeletedWork, At, Goto, Holding, TypeOK, tokens, Labels, WorkStates
<1>8. CASE FinishCancellation(e)
  <2>1. row' \in [Jobs -> Row] BY <1>0, <1>8 DEF FinishCancellation, Row, JobStates
  <2> QED
    BY <1>8, <2>1, LeavingTyped
    DEF FinishCancellation, At, Goto, Holding, TypeOK, cluster, tokens, Labels
<1>9. CASE ObserveJob(e)
  <2>1. <<cur[e], NameOf(snap[e])>> \in Runs
    BY <1>s, <1>c, <1>9 DEF ObserveJob, At, Runs, Row, NameOf
  <2>2. \A w \in WorkStates : Observation(w) \in WorkStates \cup {"none", "missing"}
    BY DEF Observation, WorkStates
  <2> QED
    BY <1>9, <2>1, <2>2
    DEF ObserveJob, At, Goto, Holding, TypeOK, cluster, tokens, Labels
<1>10. CASE RecordObservation(e)
  <2> DEFINE after == AfterObservation(row[cur[e]].state, seen[e])
  <2>1. after \in JobStates \cup {"NONE"} /\ (after = "FAILED" /\ after # row[cur[e]].state => seen[e] \in Failures)
    BY <1>0, <1>c, <1>10
    DEF RecordObservation, At, AfterObservation, Row, JobStates, Outcomes
  <2>2. row' \in [Jobs -> Row]
    BY <1>0, <1>10, <2>1 DEF RecordObservation, Row
  <2> QED
    BY <1>10, <2>2, LeavingTyped
    DEF RecordObservation, At, Goto, Holding, TypeOK, cluster, tokens, Labels
<1>11. CASE ExpireRunTokens(e)
  BY <1>11, <1>c, LeavingTyped DEF ExpireRunTokens, At, TypeOK, cluster
<1> QED
  BY <1>1, <1>2, <1>3, <1>4, <1>5, <1>6, <1>7, <1>8, <1>9, <1>10, <1>11, JobStep(e) DEF JobStep

LEMMA FaultTypes ==
  ASSUME TypeOK, NEW e \in Executors, FaultStep(e) PROVE TypeOK'
<1>1. CASE CallFails(e)
  BY <1>1, LeavingTyped, ExecutorAssumption DEF CallFails, TypeOK, cluster
<1>2. CASE Crash(e)
  <2>1. IsListing(listed)'
    <3>1. listed \in [Executors -> Copies] BY ListingsAreCopies DEF TypeOK
    <3>2. listed' \in [Executors -> Copies] BY <1>2, <3>1, NullsTyped DEF Crash
    <3> QED BY <3>2, ListingsAreCopies
  <2> QED
    BY <1>2, <2>1, NullsTyped, ExecutorAssumption
    DEF Crash, Goto, TypeOK, cluster, Labels, PassPhases
<1>3. ASSUME NEW j \in Jobs, RulingFails(e, j) PROVE TypeOK'
  BY <1>3, ExecutorAssumption DEF RulingFails, TypeOK, cluster, tokens
<1> QED BY <1>1, <1>2, <1>3 DEF FaultStep

LEMMA TypeStep == TypeOK /\ [Next]_vars => TypeOK'
<1> SUFFICES ASSUME TypeOK, [Next]_vars PROVE TypeOK'
  OBVIOUS
<1>1. CASE UNCHANGED vars BY <1>1 DEF vars, TypeOK
<1>2. CASE Next
  BY <1>2, UserTypes, ClusterTypes, PassTypes, JobTypes, FaultTypes DEF Next, UserSteps
<1> QED BY <1>1, <1>2

(* Whatever the replicas interleave, every variable keeps its shape; in    *)
(* particular no interleaving of considerRetry exceeds the retry budget.   *)
THEOREM TypeCorrect == Spec => []TypeOK
<1>1. Init => TypeOK
  BY ExecutorAssumption, NullsTyped, ListingsAreCopies
  DEF Init, TypeOK, WorkStates, PassPhases, Labels
<1> QED BY <1>1, TypeStep, PTL DEF Spec

----------------------------------------------------------------------------
(* The inductive step of Core, one lemma for each kind of step *)

(* Nothing new executes, and neither rows nor executors move *)
LEMMA ClusterCore ==
  ASSUME Core, UNCHANGED <<row, control>>,
         \A r \in Runs : work'[r] \in Executing => work[r] \in Executing
  PROVE  Core'
<1>1. Backed' /\ RowsCoherent' BY DEF Core, Backed, RowsCoherent, OccupyingStates
<1>2. \A e \in Executors : Lists(e)'
  BY DEF Core, Lists, UpToCancel, control
<1>3. ASSUME NEW e \in Executors PROVE Holds(e)'
  <2>1. \A j : Idle(j) => Idle(j)' BY DEF Idle
  <2> QED BY <2>1 DEF Core, Holds, control
<1> QED BY <1>1, <1>2, <1>3 DEF Core

(* A user acts on job j: a new job is queued, or one is cancelled *)
LEMMA UserCore ==
  ASSUME TypeOK, Core, NEW j \in Jobs, SubmitJob(j) \/ CancelJob(j)
  PROVE  Core'
<1>1. /\ UNCHANGED <<work, control>>
      /\ \A k \in Jobs : /\ row'[k].attempt = row[k].attempt
                         /\ row'[k].name = row[k].name
                         /\ row'[k].bound = row[k].bound
                         /\ row'[k].decision = row[k].decision
      /\ \A k \in Jobs \ {j} : row'[k].state = row[k].state
  <2>1. row \in [Jobs -> Row] BY DEF TypeOK
  <2> QED BY <2>1 DEF Row, SubmitJob, CancelJob, cluster
<1>2. \/ row[j].state = "NONE" /\ row'[j].state = "QUEUED"
      \/ row[j].state = "QUEUED" /\ row'[j].state = "CANCELLED"
      \/ row[j].state \in CancelNeedsExecutor /\ row'[j].state = "CANCELLING"
  BY DEF TypeOK, Row, SubmitJob, CancelJob, CancelNeedsExecutor
<1>3. Backed'
  BY <1>1, <1>2 DEF Core, Backed, Runs, OccupyingStates, CancelNeedsExecutor
<1>4. RowsCoherent'
  BY <1>1, <1>2 DEF Core, RowsCoherent, CancelNeedsExecutor
<1>5. ASSUME NEW e \in Executors PROVE Lists(e)'
  <2>1. DOMAIN listed[e] \subseteq Jobs /\ fails[e] \subseteq Jobs
    BY CopiesOfRows, ListingsAreCopies DEF TypeOK
  <2> QED
    BY <1>1, <1>2, <2>1
    DEF Core, Lists, UpToCancel, control, OccupyingStates, CancelNeedsExecutor
<1>6. ASSUME NEW e \in Executors PROVE Holds(e)'
  <2>1. \A k : Idle(k)' <=> Idle(k) BY <1>1 DEF Idle
  <2>2. pc[e] # "next" => cur[e] \in Jobs BY DEF TypeOK
  <2> QED
    BY <1>1, <1>2, <2>1, <2>2
    DEF Core, Holds, control, CancelNeedsExecutor, Launching, Stopping, Watching
<1> QED BY <1>3, <1>4, <1>5, <1>6 DEF Core

LEMMA PassCore ==
  ASSUME TypeOK, Core, NEW e \in Executors, \A x \in Executors : x = e, PassStep(e)
  PROVE  Core'
<1>0. Lists(e) /\ Holds(e) /\ Backed /\ RowsCoherent BY DEF Core
<1>1. CASE ListJobsToReconcile(e)
  <2>1. Backed' /\ RowsCoherent'
    BY <1>0, <1>1 DEF ListJobsToReconcile, ListRows, Backed, RowsCoherent, cluster
  <2>2. Lists(e)'
    BY <1>0, <1>1
    DEF ListJobsToReconcile, ListRows, Idling, Lists, UpToCancel, RowsCoherent, TypeOK
  <2>3. Holds(e)'
    BY <1>0, <1>1 DEF ListJobsToReconcile, ListRows, Idling, Holds, Launching, Stopping, Watching
  <2> QED BY <2>1, <2>2, <2>3 DEF Core
<1>2. CASE ListRetryDecisions(e)
  <2>1. Backed' /\ RowsCoherent'
    BY <1>0, <1>2 DEF ListRetryDecisions, Backed, RowsCoherent, cluster
  <2>2. Lists(e)'
    BY <1>0, <1>2 DEF ListRetryDecisions, Idling, Lists, UpToCancel, TypeOK
  <2>3. Holds(e)'
    BY <1>0, <1>2 DEF ListRetryDecisions, Idling, Holds, Launching, Stopping, Watching
  <2> QED BY <2>1, <2>2, <2>3 DEF Core
<1>3. CASE StartClaiming(e) \/ EndPass(e)
  <2>1. Backed' /\ RowsCoherent'
    BY <1>0, <1>3 DEF StartClaiming, EndPass, Backed, RowsCoherent, cluster
  <2>2. Lists(e)'
    BY <1>0, <1>3 DEF StartClaiming, EndPass, Idling, Lists, UpToCancel, TypeOK
  <2>3. Holds(e)'
    BY <1>0, <1>3 DEF StartClaiming, EndPass, Idling, Holds, Launching, Stopping, Watching
  <2> QED BY <2>1, <2>2, <2>3 DEF Core
<1>4. ASSUME NEW j \in Jobs, ReconcileJob(e, j) PROVE Core'
  <2>1. Backed' /\ RowsCoherent'
    BY <1>0, <1>4 DEF ReconcileJob, Backed, RowsCoherent, cluster
  <2>2. /\ listed'[e] = [k \in DOMAIN listed[e] \ {j} |-> listed[e][k]]
        /\ cur'[e] = j /\ snap'[e] = listed[e][j]
        /\ UNCHANGED <<row, work, phase, fails>>
    BY <1>4, ListingsAreCopies DEF ReconcileJob, TypeOK, cluster
  <2>3. Lists(e)'
    BY <1>0, <1>4, <2>2 DEF ReconcileJob, Idling, Lists, UpToCancel
  <2>4. /\ listed[e][j].state \in OccupyingStates
        /\ UpToCancel(listed[e][j], j)
    BY <1>0, <1>4 DEF ReconcileJob, Lists
  <2>5. pc'[e] = CASE listed[e][j].state = "CANCELLING" -> "delete"
                   [] listed[e][j].state = "SCHEDULING" -> PlacedOrNot(listed[e][j])
                   [] OTHER -> "observe"
    BY <1>4 DEF ReconcileJob, Goto, TypeOK
  <2>6. listed[e][j].bound \in BOOLEAN
    BY <1>4, CopiesOfRows, ListingsAreCopies DEF ReconcileJob, TypeOK, Row
  <2>7. CASE listed[e][j].state = "CANCELLING"
    BY <2>1, <2>2, <2>3, <2>4, <2>5, <2>7
    DEF Core, Holds, UpToCancel, Launching, Stopping, Watching
  <2>8. CASE listed[e][j].state = "SCHEDULING" /\ listed[e][j].bound
    <3>1. pc'[e] = "mint" BY <2>5, <2>8 DEF PlacedOrNot
    <3>2. row'[j].bound = TRUE BY <2>2, <2>4, <2>6, <2>8 DEF UpToCancel
    <3>3. row'[j].state \in {"SCHEDULING", "CANCELLING"}
      BY <2>2, <2>4, <2>8 DEF UpToCancel
    <3>4. snap'[e].attempt = row'[j].attempt /\ snap'[e].name \in {NoName, snap'[e].attempt}
      BY <2>2, <2>4 DEF UpToCancel
    <3>5. cur'[e] = j /\ j \notin DOMAIN listed'[e] BY <2>2
    <3>6. Holds(e)'
      BY <3>1, <3>2, <3>3, <3>4, <3>5 DEF Holds, Launching, Stopping, Watching
    <3> QED BY <2>1, <2>3, <3>6 DEF Core
  <2>9. CASE listed[e][j].state = "SCHEDULING" /\ ~listed[e][j].bound
    BY <2>1, <2>2, <2>3, <2>4, <2>5, <2>6, <2>9
    DEF Core, Holds, UpToCancel, PlacedOrNot, Launching, Stopping, Watching
  <2>10. CASE listed[e][j].state \in {"STARTING", "RUNNING"}
    BY <2>1, <2>2, <2>3, <2>4, <2>5, <2>10
    DEF Core, Holds, UpToCancel, Launching, Stopping, Watching
  <2> QED BY <2>4, <2>7, <2>8, <2>9, <2>10 DEF OccupyingStates
<1>5. ASSUME NEW j \in Jobs, ConsiderRetry(e, j) PROVE Core'
  <2>1. row[j].state = "FAILED" /\ pc[e] = "next" /\ DOMAIN listed[e] = {}
    BY <1>0, <1>5 DEF ConsiderRetry, Idling, Lists
  <2>2. /\ UNCHANGED <<work, phase, pc, cur, snap, listed, seen>>
        /\ fails'[e] = fails[e] \ {j}
        /\ \A k \in Jobs \ {j} : row'[k] = row[k]
    BY <1>5 DEF ConsiderRetry, TypeOK, cluster
  <2>3. \/ row'[j] = row[j]
        \/ row'[j] = NextAttempt(row[j])
        \/ row'[j] = [row[j] EXCEPT !.decision = Verdict(row[j])]
    BY <1>5 DEF ConsiderRetry, TypeOK
  <2>4. Verdict(row[j]) # "NOT_APPLICABLE" BY <2>1 DEF Verdict
  <2>5. row[j] \in Row BY DEF TypeOK
  <2>6. \A r \in Runs : r[1] = j => work[r] \notin Executing
    BY <1>0, <2>1 DEF Backed, OccupyingStates
  <2>7. Backed' BY <1>0, <2>2, <2>6 DEF Backed, Runs
  <2>8. /\ row'[j].state \in {"NONE", "QUEUED"} => ~row'[j].bound
        /\ row'[j].name \in {NoName, row'[j].attempt}
        /\ row'[j].decision # "none" =>
             row'[j].state = "FAILED" /\ row'[j].decision # "NOT_APPLICABLE"
    BY <1>0, <2>1, <2>3, <2>4, <2>5 DEF RowsCoherent, NextAttempt, NoRow, Row
  <2>9. RowsCoherent' BY <1>0, <2>2, <2>8 DEF RowsCoherent
  <2>10. Lists(e)' BY <1>0, <2>1, <2>2 DEF Lists, TypeOK
  <2>11. Holds(e)'
    BY <2>1, <2>2 DEF Holds, Launching, Stopping, Watching
  <2> QED BY <2>7, <2>9, <2>10, <2>11 DEF Core
<1>6. ASSUME NEW j \in Jobs, ClaimNextJob(e, j) PROVE Core'
  <2>1. /\ row[j].state = "QUEUED" /\ ~row[j].bound
        /\ DOMAIN listed[e] = {} /\ fails[e] = {}
    BY <1>0, <1>6 DEF ClaimNextJob, Claimable, Idling, Lists, RowsCoherent
  <2>2. /\ UNCHANGED <<work, phase, listed, fails, seen>>
        /\ \A k \in Jobs \ {j} : row'[k] = row[k]
        /\ row'[j] = [row[j] EXCEPT !.state = "SCHEDULING"]
        /\ cur'[e] = j /\ snap'[e] = [row[j] EXCEPT !.state = "SCHEDULING"]
        /\ pc'[e] = "schedule"
    BY <1>6, <2>1
    DEF ClaimNextJob, Claimable, Goto, PlacedOrNot, Holding, TypeOK, cluster
  <2>3. row[j] \in Row BY DEF TypeOK
  <2>4. /\ row'[j].state = "SCHEDULING" /\ row'[j].attempt = row[j].attempt
        /\ row'[j].name = row[j].name /\ row'[j].bound = row[j].bound
        /\ row'[j].decision = row[j].decision
    BY <2>2, <2>3 DEF Row
  <2>5. \A r \in Runs : r[1] = j => work[r] \notin Executing
    BY <1>0, <2>1 DEF Backed, OccupyingStates
  <2>6. Backed' BY <1>0, <2>2, <2>5 DEF Backed, Runs
  <2>7. RowsCoherent'
    <3>1. row[j].decision = "none" /\ row[j].name \in {NoName, row[j].attempt}
      BY <1>0, <2>1 DEF RowsCoherent
    <3>2. \A k \in Jobs \ {j} : row'[k] = row[k] BY <2>2
    <3> QED BY <1>0, <2>4, <3>1, <3>2 DEF RowsCoherent
  <2>8. Lists(e)' BY <1>0, <2>1, <2>2 DEF Lists
  <2>9. Holds(e)'
    <3>1. snap'[e].attempt = row'[j].attempt /\ snap'[e].name = row'[j].name
      BY <2>2
    <3>2. row'[j].name \in {NoName, row'[j].attempt} BY <2>7 DEF RowsCoherent
    <3>3. row'[j].bound = FALSE BY <2>1, <2>3, <2>4 DEF Row
    <3> QED
      BY <2>1, <2>2, <2>4, <3>1, <3>2, <3>3 DEF Holds, Launching, Stopping, Watching
  <2> QED BY <2>6, <2>7, <2>8, <2>9 DEF Core
<1> QED BY <1>1, <1>2, <1>3, <1>4, <1>5, <1>6, PassStep(e) DEF PassStep

(* The lists of a pass do not notice a step on the job being handled *)
LEMMA ListsKept ==
  ASSUME TypeOK, NEW e \in Executors, Lists(e), NEW j \in Jobs,
         j \notin DOMAIN listed[e], row[j].state # "FAILED",
         UNCHANGED <<phase, listed, fails>>,
         \A k \in Jobs \ {j} : row'[k] = row[k]
  PROVE  Lists(e)'
<1>1. DOMAIN listed[e] \subseteq Jobs /\ fails[e] \subseteq Jobs
  BY CopiesOfRows, ListingsAreCopies DEF TypeOK
<1> QED BY <1>1 DEF Lists, UpToCancel

(* Once an executor has left a job it holds nothing *)
LEMMA HoldsNothing ==
  ASSUME TypeOK, NEW e \in Executors, pc'[e] = "next"
  PROVE  Holds(e)'
BY DEF Holds, Launching, Stopping, Watching

LEMMA LaunchCore ==
  ASSUME TypeOK, Core, NEW e \in Executors, \A x \in Executors : x = e,
         \/ BindJob(e) \/ RequeueJob(e) \/ RereadJob(e) \/ IssueRunToken(e)
         \/ CreateWorkload(e) \/ MarkLaunched(e)
  PROVE  Core'
<1> DEFINE j == cur[e]
<1>0. /\ Lists(e) /\ Holds(e) /\ Backed /\ RowsCoherent
      /\ pc[e] \in Launching
  BY DEF Core, Launching, At, BindJob, RequeueJob, RereadJob, IssueRunToken,
         CreateWorkload, MarkLaunched
<1>1. /\ j \in Jobs /\ j \notin DOMAIN listed[e]
      /\ snap[e].attempt = row[j].attempt /\ snap[e].name \in {NoName, snap[e].attempt}
      /\ row[j].state \in {"SCHEDULING", "CANCELLING"}
      /\ row[j].bound = (pc[e] # "schedule")
  BY <1>0 DEF Holds, Launching
<1>2. row \in [Jobs -> Row] /\ row[j] \in Row BY <1>1 DEF TypeOK
<1>3. CASE BindJob(e)
  <2>1. /\ UNCHANGED <<work, phase, listed, fails, cur, snap, seen>>
        /\ pc'[e] = "reread"
        /\ \A k \in Jobs \ {j} : row'[k] = row[k]
        /\ row'[j] = [row[j] EXCEPT !.bound = TRUE]
    BY <1>1, <1>3 DEF BindJob, Goto, Holding, TypeOK, cluster
  <2>2. /\ row'[j].bound = TRUE /\ row'[j].state = row[j].state
        /\ row'[j].attempt = row[j].attempt /\ row'[j].name = row[j].name
        /\ row'[j].decision = row[j].decision
    BY <1>2, <2>1 DEF Row
  <2>k. work' = work /\ \A k \in Jobs \ {j} : row'[k] = row[k] BY <2>1
  <2>3. Backed' BY <1>0, <2>k, <2>2 DEF Backed, Runs
  <2>4. RowsCoherent' BY <1>0, <1>1, <2>k, <2>2 DEF RowsCoherent
  <2>5. Lists(e)' BY <1>0, <1>1, <2>1, ListsKept
  <2>6. Holds(e)'
    BY <1>1, <2>1, <2>2 DEF Holds, Launching, Stopping, Watching
  <2> QED BY <2>3, <2>4, <2>5, <2>6 DEF Core
<1>4. CASE RequeueJob(e)
  <2>1. UNCHANGED <<work, phase, listed, fails>> /\ pc'[e] = "next"
    BY <1>4 DEF RequeueJob, GiveUp, Leave, Goto, Holding, TypeOK, cluster
  <2>2. row' = row \/ row' = [row EXCEPT ![j].state = "QUEUED", ![j].bound = FALSE]
    BY <1>4 DEF RequeueJob
  <2>3. /\ \A k \in Jobs \ {j} : row'[k] = row[k]
        /\ \/ row'[j] = row[j]
           \/ row'[j].state = "QUEUED" /\ row'[j].bound = FALSE
        /\ row'[j].attempt = row[j].attempt /\ row'[j].name = row[j].name
        /\ row'[j].decision = row[j].decision
    <3> DEFINE back == [row[j] EXCEPT !.state = "QUEUED", !.bound = FALSE]
    <3>1. row' = row \/ row' = [row EXCEPT ![j] = back] BY <2>2
    <3>2. /\ back.state = "QUEUED" /\ back.bound = FALSE /\ back.name = row[j].name
          /\ back.attempt = row[j].attempt /\ back.decision = row[j].decision
      BY <1>2 DEF Row
    <3> HIDE DEF back
    <3> QED BY <1>1, <1>2, <3>1, <3>2
  <2>4. row[j].bound = FALSE BY <1>1, <1>4 DEF RequeueJob, At
  <2>5. \A r \in Runs : r[1] = j => work[r] \notin Executing
    BY <1>0, <2>4 DEF Backed
  <2>6. Backed' BY <1>0, <2>1, <2>3, <2>5 DEF Backed, Runs
  <2>7. RowsCoherent' BY <1>0, <1>1, <2>3 DEF RowsCoherent
  <2>8. Lists(e)' BY <1>0, <1>1, <2>1, <2>3, ListsKept
  <2> QED BY <2>1, <2>6, <2>7, <2>8, HoldsNothing DEF Core
<1>5. CASE RereadJob(e)
  <2>1. /\ UNCHANGED <<row, work, phase, listed, fails, cur, seen>>
        /\ pc'[e] = "mint" /\ snap'[e] = row[j] /\ pc[e] = "reread"
    BY <1>5 DEF RereadJob, At, Goto, Holding, TypeOK, cluster
  <2>2. row[j].name \in {NoName, row[j].attempt} BY <1>0, <1>1 DEF RowsCoherent
  <2>3. Backed' /\ RowsCoherent' BY <1>0, <2>1 DEF Backed, RowsCoherent
  <2>4. Lists(e)' BY <1>0, <2>1 DEF Lists, UpToCancel
  <2>5. Holds(e)'
    BY <1>1, <2>1, <2>2 DEF Holds, Launching, Stopping, Watching
  <2> QED BY <2>3, <2>4, <2>5 DEF Core
<1>6. CASE IssueRunToken(e)
  <2>1. /\ UNCHANGED <<row, work, phase, listed, fails, cur, snap, seen>>
        /\ pc'[e] = "create" /\ pc[e] = "mint"
    BY <1>6 DEF IssueRunToken, At, Goto, Holding, TypeOK, cluster
  <2>2. Backed' /\ RowsCoherent' BY <1>0, <2>1 DEF Backed, RowsCoherent
  <2>3. Lists(e)' BY <1>0, <2>1 DEF Lists, UpToCancel
  <2>4. Holds(e)' BY <1>1, <2>1 DEF Holds, Launching, Stopping, Watching
  <2> QED BY <2>2, <2>3, <2>4 DEF Core
<1>7. CASE CreateWorkload(e)
  <2> DEFINE r == <<j, snap[e].attempt>>
  <2>1. /\ UNCHANGED <<row, phase, listed, fails, cur, snap, seen>>
        /\ pc'[e] = "mark" /\ pc[e] = "create"
        /\ work' = work \/ work' = [work EXCEPT ![r] = "pending"]
    BY <1>7 DEF CreateWorkload, At, Goto, Holding, TypeOK
  <2>2. row[j].bound BY <1>1, <2>1
  <2>3. \A q \in Runs : work'[q] \in Executing => work[q] \in Executing \/ q = r
    BY <2>1 DEF TypeOK
  <2>4. Backed' BY <1>0, <1>1, <2>1, <2>2, <2>3 DEF Backed, OccupyingStates
  <2>5. RowsCoherent' BY <1>0, <2>1 DEF RowsCoherent
  <2>6. Lists(e)' BY <1>0, <2>1 DEF Lists, UpToCancel
  <2>7. Holds(e)' BY <1>1, <2>1 DEF Holds, Launching, Stopping, Watching
  <2> QED BY <2>4, <2>5, <2>6, <2>7 DEF Core
<1>8. CASE MarkLaunched(e)
  <2>1. UNCHANGED <<work, phase, listed, fails>> /\ pc'[e] = "next"
    BY <1>8 DEF MarkLaunched, Done, GiveUp, Leave, Goto, Holding, TypeOK, cluster
  <2>2. row' = row \/ row' = [row EXCEPT ![j].state = "STARTING", ![j].name = snap[e].attempt]
    BY <1>8 DEF MarkLaunched
  <2>3. /\ \A k \in Jobs \ {j} : row'[k] = row[k]
        /\ \/ row'[j] = row[j]
           \/ row'[j].state = "STARTING" /\ row'[j].name = row[j].attempt
        /\ row'[j].attempt = row[j].attempt /\ row'[j].bound = row[j].bound
        /\ row'[j].decision = row[j].decision
    <3> DEFINE started == [row[j] EXCEPT !.state = "STARTING", !.name = snap[e].attempt]
    <3>1. row' = row \/ row' = [row EXCEPT ![j] = started] BY <2>2
    <3>2. /\ started.state = "STARTING" /\ started.name = row[j].attempt
          /\ started.attempt = row[j].attempt /\ started.bound = row[j].bound
          /\ started.decision = row[j].decision
      BY <1>1, <1>2 DEF Row
    <3> HIDE DEF started
    <3> QED BY <1>1, <1>2, <3>1, <3>2
  <2>4. Backed' BY <1>0, <1>1, <2>1, <2>3 DEF Backed, Runs, OccupyingStates
  <2>5. RowsCoherent' BY <1>0, <1>1, <2>3 DEF RowsCoherent
  <2>6. Lists(e)' BY <1>0, <1>1, <2>1, <2>3, ListsKept
  <2> QED BY <2>1, <2>4, <2>5, <2>6, HoldsNothing DEF Core
<1> QED BY <1>3, <1>4, <1>5, <1>6, <1>7, <1>8

(* The name a copy gives is the current attempt's, so deleting or observing *)
(* by that name reaches the only workload of the job that can execute.     *)
LEMMA NamesTheAttempt ==
  ASSUME TypeOK, Backed, NEW e \in Executors, NEW j \in Jobs,
         snap[e].attempt = row[j].attempt, snap[e].name \in {NoName, snap[e].attempt}
  PROVE  /\ NameOf(snap[e]) = row[j].attempt
         /\ <<j, row[j].attempt>> \in Runs
         /\ \A r \in Runs : r[1] = j /\ work[r] \in Executing => r = <<j, row[j].attempt>>
<1>1. row[j].attempt \in Attempts BY DEF TypeOK, Row
<1>2. NameOf(snap[e]) = row[j].attempt BY DEF NameOf
<1>3. ASSUME NEW r \in Runs, r[1] = j, work[r] \in Executing
      PROVE  r = <<j, row[j].attempt>>
  BY <1>3 DEF Backed, Runs
<1> QED BY <1>1, <1>2, <1>3 DEF Runs

LEMMA TeardownCore ==
  ASSUME TypeOK, Core, NEW e \in Executors, \A x \in Executors : x = e,
         DeleteWorkload(e) \/ FinishCancellation(e)
  PROVE  Core'
<1> DEFINE j == cur[e]
<1>0. /\ Lists(e) /\ Holds(e) /\ Backed /\ RowsCoherent
      /\ pc[e] \in Stopping
  BY DEF Core, Stopping, At, DeleteWorkload, FinishCancellation
<1>1. /\ j \in Jobs /\ j \notin DOMAIN listed[e]
      /\ snap[e].attempt = row[j].attempt /\ snap[e].name \in {NoName, snap[e].attempt}
      /\ row[j].state = "CANCELLING"
  BY <1>0 DEF Holds, Stopping
<1>2. row \in [Jobs -> Row] /\ row[j] \in Row BY <1>1 DEF TypeOK
<1>3. CASE DeleteWorkload(e)
  <2>1. /\ UNCHANGED <<row, phase, listed, fails, cur, snap, seen>>
        /\ pc'[e] = "finish"
        /\ work' = [work EXCEPT ![<<j, row[j].attempt>>] = "absent"]
    BY <1>0, <1>1, <1>3, NamesTheAttempt
    DEF DeleteWorkload, DeletedWork, Goto, Holding, TypeOK, tokens
  <2>2. /\ \A r \in Runs : work'[r] \in Executing => work[r] \in Executing
        /\ \A r \in Runs : r[1] = j => work'[r] \notin Executing
    BY <1>0, <1>1, <2>1, NamesTheAttempt DEF TypeOK, Executing
  <2>3. Backed' /\ RowsCoherent' BY <1>0, <2>1, <2>2 DEF Backed, RowsCoherent
  <2>4. Lists(e)' BY <1>0, <2>1 DEF Lists, UpToCancel
  <2>5. Holds(e)' BY <1>1, <2>1, <2>2 DEF Holds, Idle, Launching, Stopping, Watching
  <2> QED BY <2>3, <2>4, <2>5 DEF Core
<1>4. CASE FinishCancellation(e)
  <2>1. /\ UNCHANGED <<work, phase, listed, fails>>
        /\ pc'[e] \in {"next", "expire"} /\ (pc'[e] = "expire" => cur'[e] = j)
        /\ pc[e] = "finish"
    BY <1>4
    DEF FinishCancellation, At, GiveUp, Leave, Goto, Holding, TypeOK, cluster
  <2>2. row' = row \/ row' = [row EXCEPT ![j].state = "CANCELLED"]
    BY <1>4 DEF FinishCancellation
  <2>3. /\ \A k \in Jobs \ {j} : row'[k] = row[k]
        /\ row'[j] = row[j] \/ row'[j].state = "CANCELLED"
        /\ row'[j].attempt = row[j].attempt /\ row'[j].bound = row[j].bound
        /\ row'[j].name = row[j].name /\ row'[j].decision = row[j].decision
    <3> DEFINE gone == [row[j] EXCEPT !.state = "CANCELLED"]
    <3>1. row' = row \/ row' = [row EXCEPT ![j] = gone] BY <2>2
    <3>2. /\ gone.state = "CANCELLED" /\ gone.name = row[j].name
          /\ gone.attempt = row[j].attempt /\ gone.bound = row[j].bound
          /\ gone.decision = row[j].decision
      BY <1>2 DEF Row
    <3> HIDE DEF gone
    <3> QED BY <1>1, <1>2, <3>1, <3>2
  <2>4. \A r \in Runs : r[1] = j => work[r] \notin Executing
    BY <1>0, <2>1 DEF Holds, Idle
  <2>5. Backed' BY <1>0, <2>1, <2>3, <2>4 DEF Backed, Runs
  <2>6. RowsCoherent' BY <1>0, <1>1, <2>3 DEF RowsCoherent
  <2>7. Lists(e)' BY <1>0, <1>1, <2>1, <2>3, ListsKept
  <2>8. Holds(e)' BY <1>1, <2>1 DEF Holds, Launching, Stopping, Watching
  <2> QED BY <2>5, <2>6, <2>7, <2>8 DEF Core
<1> QED BY <1>3, <1>4

LEMMA WatchCore ==
  ASSUME TypeOK, Core, NEW e \in Executors, \A x \in Executors : x = e,
         ObserveJob(e) \/ RecordObservation(e)
  PROVE  Core'
<1> DEFINE j == cur[e]
<1>0. /\ Lists(e) /\ Holds(e) /\ Backed /\ RowsCoherent
      /\ pc[e] \in Watching
  BY DEF Core, Watching, At, ObserveJob, RecordObservation
<1>1. /\ j \in Jobs /\ j \notin DOMAIN listed[e]
      /\ snap[e].attempt = row[j].attempt /\ snap[e].name \in {NoName, snap[e].attempt}
      /\ row[j].state \in {"STARTING", "RUNNING", "CANCELLING"}
  BY <1>0 DEF Holds, Watching
<1>2. row \in [Jobs -> Row] /\ row[j] \in Row BY <1>1 DEF TypeOK
<1>3. CASE ObserveJob(e)
  <2>1. /\ UNCHANGED <<row, work, phase, listed, fails, cur, snap>>
        /\ pc'[e] = "record"
        /\ seen'[e] = Observation(work[<<j, row[j].attempt>>])
    BY <1>0, <1>1, <1>3, NamesTheAttempt
    DEF ObserveJob, Goto, Holding, TypeOK, cluster
  <2>2. seen'[e] \notin Executing => work[<<j, row[j].attempt>>] \notin Executing
    BY <2>1 DEF Observation, Executing
  <2>3. seen'[e] \notin Executing => \A r \in Runs : r[1] = j => work[r] \notin Executing
    BY <1>0, <1>1, <2>2, NamesTheAttempt
  <2>4. Backed' /\ RowsCoherent' BY <1>0, <2>1 DEF Backed, RowsCoherent
  <2>5. Lists(e)' BY <1>0, <2>1 DEF Lists, UpToCancel
  <2>6. Holds(e)'
    BY <1>1, <2>1, <2>3 DEF Holds, Idle, Launching, Stopping, Watching
  <2> QED BY <2>4, <2>5, <2>6 DEF Core
<1>4. CASE RecordObservation(e)
  <2> DEFINE after == AfterObservation(row[j].state, seen[e])
  <2>1. /\ UNCHANGED <<work, phase, listed, fails>>
        /\ pc'[e] \in {"next", "expire"} /\ (pc'[e] = "expire" => cur'[e] = j)
        /\ pc[e] = "record"
    BY <1>4 DEF RecordObservation, At, Done, Leave, Goto, Holding, TypeOK, cluster
  <2>2. after = row[j].state \/ after \in {"RUNNING", "SUCCEEDED", "FAILED"}
    BY DEF AfterObservation
  <2>3. /\ after \in {"SUCCEEDED", "FAILED"} => seen[e] \notin Executing
        /\ row[j].state = "CANCELLING" => after = "CANCELLING"
    <3>1. ASSUME NEW st \in {"STARTING", "RUNNING"}, NEW obs,
                 AfterObservation(st, obs) \in {"SUCCEEDED", "FAILED"}
          PROVE  obs \in {"succeeded"} \cup Failures
      BY <3>1 DEF AfterObservation, Outcomes
    <3>2. \A obs : AfterObservation("CANCELLING", obs) = "CANCELLING"
      BY DEF AfterObservation, CanTransition, NextStates, JobStates, Failures
    <3>3. \A obs \in {"succeeded"} \cup Failures : obs \notin Executing
      BY DEF Failures, Executing
    <3>4. CASE row[j].state = "CANCELLING" BY <3>2, <3>4
    <3>5. CASE row[j].state \in {"STARTING", "RUNNING"}
      <4>1. after \in {"SUCCEEDED", "FAILED"} => seen[e] \in {"succeeded"} \cup Failures
        BY <3>1, <3>5
      <4>2. row[j].state # "CANCELLING" BY <3>5
      <4> QED BY <3>3, <4>1, <4>2
    <3> QED BY <1>1, <3>4, <3>5
  <2>4. \/ row' = row
        \/ \E f : row' = [row EXCEPT ![j].state = after, ![j].failure = f]
    BY <1>4 DEF RecordObservation
  <2>5. /\ \A k \in Jobs \ {j} : row'[k] = row[k]
        /\ row'[j] = row[j] \/ row'[j].state = after
        /\ row'[j].attempt = row[j].attempt /\ row'[j].bound = row[j].bound
        /\ row'[j].name = row[j].name /\ row'[j].decision = row[j].decision
    <3> HIDE DEF after
    <3>1. CASE row' = row BY <3>1
    <3>2. ASSUME NEW f, row' = [row EXCEPT ![j].state = after, ![j].failure = f]
          PROVE  /\ \A k \in Jobs \ {j} : row'[k] = row[k]
                 /\ row'[j].state = after
                 /\ row'[j].attempt = row[j].attempt /\ row'[j].bound = row[j].bound
                 /\ row'[j].name = row[j].name /\ row'[j].decision = row[j].decision
      <4> DEFINE new == [row[j] EXCEPT !.state = after, !.failure = f]
      <4>1. row' = [row EXCEPT ![j] = new] BY <3>2
      <4>2. /\ new.state = after /\ new.name = row[j].name
            /\ new.attempt = row[j].attempt /\ new.bound = row[j].bound
            /\ new.decision = row[j].decision
        BY <1>2 DEF Row
      <4> HIDE DEF new
      <4> QED BY <1>1, <1>2, <4>1, <4>2
    <3> QED BY <2>4, <3>1, <3>2
  <2>6. seen[e] \notin Executing => \A r \in Runs : r[1] = j => work[r] \notin Executing
    BY <1>0, <2>1 DEF Holds, Idle
  <2>7. Backed'
    BY <1>0, <1>1, <2>1, <2>2, <2>3, <2>5, <2>6 DEF Backed, Runs, OccupyingStates
  <2>8. RowsCoherent'
    BY <1>0, <1>1, <2>2, <2>5 DEF RowsCoherent
  <2>9. Lists(e)' BY <1>0, <1>1, <2>1, <2>5, ListsKept
  <2>10. Holds(e)' BY <1>1, <2>1 DEF Holds, Launching, Stopping, Watching
  <2> QED BY <2>7, <2>8, <2>9, <2>10 DEF Core
<1> QED BY <1>3, <1>4

LEMMA AbandonCore ==
  ASSUME TypeOK, Core, NEW e \in Executors, \A x \in Executors : x = e,
         ExpireRunTokens(e) \/ FaultStep(e)
  PROVE  Core'
<1>0. ASSUME NEW j \in Jobs, RulingFails(e, j) PROVE Core'
  BY <1>0 DEF RulingFails, Idling, Core, Backed, RowsCoherent, Lists, Holds, UpToCancel,
              Launching, Stopping, Watching, TypeOK, cluster, Idle
<1> SUFFICES ASSUME ExpireRunTokens(e) \/ CallFails(e) \/ Crash(e) PROVE Core'
  BY <1>0 DEF FaultStep
<1>1. UNCHANGED <<row, work>> /\ pc'[e] = "next"
  BY DEF ExpireRunTokens, CallFails, Crash, Done, GiveUp, Leave, Goto, TypeOK, cluster
<1>2. Backed' /\ RowsCoherent' BY <1>1 DEF Core, Backed, RowsCoherent
<1>3. CASE UNCHANGED <<phase, listed, fails>>
  BY <1>1, <1>2, <1>3, HoldsNothing DEF Core, Lists, UpToCancel
<1>4. CASE Crash(e)
  <2>1. DOMAIN listed'[e] = {} /\ fails'[e] = {}
    BY <1>4, ListingsAreCopies DEF Crash, TypeOK
  <2>2. Lists(e)' BY <2>1 DEF Lists
  <2> QED BY <1>1, <1>2, <2>2, HoldsNothing DEF Core
<1> QED
  BY <1>3, <1>4 DEF ExpireRunTokens, CallFails, Done, GiveUp, Leave, Holding

LEMMA CoreStep == SoleExecutor /\ TypeOK /\ Core /\ [Next]_vars => Core'
<1> SUFFICES ASSUME SoleExecutor, TypeOK, Core, [Next]_vars PROVE Core'
  OBVIOUS
<1>1. CASE UNCHANGED vars BY <1>1, ClusterCore DEF vars, control
<1>2. ASSUME NEW j \in Jobs, SubmitJob(j) \/ CancelJob(j) PROVE Core'
  BY <1>2, UserCore
<1>3. ASSUME NEW j \in Jobs, GraceEnds(j) PROVE Core'
  BY <1>3, ClusterCore DEF GraceEnds, cluster
<1>4. ASSUME NEW r \in Runs, PodStep(r) PROVE Core'
  <2>1. UNCHANGED <<row, control>>
    BY <1>4 DEF PodStep, PodStarts, PodSucceeds, PodCrashes, PodOOMKilled,
                JobConditionSet, WorkloadLost, PodReaped, WorkMoves
  <2>2. \/ work' = work
        \/ work[r] \in Executing /\ \E to : work' = [work EXCEPT ![r] = to]
        \/ \E to \in {"condemned", "absent"} : work' = [work EXCEPT ![r] = to]
    BY <1>4 DEF PodStep, PodStarts, PodSucceeds, PodCrashes, PodOOMKilled, Executing,
                JobConditionSet, WorkloadLost, PodReaped, WorkMoves, DeletedWork
  <2>3. \A q \in Runs : work'[q] \in Executing => work[q] \in Executing
    BY <2>2 DEF TypeOK, Executing
  <2> QED BY <2>1, <2>3, ClusterCore
<1>5. ASSUME NEW e \in Executors, PassStep(e) \/ JobStep(e) \/ FaultStep(e)
      PROVE Core'
  <2>1. \A x \in Executors : x = e BY DEF SoleExecutor
  <2> QED
    BY <1>5, <2>1, PassCore, LaunchCore, TeardownCore, WatchCore, AbandonCore DEF JobStep
<1> QED BY <1>1, <1>2, <1>3, <1>4, <1>5 DEF Next

----------------------------------------------------------------------------
(* Capacity: only a binding adds a job to those allocated, one that fits *)

LEMMA AllocationFits ==
  ASSUME TypeOK, Core, SoleExecutor, [Next]_vars, Cardinality(Allocated) <= Slots
  PROVE  Cardinality(Allocated') <= Slots
<1>0. /\ row \in [Jobs -> Row] /\ IsFiniteSet(Allocated) /\ Cardinality(Allocated) \in Nat
  <2>1. Allocated \in SUBSET Jobs BY DEF Allocated
  <2> QED BY <2>1, ExecutorAssumption, FS_Subset, FS_CardinalityType DEF TypeOK
<1>1. ASSUME Allocated' \subseteq Allocated PROVE Cardinality(Allocated') <= Slots
  <2>1. Cardinality(Allocated') <= Cardinality(Allocated) /\ Cardinality(Allocated') \in Nat
    BY <1>0, <1>1, FS_Subset, FS_CardinalityType
  <2> QED BY <1>0, <2>1, ExecutorAssumption
<1>2. ASSUME NEW k, Allocated' \subseteq Allocated \cup {k}, Fits
      PROVE  Cardinality(Allocated') <= Slots
  <2>1. /\ IsFiniteSet(Allocated \cup {k})
        /\ Cardinality(Allocated \cup {k}) <= Cardinality(Allocated) + 1
    BY <1>0, FS_AddElement
  <2>2. /\ Cardinality(Allocated') <= Cardinality(Allocated \cup {k})
        /\ Cardinality(Allocated') \in Nat /\ Cardinality(Allocated \cup {k}) \in Nat
    BY <1>2, <2>1, FS_Subset, FS_CardinalityType
  <2> QED BY <1>0, <1>2, <2>1, <2>2, ExecutorAssumption DEF Fits
<1>3. CASE row' = row BY <1>1, <1>3 DEF Allocated
<1>4. ASSUME NEW j \in Jobs, SubmitJob(j) \/ CancelJob(j)
      PROVE  Cardinality(Allocated') <= Slots
  <2>1. /\ \A k \in Jobs : row'[k].bound = row[k].bound
        /\ \A k \in Jobs \ {j} : row'[k].state = row[k].state
        /\ row'[j].state \in OccupyingStates => row[j].state \in OccupyingStates
    BY <1>0, <1>4 DEF Row, SubmitJob, CancelJob, OccupyingStates, CancelNeedsExecutor
  <2> QED BY <1>1, <2>1 DEF Allocated
<1>5. ASSUME NEW e \in Executors, NEW j \in Jobs, ConsiderRetry(e, j)
      PROVE  Cardinality(Allocated') <= Slots
  <2>1. row[j].state = "FAILED"
    BY <1>5 DEF ConsiderRetry, Core, Lists
  <2>2. row'[j].state \in {"FAILED", "QUEUED"} /\ \A k \in Jobs \ {j} : row'[k] = row[k]
    BY <1>0, <1>5, <2>1 DEF ConsiderRetry, NextAttempt, NoRow, Row
  <2> QED BY <1>1, <2>2 DEF Allocated, OccupyingStates
<1>6. ASSUME NEW e \in Executors, NEW j \in Jobs, ClaimNextJob(e, j)
      PROVE  Cardinality(Allocated') <= Slots
  <2>1. row[j].bound = FALSE
    BY <1>0, <1>6 DEF ClaimNextJob, Claimable, Core, RowsCoherent, Row
  <2>2. row'[j].bound = FALSE /\ \A k \in Jobs \ {j} : row'[k] = row[k]
    BY <1>0, <1>6, <2>1 DEF ClaimNextJob, Row
  <2> QED BY <1>1, <2>2 DEF Allocated
<1>7. ASSUME NEW e \in Executors, BindJob(e) PROVE Cardinality(Allocated') <= Slots
  <2>1. Fits /\ \A k \in Jobs \ {cur[e]} : row'[k] = row[k]
    BY <1>0, <1>7 DEF BindJob
  <2>2. Allocated' \subseteq Allocated \cup {cur[e]} BY <2>1 DEF Allocated
  <2> QED BY <1>2, <2>1, <2>2
<1>8. ASSUME NEW e \in Executors,
             RequeueJob(e) \/ MarkLaunched(e) \/ FinishCancellation(e) \/ RecordObservation(e)
      PROVE  Cardinality(Allocated') <= Slots
  <2> DEFINE j == cur[e]
  <2>1. j \in Jobs /\ Holds(e)
    BY <1>8 DEF RequeueJob, MarkLaunched, FinishCancellation, RecordObservation, At, Core, TypeOK
  <2>2. row[j].state \in OccupyingStates
    BY <1>8, <2>1
    DEF RequeueJob, MarkLaunched, FinishCancellation, RecordObservation, At, Holds,
        Launching, Stopping, Watching, OccupyingStates
  <2>3. /\ row'[j].bound => row[j].bound
        /\ \A k \in Jobs \ {j} : row'[k] = row[k]
    BY <1>0, <1>8, <2>1
    DEF RequeueJob, MarkLaunched, FinishCancellation, RecordObservation, Row
  <2> QED BY <1>1, <2>1, <2>2, <2>3 DEF Allocated
<1> QED
  BY <1>3, <1>4, <1>5, <1>6, <1>7, <1>8
  DEF Next, vars, PassStep, JobStep, PodStep, PodStarts, PodSucceeds, PodCrashes,
      PodOOMKilled, JobConditionSet, WorkloadLost, PodReaped, WorkMoves, GraceEnds,
      ListJobsToReconcile, ListRows, ReconcileJob, ListRetryDecisions, StartClaiming, EndPass,
      RereadJob, IssueRunToken, CreateWorkload, DeleteWorkload, ObserveJob,
      ExpireRunTokens, CallFails, Crash, RulingFails, FaultStep

----------------------------------------------------------------------------
(* Theorems *)

(* With one executor, every snapshot, list and workload agrees with the    *)
(* rows up to a user's cancel, at every step of every pass.                *)
THEOREM Inductive == SoleExecutor => (Spec => []IInv)
<1>1. Init => IInv
  <2> SUFFICES ASSUME Init PROVE IInv
    OBVIOUS
  <2>1. TypeOK
    BY ExecutorAssumption, NullsTyped, ListingsAreCopies DEF Init, TypeOK, WorkStates, PassPhases, Labels
  <2>2. Backed /\ RowsCoherent
    BY DEF Init, Backed, RowsCoherent, Executing, NoRow
  <2>3. \A e \in Executors : Lists(e) /\ Holds(e)
    BY DEF Init, Lists, Holds, Launching, Stopping, Watching
  <2>4. Allocated = {} BY DEF Init, Allocated, NoRow
  <2> QED
    BY <2>1, <2>2, <2>3, <2>4, FS_EmptySet, ExecutorAssumption DEF IInv, Core
<1>2. SoleExecutor /\ IInv /\ [Next]_vars => IInv'
  <2> SUFFICES ASSUME SoleExecutor, IInv, [Next]_vars PROVE IInv'
    OBVIOUS
  <2>1. TypeOK' BY TypeStep DEF IInv
  <2>2. Core' BY CoreStep DEF IInv
  <2>3. Cardinality(Allocated') <= Slots BY AllocationFits DEF IInv
  <2> QED BY <2>1, <2>2, <2>3 DEF IInv
<1> QED
  <2> SUFFICES ASSUME SoleExecutor PROVE Spec => []IInv
    OBVIOUS
  <2>1. IInv /\ [Next]_vars => IInv' BY <1>2
  <2> QED BY <1>1, <2>1, PTL DEF Spec

(* No workload executes that the rows do not account for: launching,       *)
(* watching and cancelling never lose one, whatever calls fail or crash.   *)
THEOREM NothingOrphaned == SoleExecutor => (Spec => []NoOrphan)
<1>1. IInv => NoOrphan BY DEF IInv, Core, Backed, NoOrphan
<1> QED BY <1>1, Inductive, PTL

(* Once a job is CANCELLED no workload of it executes.                     *)
THEOREM CancelledAreGone == SoleExecutor => (Spec => []CancelledIsGone)
<1>1. IInv => CancelledIsGone
  BY DEF IInv, Core, Backed, CancelledIsGone, OccupyingStates
<1> QED BY <1>1, Inductive, PTL

(* considerRetry records verdicts on failures only, so a requeued job is   *)
(* never excluded from the driver's next sweep.                            *)
THEOREM VerdictsOnFailures == SoleExecutor => (Spec => []VerdictOnlyOnFailure)
<1>1. IInv => VerdictOnlyOnFailure
  BY DEF IInv, Core, RowsCoherent, VerdictOnlyOnFailure
<1> QED BY <1>1, Inductive, PTL

(* A placement made from a count is never oversubscribed: neither by the   *)
(* rows nor by the workloads that execute.                                 *)
THEOREM CapacityKept == SoleExecutor => (Spec => []WithinSlots)
<1> DEFINE Live == {r \in Runs : work[r] \in Executing}
<1>1. ASSUME IInv PROVE WithinSlots
  <2>1. IsFiniteSet(Allocated) /\ Cardinality(Allocated) \in Nat
    <3>1. Allocated \in SUBSET Jobs BY DEF Allocated
    <3> QED BY <3>1, ExecutorAssumption, FS_Subset, FS_CardinalityType
  <2>2. \A r \in Live : r[1] \in Allocated
    BY <1>1 DEF IInv, Core, Backed, Allocated, Runs
  <2>3. \A r, q \in Live : r[1] = q[1] => r = q
    BY <1>1 DEF IInv, Core, Backed, Runs
  <2>4. [r \in Live |-> r[1]] \in Injection(Live, Allocated)
    BY <2>2, <2>3 DEF Injection, IsInjective
  <2>5. Cardinality(Live) <= Cardinality(Allocated) /\ Cardinality(Live) \in Nat
    BY <2>1, <2>4, FS_Injection, FS_CardinalityType
  <2> QED BY <1>1, <2>1, <2>5, ExecutorAssumption DEF IInv, WithinSlots
<1> QED BY <1>1, Inductive, PTL

----------------------------------------------------------------------------
(* Finality, for any number of replicas *)

LEMMA TerminalStates == Terminal = {"SUCCEEDED", "CANCELLED"}
BY DEF Terminal, NextStates, JobStates

(* An outcome is never overwritten: every replica re-reads the row under   *)
(* its lock, so what it copied, listed or observed earlier cannot undo it. *)
THEOREM SettledStaysSettled == Spec => SettledIsFinal
<1>1. ASSUME TypeOK, [Next]_vars, NEW j \in Jobs, row[j].state \in {"SUCCEEDED", "CANCELLED"}
      PROVE  row'[j].state = row[j].state /\ row'[j].attempt = row[j].attempt
  <2>1. row \in [Jobs -> Row] /\ row[j] \in Row BY <1>1 DEF TypeOK
  <2>2. CASE row' = row BY <2>2
  <2>3. ASSUME NEW k \in Jobs, SubmitJob(k) \/ CancelJob(k) PROVE row'[j] = row[j]
    BY <1>1, <2>1, <2>3 DEF SubmitJob, CancelJob, CancelNeedsExecutor
  <2>4. ASSUME NEW e \in Executors, NEW k \in Jobs, ConsiderRetry(e, k) PROVE row'[j].state = row[j].state /\ row'[j].attempt = row[j].attempt
    BY <1>1, <2>1, <2>4 DEF ConsiderRetry, Verdict, Row
  <2>5. ASSUME NEW e \in Executors, NEW k \in Jobs, ClaimNextJob(e, k) PROVE row'[j] = row[j]
    BY <1>1, <2>1, <2>5 DEF ClaimNextJob, Claimable
  <2>6. ASSUME NEW e \in Executors, BindJob(e) PROVE row'[j].state = row[j].state /\ row'[j].attempt = row[j].attempt
    BY <1>1, <2>1, <2>6 DEF BindJob, Row
  <2>7. ASSUME NEW e \in Executors,
               RequeueJob(e) \/ MarkLaunched(e) \/ FinishCancellation(e)
        PROVE  row'[j] = row[j]
    BY <1>1, <2>1, <2>7 DEF RequeueJob, MarkLaunched, FinishCancellation
  <2>8. ASSUME NEW e \in Executors, RecordObservation(e) PROVE row'[j] = row[j]
    <3>1. \A obs : AfterObservation(row[j].state, obs) = row[j].state
      BY <1>1 DEF AfterObservation, Outcomes, CanTransition, NextStates, JobStates, Failures
    <3> QED BY <2>1, <2>8, <3>1 DEF RecordObservation
  <2> QED
    BY <1>1, <2>2, <2>3, <2>4, <2>5, <2>6, <2>7, <2>8
    DEF Next, vars, PassStep, JobStep, PodStep, PodStarts, PodSucceeds, PodCrashes,
        PodOOMKilled, JobConditionSet, WorkloadLost, PodReaped, WorkMoves, GraceEnds,
        ListJobsToReconcile, ListRows, ReconcileJob, ListRetryDecisions, StartClaiming, EndPass,
        RereadJob, IssueRunToken, CreateWorkload, DeleteWorkload, ObserveJob,
        ExpireRunTokens, CallFails, Crash, RulingFails, FaultStep
<1>2. TypeOK /\ [Next]_vars =>
        [\A j \in Jobs : row[j].state \in Terminal =>
           row'[j].state = row[j].state /\ row'[j].attempt = row[j].attempt]_vars
  BY <1>1, TerminalStates
<1> QED BY <1>2, TypeCorrect, PTL DEF Spec, SettledIsFinal

----------------------------------------------------------------------------
(* What is reported: results that were observed, by the attempt in charge *)

(* Which steps write what these invariants relate *)
LEMMA WritersOfWork ==
  ASSUME [Next]_vars
  PROVE  \/ UNCHANGED <<work, completed>>
         \/ \E r \in Runs : PodStep(r)
         \/ \E e \in Executors : CreateWorkload(e) \/ DeleteWorkload(e)
<1>1. ASSUME NEW j \in Jobs, SubmitJob(j) \/ CancelJob(j) \/ GraceEnds(j)
      PROVE  UNCHANGED <<work, completed>>
  BY <1>1 DEF SubmitJob, CancelJob, GraceEnds, cluster
<1>2. ASSUME NEW e \in Executors, PassStep(e) PROVE UNCHANGED <<work, completed>>
  BY <1>2 DEF PassStep, ListJobsToReconcile, ListRows, ReconcileJob, ListRetryDecisions,
              ConsiderRetry, StartClaiming, ClaimNextJob, EndPass, cluster
<1>3. ASSUME NEW e \in Executors, JobStep(e), ~CreateWorkload(e), ~DeleteWorkload(e)
      PROVE  UNCHANGED <<work, completed>>
  BY <1>3 DEF JobStep, BindJob, RequeueJob, RereadJob, IssueRunToken, MarkLaunched,
              FinishCancellation, ObserveJob, RecordObservation, ExpireRunTokens, cluster
<1>4. ASSUME NEW e \in Executors, FaultStep(e) PROVE UNCHANGED <<work, completed>>
  BY <1>4 DEF FaultStep, CallFails, Crash, RulingFails, cluster
<1>5. CASE UNCHANGED vars BY <1>5 DEF vars
<1> QED BY <1>1, <1>2, <1>3, <1>4, <1>5 DEF Next

LEMMA WritersOfTokens ==
  ASSUME [Next]_vars
  PROVE  \/ valid' \subseteq valid
         \/ \E e \in Executors : CreateWorkload(e)
<1>1. ASSUME NEW j \in Jobs, SubmitJob(j) \/ CancelJob(j) \/ GraceEnds(j)
      PROVE  valid' \subseteq valid
  BY <1>1 DEF SubmitJob, CancelJob, GraceEnds, NoLiveToken, tokens
<1>2. ASSUME NEW e \in Executors, PassStep(e) PROVE valid' \subseteq valid
  BY <1>2 DEF PassStep, ListJobsToReconcile, ListRows, ReconcileJob, ListRetryDecisions,
              ConsiderRetry, StartClaiming, ClaimNextJob, EndPass, tokens
<1>3. ASSUME NEW e \in Executors, JobStep(e), ~CreateWorkload(e) PROVE valid' \subseteq valid
  BY <1>3 DEF JobStep, BindJob, RequeueJob, RereadJob, IssueRunToken, NoLiveToken, MarkLaunched,
              FinishCancellation, DeleteWorkload, ObserveJob, RecordObservation,
              ExpireRunTokens, tokens
<1>4. ASSUME NEW e \in Executors, FaultStep(e) PROVE valid' \subseteq valid
  BY <1>4 DEF FaultStep, CallFails, Crash, RulingFails, tokens
<1>5. ASSUME NEW r \in Runs, PodStep(r) PROVE valid' \subseteq valid
  BY <1>5 DEF PodStep, PodStarts, PodSucceeds, PodCrashes, PodOOMKilled, JobConditionSet,
              WorkloadLost, PodReaped, WorkMoves, tokens
<1>6. CASE UNCHANGED vars BY <1>6 DEF vars
<1> QED BY <1>1, <1>2, <1>3, <1>4, <1>5, <1>6 DEF Next

LEMMA WritersOfRows ==
  ASSUME [Next]_vars
  PROVE  \/ UNCHANGED row
         \/ \E j \in Jobs : SubmitJob(j) \/ CancelJob(j)
         \/ \E e \in Executors, j \in Jobs : ConsiderRetry(e, j) \/ ClaimNextJob(e, j)
         \/ \E e \in Executors : \/ BindJob(e) \/ RequeueJob(e) \/ MarkLaunched(e)
                                 \/ FinishCancellation(e) \/ RecordObservation(e)
<1> QED
  BY DEF Next, vars, PassStep, JobStep, FaultStep, PodStep, PodStarts, PodSucceeds,
         PodCrashes, PodOOMKilled, JobConditionSet, WorkloadLost, PodReaped, WorkMoves,
         GraceEnds, ListJobsToReconcile, ListRows, ReconcileJob, ListRetryDecisions,
         StartClaiming, EndPass, RereadJob, IssueRunToken, CreateWorkload, DeleteWorkload,
         ObserveJob, ExpireRunTokens, CallFails, Crash, RulingFails

(* An attempt number moves only when a verdict grants the next attempt,    *)
(* between two jobs of a pass.                                             *)
LEMMA AttemptMoves ==
  ASSUME TypeOK, [Next]_vars, NEW j \in Jobs, row'[j].attempt # row[j].attempt
  PROVE  /\ \E e \in Executors : pc[e] = "next"
         /\ UNCHANGED <<work, completed, valid, pc, cur, seen>>
         /\ row'[j].attempt = row[j].attempt + 1 /\ row'[j].state = "QUEUED"
<1>0. row \in [Jobs -> Row] /\ row[j] \in Row BY DEF TypeOK
<1>1. ASSUME NEW k \in Jobs, SubmitJob(k) \/ CancelJob(k) PROVE FALSE
  BY <1>0, <1>1 DEF SubmitJob, CancelJob, Row
<1>2. ASSUME NEW e \in Executors, NEW k \in Jobs, ClaimNextJob(e, k) PROVE FALSE
  BY <1>0, <1>2 DEF ClaimNextJob, Row
<1>3. ASSUME NEW e \in Executors,
             \/ BindJob(e) \/ RequeueJob(e) \/ MarkLaunched(e)
             \/ FinishCancellation(e) \/ RecordObservation(e)
      PROVE  FALSE
  BY <1>0, <1>3
  DEF BindJob, RequeueJob, MarkLaunched, FinishCancellation, RecordObservation, Row
<1>4. ASSUME NEW e \in Executors, NEW k \in Jobs, ConsiderRetry(e, k)
      PROVE  /\ pc[e] = "next" /\ UNCHANGED <<work, completed, valid, pc, cur, seen>>
             /\ row'[j].attempt = row[j].attempt + 1 /\ row'[j].state = "QUEUED"
  <2>1. pc[e] = "next" /\ UNCHANGED <<work, completed, valid, pc, cur, seen>>
    BY <1>4 DEF ConsiderRetry, Idling, cluster, tokens
  <2>2. \/ row' = row \/ row' = [row EXCEPT ![k] = NextAttempt(row[k])]
        \/ row' = [row EXCEPT ![k].decision = Verdict(row[k])]
    BY <1>4 DEF ConsiderRetry
  <2>3. row' = [row EXCEPT ![k] = NextAttempt(row[k])] /\ j = k
    BY <1>0, <2>2 DEF Row
  <2>4. row'[j] = NextAttempt(row[j]) BY <1>0, <2>3
  <2>5. NextAttempt(row[j]).attempt = row[j].attempt + 1 /\ NextAttempt(row[j]).state = "QUEUED"
    BY DEF NextAttempt, NoRow
  <2> QED BY <2>1, <2>4, <2>5
<1> QED BY <1>1, <1>2, <1>3, <1>4, WritersOfRows

(* A row says of a job that it was launched or succeeded only from such a  *)
(* state, or by the launch, or by an observation.                          *)
LEMMA ReportMoves ==
  ASSUME TypeOK, Core, [Next]_vars, NEW j \in Jobs,
         row'[j].state \in {"STARTING", "RUNNING", "SUCCEEDED"}, row'[j].state # row[j].state
  PROVE  /\ \/ row[j].state \in {"STARTING", "RUNNING"}
            \/ \E e \in Executors : pc[e] = "mark" /\ cur[e] = j
         /\ row'[j].state = "SUCCEEDED" =>
              \E e \in Executors : pc[e] = "record" /\ seen[e] = "succeeded" /\ cur[e] = j
         /\ UNCHANGED <<work, valid, completed>>
<1>0. row \in [Jobs -> Row] /\ row[j] \in Row BY DEF TypeOK
<1>1. ASSUME NEW k \in Jobs, SubmitJob(k) \/ CancelJob(k) PROVE FALSE
  BY <1>0, <1>1 DEF SubmitJob, CancelJob, Row
<1>2. ASSUME NEW e \in Executors, NEW k \in Jobs, ClaimNextJob(e, k) \/ ConsiderRetry(e, k)
      PROVE  FALSE
  <2>1. CASE ClaimNextJob(e, k) BY <1>0, <2>1 DEF ClaimNextJob, Row
  <2>2. CASE ConsiderRetry(e, k)
    <3>1. \/ row' = row \/ row' = [row EXCEPT ![k] = NextAttempt(row[k])]
          \/ row' = [row EXCEPT ![k].decision = Verdict(row[k])]
      BY <2>2 DEF ConsiderRetry
    <3>2. \A r \in Row : NextAttempt(r).state = "QUEUED" BY DEF NextAttempt, NoRow
    <3> QED BY <1>0, <3>1, <3>2 DEF Row
  <2> QED BY <1>2, <2>1, <2>2
<1>3. ASSUME NEW e \in Executors, BindJob(e) \/ RequeueJob(e) \/ FinishCancellation(e) PROVE FALSE
  BY <1>0, <1>3 DEF BindJob, RequeueJob, FinishCancellation, Row
<1>4. ASSUME NEW e \in Executors, MarkLaunched(e)
      PROVE  /\ pc[e] = "mark" /\ cur[e] = j /\ row'[j].state = "STARTING"
             /\ UNCHANGED <<work, valid, completed>>
  BY <1>0, <1>4 DEF MarkLaunched, At, cluster, tokens, Row
<1>5. ASSUME NEW e \in Executors, RecordObservation(e)
      PROVE  /\ row[j].state \in {"STARTING", "RUNNING"}
             /\ row'[j].state = "SUCCEEDED" =>
                  pc[e] = "record" /\ seen[e] = "succeeded" /\ cur[e] = j
             /\ UNCHANGED <<work, valid, completed>>
  <2> DEFINE after == AfterObservation(row[cur[e]].state, seen[e])
  <2>1. pc[e] = "record" /\ UNCHANGED <<work, valid, completed>>
    BY <1>5 DEF RecordObservation, At, cluster, tokens
  <2>2. cur[e] \in Jobs /\ row[cur[e]].state \in {"STARTING", "RUNNING", "CANCELLING"}
    BY <2>1 DEF Core, Holds, Watching, TypeOK
  <2>3. \/ row' = row
        \/ \E f : row' = [row EXCEPT ![cur[e]].state = after, ![cur[e]].failure = f]
    BY <1>5 DEF RecordObservation
  <2>4. cur[e] = j /\ row'[j].state = after
    <3> HIDE DEF after
    <3>1. PICK f : row' = [row EXCEPT ![cur[e]].state = after, ![cur[e]].failure = f]
      BY <2>3
    <3> QED BY <1>0, <2>2, <3>1 DEF Row
  <2>5. after = "SUCCEEDED" => seen[e] = "succeeded"
    <3>1. ASSUME NEW st \in {"STARTING", "RUNNING", "CANCELLING"}, NEW obs,
                 AfterObservation(st, obs) = "SUCCEEDED"
          PROVE  obs = "succeeded"
      BY <3>1 DEF AfterObservation
    <3> QED BY <2>2, <3>1
  <2>6. AfterObservation("CANCELLING", seen[e]) = "CANCELLING"
    BY DEF AfterObservation, CanTransition, NextStates, JobStates, Failures
  <2>7. row[j].state # "CANCELLING" BY <2>4, <2>6
  <2> QED BY <2>1, <2>2, <2>4, <2>5, <2>7
<1> QED BY <1>1, <1>2, <1>3, <1>4, <1>5, WritersOfRows

(* What a step does to the workloads: one appears only by a launch, one    *)
(* succeeds only by having run to success, and that is never forgotten.    *)
LEMMA WorkloadMoves ==
  ASSUME TypeOK, Core, [Next]_vars
  PROVE  /\ completed \subseteq completed'
         /\ \A r \in Runs : work'[r] = "succeeded" => work[r] = "succeeded" \/ r \in completed'
         /\ \/ \A r \in Runs : work[r] = "absent" => work'[r] = "absent"
            \/ \E e \in Executors :
                 /\ pc[e] = "create" /\ cur[e] \in Jobs
                 /\ UNCHANGED <<row, completed>>
                 /\ \A r \in Runs : work[r] = "absent" =>
                      work'[r] = "absent" \/ r = <<cur[e], row[cur[e]].attempt>>
<1>0. work \in [Runs -> WorkStates] BY DEF TypeOK
<1>1. CASE UNCHANGED <<work, completed>> BY <1>1
<1>2. ASSUME NEW r \in Runs, PodStep(r)
      PROVE  /\ completed \subseteq completed'
             /\ \A q \in Runs : work'[q] = "succeeded" => work[q] = "succeeded" \/ q \in completed'
             /\ \A q \in Runs : work[q] = "absent" => work'[q] = "absent"
  <2>1. CASE PodStarts(r) \/ PodCrashes(r) \/ PodOOMKilled(r) \/ JobConditionSet(r)
    BY <1>0, <2>1 DEF PodStarts, PodCrashes, PodOOMKilled, JobConditionSet, WorkMoves, Executing
  <2>2. CASE PodSucceeds(r) BY <1>0, <2>2 DEF PodSucceeds, WorkMoves
  <2>3. CASE WorkloadLost(r) BY <1>0, <2>3 DEF WorkloadLost, DeletedWork
  <2>4. CASE PodReaped(r) BY <2>4 DEF PodReaped
  <2> QED BY <1>2, <2>1, <2>2, <2>3, <2>4 DEF PodStep
<1>3. ASSUME NEW e \in Executors, DeleteWorkload(e)
      PROVE  /\ completed \subseteq completed'
             /\ \A q \in Runs : work'[q] = "succeeded" => work[q] = "succeeded"
             /\ \A q \in Runs : work[q] = "absent" => work'[q] = "absent"
  BY <1>0, <1>3 DEF DeleteWorkload, DeletedWork
<1>4. ASSUME NEW e \in Executors, CreateWorkload(e)
      PROVE  /\ UNCHANGED <<row, completed>> /\ pc[e] = "create" /\ cur[e] \in Jobs
             /\ \A q \in Runs : work'[q] = "succeeded" => work[q] = "succeeded"
             /\ \A q \in Runs : work[q] = "absent" =>
                  work'[q] = "absent" \/ q = <<cur[e], row[cur[e]].attempt>>
  <2>1. /\ UNCHANGED <<row, completed>> /\ pc[e] = "create"
        /\ work' = work \/ work' = [work EXCEPT ![<<cur[e], snap[e].attempt>>] = "pending"]
    BY <1>4 DEF CreateWorkload, At
  <2>2. cur[e] \in Jobs /\ snap[e].attempt = row[cur[e]].attempt
    BY <2>1 DEF Core, Holds, Launching
  <2> QED BY <1>0, <2>1, <2>2
<1> QED BY <1>1, <1>2, <1>3, <1>4, WritersOfWork

(* A token becomes live only with the workload of the attempt in charge.   *)
LEMMA TokenMoves ==
  ASSUME TypeOK, Core, [Next]_vars
  PROVE  \/ valid' \subseteq valid
         \/ \E e \in Executors : /\ cur[e] \in Jobs /\ UNCHANGED row
                                 /\ valid' \subseteq valid \cup {<<cur[e], row[cur[e]].attempt>>}
<1>1. ASSUME NEW e \in Executors, CreateWorkload(e)
      PROVE  /\ cur[e] \in Jobs /\ UNCHANGED row
             /\ valid' \subseteq valid \cup {<<cur[e], row[cur[e]].attempt>>}
  <2>1. /\ UNCHANGED row /\ pc[e] = "create"
        /\ valid' \subseteq valid \cup {<<cur[e], snap[e].attempt>>}
    BY <1>1 DEF CreateWorkload, At
  <2>2. cur[e] \in Jobs /\ snap[e].attempt = row[cur[e]].attempt
    BY <2>1 DEF Core, Holds, Launching
  <2> QED BY <2>1, <2>2
<1> QED BY <1>1, WritersOfTokens

(* What an executor comes to believe: it launches only after minting, and  *)
(* it has seen a success only in the cluster.                              *)
LEMMA BeliefMoves ==
  ASSUME TypeOK, Core, [Next]_vars, NEW e \in Executors, \A x \in Executors : x = e
  PROVE  /\ pc'[e] \in {"create", "mark"} =>
              /\ cur'[e] = cur[e]
              /\ pc[e] \in {"create", "mark"} \/ \A r \in valid' : r[1] # cur[e]
         /\ pc'[e] = "record" /\ seen'[e] = "succeeded" =>
              /\ cur'[e] = cur[e]
              /\ \/ pc[e] = "record" /\ seen[e] = "succeeded"
                 \/ work[<<cur[e], row[cur[e]].attempt>>] = "succeeded"
<1> DEFINE Launches == /\ cur'[e] = cur[e]
                       /\ pc[e] \in {"create", "mark"} \/ \A r \in valid' : r[1] # cur[e]
           Sees == /\ cur'[e] = cur[e]
                   /\ \/ pc[e] = "record" /\ seen[e] = "succeeded"
                      \/ work[<<cur[e], row[cur[e]].attempt>>] = "succeeded"
           Elsewhere == pc'[e] \notin {"create", "mark", "record"}
<1>0. pc \in [Executors -> Labels] BY DEF TypeOK
<1>1. CASE UNCHANGED <<pc, cur, seen>> BY <1>1
<1>2. ASSUME PassStep(e), ~UNCHANGED <<pc, cur, seen>> PROVE Elsewhere
  <2>1. ASSUME NEW j \in Jobs, ReconcileJob(e, j) \/ ClaimNextJob(e, j) PROVE Elsewhere
    BY <1>0, <2>1 DEF ReconcileJob, ClaimNextJob, Goto, PlacedOrNot
  <2> QED
    BY <1>2, <2>1 DEF PassStep, ListJobsToReconcile, ListRows, ListRetryDecisions, ConsiderRetry,
                      StartClaiming, EndPass
<1>3. ASSUME \/ BindJob(e) \/ RequeueJob(e) \/ RereadJob(e) \/ MarkLaunched(e)
             \/ DeleteWorkload(e) \/ FinishCancellation(e) \/ RecordObservation(e)
             \/ ExpireRunTokens(e) \/ CallFails(e) \/ Crash(e)
      PROVE  Elsewhere
  BY <1>0, <1>3
  DEF BindJob, RequeueJob, RereadJob, MarkLaunched, DeleteWorkload, FinishCancellation,
      RecordObservation, ExpireRunTokens, CallFails, Crash, Done, GiveUp, Goto
<1>4. CASE IssueRunToken(e)
  <2>1. pc'[e] = "create" /\ cur' = cur /\ \A r \in valid' : r[1] # cur[e]
    BY <1>0, <1>4 DEF IssueRunToken, Goto, NoLiveToken
  <2> QED BY <2>1
<1>5. CASE CreateWorkload(e)
  <2>1. pc'[e] = "mark" /\ cur' = cur /\ pc[e] = "create"
    BY <1>0, <1>5 DEF CreateWorkload, Goto, At
  <2> QED BY <2>1
<1>6. CASE ObserveJob(e)
  <2>1. /\ pc[e] = "observe" /\ pc'[e] = "record" /\ cur' = cur
        /\ seen'[e] = Observation(work[<<cur[e], NameOf(snap[e])>>])
    BY <1>0, <1>6 DEF ObserveJob, Goto, At, TypeOK
  <2>2. /\ cur[e] \in Jobs /\ snap[e].attempt = row[cur[e]].attempt
        /\ snap[e].name \in {NoName, snap[e].attempt}
    BY <2>1 DEF Core, Holds, Watching
  <2>3. NameOf(snap[e]) = row[cur[e]].attempt BY <2>2, NamesTheAttempt DEF Core
  <2>4. \A w : Observation(w) = "succeeded" => w = "succeeded" BY DEF Observation
  <2> QED BY <2>1, <2>3, <2>4
<1>7. ASSUME NEW j \in Jobs, RulingFails(e, j) PROVE UNCHANGED <<pc, cur, seen>>
  BY <1>7 DEF RulingFails
<1>8. ASSUME NEW r \in Runs, PodStep(r) PROVE UNCHANGED <<pc, cur, seen>>
  BY <1>8 DEF PodStep, PodStarts, PodSucceeds, PodCrashes, PodOOMKilled, JobConditionSet,
              WorkloadLost, PodReaped, WorkMoves, control
<1>9. ASSUME NEW j \in Jobs, SubmitJob(j) \/ CancelJob(j) \/ GraceEnds(j)
      PROVE  UNCHANGED <<pc, cur, seen>>
  BY <1>9 DEF SubmitJob, CancelJob, GraceEnds, control
<1>10. UNCHANGED vars => UNCHANGED <<pc, cur, seen>> BY DEF vars
<1>11. \A x \in Executors : PassStep(x) \/ JobStep(x) \/ FaultStep(x) =>
                              PassStep(e) \/ JobStep(e) \/ FaultStep(e)
  OBVIOUS
<1> QED
  BY <1>1, <1>2, <1>3, <1>4, <1>5, <1>6, <1>7, <1>8, <1>9, <1>10, <1>11
  DEF Next, JobStep, FaultStep

LEMMA ReportStep ==
  ASSUME SoleExecutor, TypeOK, TypeOK', Core, ReportInv, [Next]_vars
  PROVE  ReportInv'
<1>0. /\ row \in [Jobs -> Row] /\ row' \in [Jobs -> Row] /\ valid \subseteq Runs /\ valid' \subseteq Runs
      /\ \A j \in Jobs : row[j].attempt \in 0 .. MaxRetries /\ row'[j].attempt \in 0 .. MaxRetries
      /\ \A r \in Runs : r[1] \in Jobs /\ r[2] \in 0 .. MaxRetries
      /\ MaxRetries \in Nat
  BY ExecutorAssumption DEF TypeOK, Row, Attempts, Runs
<1>1. \A e \in Executors : \A x \in Executors : x = e BY DEF SoleExecutor
<1>2. ASSUME NEW j \in Jobs, row'[j].attempt # row[j].attempt
      PROVE  /\ UNCHANGED <<work, completed, valid, pc, cur, seen>>
             /\ \A e \in Executors : pc[e] = "next"
             /\ row'[j].attempt = row[j].attempt + 1 /\ row'[j].state = "QUEUED"
  BY <1>1, <1>2, AttemptMoves
<1>3. Truthful'
  <2>1. ASSUME NEW r \in Runs, work'[r] = "succeeded" PROVE r \in completed'
    BY <2>1, WorkloadMoves DEF ReportInv, Truthful
  <2>2. ASSUME NEW e \in Executors, pc'[e] = "record", seen'[e] = "succeeded"
        PROVE  <<cur'[e], row'[cur'[e]].attempt>> \in completed'
    <3>1. cur'[e] = cur[e] /\ cur[e] \in Jobs
      BY <1>1, <2>2, BeliefMoves DEF TypeOK
    <3>2. row'[cur[e]].attempt = row[cur[e]].attempt BY <1>2, <2>2, <3>1
    <3>3. <<cur[e], row[cur[e]].attempt>> \in Runs BY <1>0, <3>1 DEF Runs, Attempts
    <3>4. <<cur[e], row[cur[e]].attempt>> \in completed
      BY <1>1, <2>2, <3>3, BeliefMoves DEF ReportInv, Truthful
    <3> QED BY <3>1, <3>2, <3>4, WorkloadMoves
  <2> QED BY <2>1, <2>2 DEF Truthful
<1>4. ResultsObserved'
  <2> SUFFICES ASSUME NEW j \in Jobs, row'[j].state = "SUCCEEDED"
               PROVE  <<j, row'[j].attempt>> \in completed'
    BY DEF ResultsObserved
  <2>1. row'[j].attempt = row[j].attempt BY <1>2
  <2>2. CASE row[j].state = "SUCCEEDED"
    BY <2>1, <2>2, WorkloadMoves DEF ReportInv, ResultsObserved
  <2>3. CASE row[j].state # "SUCCEEDED"
    <3>1. PICK e \in Executors : pc[e] = "record" /\ seen[e] = "succeeded" /\ cur[e] = j
      BY <2>3, ReportMoves
    <3> QED BY <2>1, <3>1, WorkloadMoves DEF ReportInv, Truthful
  <2> QED BY <2>2, <2>3
<1>5. Superseded'
  <2>1. ASSUME NEW r \in Runs, r[2] > row'[r[1]].attempt PROVE work'[r] = "absent"
    <3>1. r[2] > row[r[1]].attempt BY <1>0, <1>2, <2>1
    <3>2. work[r] = "absent" BY <3>1 DEF ReportInv, Superseded
    <3>3. \A j \in Jobs : r = <<j, row[j].attempt>> => FALSE BY <1>0, <3>1
    <3> QED BY <3>2, <3>3, WorkloadMoves
  <2>2. ASSUME NEW e \in Executors, pc'[e] \in {"create", "mark"}, NEW r \in valid', r[1] = cur'[e]
        PROVE  r[2] >= row'[cur'[e]].attempt
    <3>0. cur'[e] = cur[e] /\ pc[e] \in {"create", "mark"} BY <1>1, <2>2, BeliefMoves
    <3>1. cur'[e] = cur[e] /\ cur[e] \in Jobs /\ pc[e] \in {"create", "mark"}
      BY <3>0 DEF TypeOK
    <3>2. row'[cur[e]].attempt = row[cur[e]].attempt BY <1>2, <3>1
    <3>3. r \in valid \/ r = <<cur[e], row[cur[e]].attempt>>
      BY <1>1, <2>2, TokenMoves
    <3>4. r \in valid => r[2] >= row[cur[e]].attempt
      BY <2>2, <3>1 DEF ReportInv, Superseded
    <3>5. r = <<cur[e], row[cur[e]].attempt>> => r[2] >= row[cur[e]].attempt BY <1>0, <3>1
    <3> QED BY <3>1, <3>2, <3>3, <3>4, <3>5
  <2> QED BY <2>1, <2>2 DEF Superseded
<1>6. NoStaleReporter'
  <2> SUFFICES ASSUME NEW r \in valid', r[2] < row'[r[1]].attempt
               PROVE  /\ work'[<<r[1], row'[r[1]].attempt>>] = "absent"
                      /\ row'[r[1]].state \notin {"STARTING", "RUNNING", "SUCCEEDED"}
    BY DEF NoStaleReporter
  <2> DEFINE j == r[1]
             next == <<j, row'[j].attempt>>
  <2>1. r \in Runs /\ j \in Jobs BY <1>0
  <2>2. next \in Runs BY <1>0, <2>1 DEF Runs, Attempts
  <2>3. CASE row'[j].attempt # row[j].attempt
    <3>1. next[2] > row[next[1]].attempt BY <1>0, <1>2, <2>1, <2>3
    <3>2. work[next] = "absent" BY <2>2, <3>1 DEF ReportInv, Superseded
    <3> QED BY <1>2, <2>1, <2>3, <3>2
  <2>4. CASE row'[j].attempt = row[j].attempt
    <3>1. r \in valid
      <4>1. \A k \in Jobs : r # <<k, row[k].attempt>> BY <1>0, <2>1, <2>4
      <4> QED BY <4>1, TokenMoves
    <3>2. /\ work[next] = "absent"
          /\ row[j].state \notin {"STARTING", "RUNNING", "SUCCEEDED"}
      BY <2>4, <3>1 DEF ReportInv, NoStaleReporter
    <3>3. \A e \in Executors : pc[e] \in {"create", "mark"} => cur[e] # j
      BY <1>0, <2>1, <2>4, <3>1 DEF ReportInv, Superseded
    <3>4. work'[next] = "absent" BY <2>1, <2>2, <3>2, <3>3, WorkloadMoves
    <3>5. row'[j].state \notin {"STARTING", "RUNNING", "SUCCEEDED"}
      BY <2>1, <3>2, <3>3, ReportMoves
    <3> QED BY <3>4, <3>5
  <2> QED BY <2>3, <2>4
<1> QED BY <1>3, <1>4, <1>5, <1>6 DEF ReportInv

(* With one executor: what the rows report was observed in the cluster, of *)
(* the attempt they name, and no earlier attempt's token outlives that.    *)
THEOREM ReportsHold == SoleExecutor => (Spec => []ReportInv)
<1>1. Init => ReportInv
  BY DEF Init, ReportInv, Truthful, Superseded, ResultsObserved, NoStaleReporter, Runs, NoRow
<1>2. SoleExecutor /\ IInv /\ IInv' /\ ReportInv /\ [Next]_vars => ReportInv'
  BY ReportStep DEF IInv
<1> QED
  <2> SUFFICES ASSUME SoleExecutor PROVE Spec => []ReportInv
    OBVIOUS
  <2>1. IInv /\ IInv' /\ ReportInv /\ [Next]_vars => ReportInv' BY <1>2
  <2>2. Spec => []IInv BY Inductive
  <2> QED BY <1>1, <2>1, <2>2, PTL DEF Spec

(* No attempt is reported a success that its container did not finish with *)
(* (markWorkloadMissing and recordObservation never invent a result).      *)
THEOREM SuccessWasObserved == SoleExecutor => (Spec => []ResultsObserved)
<1>1. ReportInv => ResultsObserved BY DEF ReportInv
<1> QED BY <1>1, ReportsHold, PTL

(* A Pod of an attempt that was replaced cannot report into the new one:   *)
(* issueRunToken revokes before createJob creates.                         *)
THEOREM OldAttemptsSilenced == SoleExecutor => (Spec => []NoStaleReporter)
<1>1. ReportInv => NoStaleReporter BY DEF ReportInv
<1> QED BY <1>1, ReportsHold, PTL
=============================================================================
