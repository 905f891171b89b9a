----------------------------- MODULE Scheduler -----------------------------
(***************************************************************************)
(* Several control-plane replicas claiming queued jobs and putting them    *)
(* through services/scheduler.js: one transaction under the advisory lock  *)
(* that reads what projects and nodes hold, and binds the job to a node or *)
(* returns it to the queue.                                                *)
(*                                                                         *)
(* Statements of a transaction see what others have committed by then      *)
(* (READ COMMITTED), so the gates and the write are separate steps; the    *)
(* advisory lock is held, and the job's row locked, from the first to the  *)
(* last of them.  Every other transaction is one step on an unlocked row.  *)
(*                                                                         *)
(* What a Pod does after its launch is JobExecutor's subject: STARTING     *)
(* stands for STARTING and RUNNING, and Finish for an observed end.        *)
(***************************************************************************)
EXTENDS JobState, Integers, FiniteSets

CONSTANTS
  Jobs,            \* the jobs users may submit
  Nodes,           \* compute_nodes
  Replicas,        \* control-plane replicas
  None,            \* no node, or no job
  Project,         \* the project of each job
  Priority,        \* HIGH 0, MEDIUM 1, LOW 2
  Affords(_, _),   \* Affords(j, S): the quota gate for j, its project holding S
  Place(_, _, _),  \* Place(j, held, up): the placement gate, a node or None
  Budget,          \* sets of jobs within every project's quota
  Room,            \* Room[n]: sets of jobs node n can hold together
  MaxFaults        \* bound on failed calls, crashes, lost nodes and retries

Sharing(j) == {k \in Jobs : Project[k] = Project[j]}

(* What the gates of domain/ promise: a job that passes one may join any   *)
(* part of what the gate was shown, and none is sent to a node that is not *)
(* ready.                                                                  *)
GatesKeep(affords(_, _), place(_, _, _), budget, room) ==
  /\ room \in [Nodes -> SUBSET SUBSET Jobs]
  /\ \A n \in Nodes : {} \in room[n]
  /\ \A n \in Nodes : \A S \in room[n] : SUBSET S \subseteq room[n]
  /\ {} \in budget /\ \A S \in budget : SUBSET S \subseteq budget
  /\ \A j \in Jobs, S \in SUBSET Jobs : affords(j, S) \in BOOLEAN
  /\ \A j \in Jobs, S \in SUBSET Jobs, H \in budget :
       j \in S /\ affords(j, S) /\ H \cap Sharing(j) \subseteq S => H \cup {j} \in budget
  /\ \A j \in Jobs, held \in [Nodes -> SUBSET Jobs], up \in SUBSET Nodes :
       LET n == place(j, held, up) IN
       /\ n \in up \cup {None}
       /\ n # None => \A H \in room[n] : H \subseteq held[n] => H \cup {j} \in room[n]

ASSUME SchedulerAssumption ==
  /\ None \notin Jobs /\ None \notin Nodes
  /\ MaxFaults \in Nat
  /\ GatesKeep(Affords, Place, Budget, Room)

VARIABLES
  row,        \* training_jobs: state and scheduled_node_id of each job
  pod,        \* the node each job's Kubernetes Job is pinned to
  ready,      \* nodes the last discovery found ready
  phase,      \* where each replica is in its pass
  pc,         \* where it is in the job it is handling
  cur,        \* that job
  copy,       \* the copy of its row it is acting on
  listed,     \* rows listed for reconciliation and not yet handled
  refused,    \* jobs this pass has claimed without launching
  choice,     \* what its placement gate answered
  unchecked,  \* jobs claimed while still bound from an earlier claim
  faults      \* faults so far, for MaxFaults

control == <<phase, pc, cur, copy, listed, refused, choice>>
vars    == <<row, pod, ready, phase, pc, cur, copy, listed, refused,
             choice, unchecked, faults>>
----------------------------------------------------------------------------
(* Rows, locks and the two aggregates *)

Row    == [state : JobStates \cup {"NONE"}, node : Nodes \cup {None}]
NoRow  == [state |-> "NONE", node |-> None]

Transaction == {"quota", "place", "bind", "requeue"}

(* Both locks of scheduleJob are transaction-scoped *)
PassInFlight == \E e \in Replicas : pc[e] \in Transaction
Locked(j)    == \E e \in Replicas : pc[e] \in Transaction /\ cur[e] = j

(* projectUsage counts every occupying job, placed or not                  *)
Occupying == {j \in Jobs : row[j].state \in OccupyingStates}
Usage(j)  == Occupying \cap Sharing(j)

(* Mutant: capacity is free again before the launch is recorded *)
HeldOnceLaunched == [n \in Nodes |-> {j \in Occupying : row[j].node = n /\ row[j].state # "SCHEDULING"}]

(* clusterView: what each node has promised                                *)
Held == [n \in Nodes |-> {j \in Occupying : row[j].node = n}]

(* Mutant: the pass does not walk past what it has refused *)
ClaimableAgain(e) == {j \in Jobs : row[j].state = "QUEUED" /\ ~Locked(j)}

(* lockNextQueuedJob skips locked rows and what this pass has refused      *)
Claimable(e) == {j \in Jobs \ refused[e] : row[j].state = "QUEUED" /\ ~Locked(j)}
----------------------------------------------------------------------------
Init ==
  /\ row = [j \in Jobs |-> NoRow]
  /\ pod = [j \in Jobs |-> None]
  /\ ready = Nodes
  /\ phase = [e \in Replicas |-> "idle"]
  /\ pc = [e \in Replicas |-> "next"]
  /\ cur = [e \in Replicas |-> None]
  /\ copy = [e \in Replicas |-> NoRow]
  /\ listed = [e \in Replicas |-> [j \in {} |-> NoRow]]
  /\ refused = [e \in Replicas |-> {}]
  /\ choice = [e \in Replicas |-> None]
  /\ unchecked = {}
  /\ faults = 0
----------------------------------------------------------------------------
(* Users, Pods and nodes *)

SubmitJob(j) ==
  /\ row[j].state = "NONE"
  /\ row' = [row EXCEPT ![j].state = "QUEUED"]
  /\ UNCHANGED <<pod, ready, control, unchecked, faults>>

CancelJob(j) ==
  /\ ~Locked(j)
  /\ row[j].state \in CancelNeedsExecutor \cup {"QUEUED"}
  /\ row' = [row EXCEPT ![j].state = IF @ = "QUEUED" THEN "CANCELLED" ELSE "CANCELLING"]
  /\ UNCHANGED <<pod, ready, control, unchecked, faults>>

(* The Pod ends and the executor records it; the Job of a finished attempt *)
(* holds nothing any more.                                                 *)
Finish(j) ==
  /\ ~Locked(j)
  /\ row[j].state = "STARTING" /\ pod[j] # None
  /\ \E outcome \in {"SUCCEEDED", "FAILED"} : row' = [row EXCEPT ![j].state = outcome]
  /\ pod' = [pod EXCEPT ![j] = None]
  /\ UNCHANGED <<ready, control, unchecked, faults>>

(* Mutant: the new attempt keeps the old one's node *)
RetryInPlace(j) ==
  /\ faults < MaxFaults /\ faults' = faults + 1
  /\ ~Locked(j)
  /\ row[j].state = "FAILED"
  /\ row' = [row EXCEPT ![j].state = "QUEUED"]
  /\ UNCHANGED <<pod, ready, control, unchecked>>

(* prepareRetry clears the node; queued_at stays what it was               *)
RetryJob(j) ==
  /\ faults < MaxFaults /\ faults' = faults + 1
  /\ ~Locked(j)
  /\ row[j].state = "FAILED"
  /\ row' = [row EXCEPT ![j] = [state |-> "QUEUED", node |-> None]]
  /\ UNCHANGED <<pod, ready, control, unchecked>>

(* discoverCluster misses a node, or finds it again; jobs on it stay bound *)
NodeLost(n) ==
  /\ faults < MaxFaults /\ faults' = faults + 1
  /\ n \in ready /\ ready' = ready \ {n}
  /\ UNCHANGED <<row, pod, control, unchecked>>

NodeFound(n) ==
  /\ n \notin ready /\ ready' = ready \cup {n}
  /\ UNCHANGED <<row, pod, control, unchecked, faults>>
----------------------------------------------------------------------------
(* A replica's pass *)

At(e, label)   == pc[e] = label
Goto(e, label) == pc' = [pc EXCEPT ![e] = label]
Idling(e, p)   == phase[e] = p /\ pc[e] = "next"

Drop(e) ==
  /\ cur' = [cur EXCEPT ![e] = None]
  /\ copy' = [copy EXCEPT ![e] = NoRow]
  /\ choice' = [choice EXCEPT ![e] = None]

(* Done with the current job without having launched it                    *)
GiveUp(e) ==
  /\ Goto(e, "next") /\ Drop(e)
  /\ refused' = IF phase[e] = "claim"
                THEN [refused EXCEPT ![e] = @ \cup {cur[e]}] ELSE refused
  /\ UNCHANGED <<phase, listed>>

(* Of the jobs listJobsToReconcile returns, those not yet launched and     *)
(* those to be torn down; the others are only observed.                    *)
ListJobs(e) ==
  /\ Idling(e, "idle")
  /\ phase' = [phase EXCEPT ![e] = "reconcile"]
  /\ listed' = [listed EXCEPT ![e] =
                  [j \in {k \in Jobs : row[k].state \in {"SCHEDULING", "CANCELLING"}} |-> row[j]]]
  /\ UNCHANGED <<row, pod, ready, pc, cur, copy, refused, choice, unchecked, faults>>

Unlist(e, j) == listed' = [listed EXCEPT ![e] = [k \in DOMAIN @ \ {j} |-> @[k]]]

(* placeAndLaunch on the copy r *)
Handle(e, j, r) ==
  /\ cur' = [cur EXCEPT ![e] = j]
  /\ copy' = [copy EXCEPT ![e] = r]
  /\ Goto(e, IF r.node = None THEN "wait" ELSE "create")

ReconcileJob(e, j) ==
  /\ Idling(e, "reconcile") /\ j \in DOMAIN listed[e]
  /\ listed[e][j].state = "SCHEDULING"
  /\ Unlist(e, j)
  /\ Handle(e, j, listed[e][j])
  /\ UNCHANGED <<row, pod, ready, phase, refused, choice, unchecked, faults>>

(* cancelWorkload: the Job is deleted, then the row is settled if it still *)
(* is CANCELLING                                                           *)
TearDown(e, j) ==
  /\ Idling(e, "reconcile") /\ j \in DOMAIN listed[e]
  /\ listed[e][j].state = "CANCELLING" /\ ~Locked(j)
  /\ Unlist(e, j)
  /\ pod' = [pod EXCEPT ![j] = None]
  /\ row' = [row EXCEPT ![j].state = IF @ = "CANCELLING" THEN "CANCELLED" ELSE @]
  /\ UNCHANGED <<ready, phase, pc, cur, copy, refused, choice, unchecked, faults>>

StartClaiming(e) ==
  /\ Idling(e, "reconcile") /\ DOMAIN listed[e] = {}
  /\ phase' = [phase EXCEPT ![e] = "claim"]
  /\ refused' = [refused EXCEPT ![e] = {}]
  /\ UNCHANGED <<row, pod, ready, pc, cur, copy, listed, choice, unchecked, faults>>

(* Highest priority first; the order of arrival within a priority is open  *)
ClaimNextJob(e) ==
  \E j \in Claimable(e) :
    /\ Idling(e, "claim")
    /\ \A k \in Claimable(e) : Priority[j] <= Priority[k]
    /\ row' = [row EXCEPT ![j].state = "SCHEDULING"]
    /\ unchecked' = IF row[j].node = None THEN unchecked ELSE unchecked \cup {j}
    /\ Handle(e, j, [row[j] EXCEPT !.state = "SCHEDULING"])
    /\ UNCHANGED <<pod, ready, phase, listed, refused, choice, faults>>

EndPass(e) ==
  /\ Idling(e, "claim") /\ Claimable(e) = {}
  /\ phase' = [phase EXCEPT ![e] = "idle"]
  /\ refused' = [refused EXCEPT ![e] = {}]
  /\ UNCHANGED <<row, pod, ready, pc, cur, copy, listed, choice, unchecked, faults>>
----------------------------------------------------------------------------
(* scheduleJob: the lock, the two gates, one write *)

Deciding(e) == UNCHANGED <<row, pod, ready, phase, cur, copy, listed, refused,
                           unchecked, faults>>

(* Mutant: a row lock is held, the advisory lock is not taken *)
BeginPassUnserialised(e) ==
  /\ At(e, "wait") /\ ~Locked(cur[e])
  /\ Goto(e, "quota")
  /\ Deciding(e) /\ UNCHANGED choice

BeginPass(e) ==
  /\ At(e, "wait") /\ ~PassInFlight
  /\ Goto(e, "quota")
  /\ Deciding(e) /\ UNCHANGED choice

(* Mutant: a project over its quota is told so and scheduled all the same *)
QuotaGateOpen(e) ==
  /\ At(e, "quota")
  /\ Goto(e, "place")
  /\ Deciding(e) /\ UNCHANGED choice

QuotaGate(e) ==
  /\ At(e, "quota")
  /\ Goto(e, IF Affords(cur[e], Usage(cur[e])) THEN "place" ELSE "requeue")
  /\ Deciding(e) /\ UNCHANGED choice

(* Mutant: the refusal is not looked at *)
PlacementGateDeaf(e) ==
  /\ At(e, "place")
  /\ choice' = [choice EXCEPT ![e] = Place(cur[e], Held, ready)]
  /\ Goto(e, "bind")
  /\ Deciding(e)

PlacementGate(e) ==
  LET n == Place(cur[e], Held, ready) IN
  /\ At(e, "place")
  /\ choice' = [choice EXCEPT ![e] = n]
  /\ Goto(e, IF n = None THEN "requeue" ELSE "bind")
  /\ Deciding(e)

(* bindJobToNode writes whatever state the job is in by now *)
BindJob(e) ==
  /\ At(e, "bind")
  /\ row' = [row EXCEPT ![cur[e]].node = choice[e]]
  /\ unchecked' = IF cur[e] \in Occupying THEN unchecked \ {cur[e]} ELSE unchecked
  /\ choice' = [choice EXCEPT ![e] = None]
  /\ Goto(e, "reread")
  /\ UNCHANGED <<pod, ready, phase, cur, copy, listed, refused, faults>>

(* SCHEDULING -> QUEUED, unbound; any other state throws and rolls back *)
RequeueJob(e) ==
  LET j == cur[e] IN
  /\ At(e, "requeue")
  /\ IF row[j].state = "SCHEDULING"
       THEN /\ row' = [row EXCEPT ![j] = [state |-> "QUEUED", node |-> None]]
            /\ unchecked' = unchecked \ {j}
       ELSE UNCHANGED <<row, unchecked>>
  /\ GiveUp(e)
  /\ UNCHANGED <<pod, ready, faults>>
----------------------------------------------------------------------------
(* Launching on the node of the copy *)

RereadJob(e) ==
  /\ At(e, "reread")
  /\ copy' = [copy EXCEPT ![e] = row[cur[e]]]
  /\ Goto(e, "create")
  /\ UNCHANGED <<row, pod, ready, phase, cur, listed, refused, choice,
                 unchecked, faults>>

(* Mutant: the Pod template carries no nodeName *)
CreateJobUnpinned(e) ==
  /\ At(e, "create")
  /\ \E n \in Nodes : pod' = [pod EXCEPT ![cur[e]] = IF @ = None THEN n ELSE @]
  /\ Goto(e, "mark")
  /\ UNCHANGED <<row, ready, phase, cur, copy, listed, refused, choice,
                 unchecked, faults>>

(* A Job that exists is adopted where it is; one without a node goes where *)
(* Kubernetes likes                                                        *)
CreateJob(e) ==
  /\ At(e, "create")
  /\ \E n \in IF copy[e].node = None THEN Nodes ELSE {copy[e].node} :
       pod' = [pod EXCEPT ![cur[e]] = IF @ = None THEN n ELSE @]
  /\ Goto(e, "mark")
  /\ UNCHANGED <<row, ready, phase, cur, copy, listed, refused, choice,
                 unchecked, faults>>

MarkLaunched(e) ==
  /\ At(e, "mark") /\ ~Locked(cur[e])
  /\ IF row[cur[e]].state = "SCHEDULING"
       THEN /\ row' = [row EXCEPT ![cur[e]].state = "STARTING"]
            /\ Goto(e, "next") /\ Drop(e) /\ UNCHANGED <<phase, listed, refused>>
       ELSE row' = row /\ GiveUp(e)
  /\ UNCHANGED <<pod, ready, unchecked, faults>>
----------------------------------------------------------------------------
(* What goes wrong; an open transaction is rolled back and its locks fall *)

CallFails(e) ==
  /\ faults < MaxFaults /\ faults' = faults + 1
  /\ pc[e] # "next"
  /\ GiveUp(e)
  /\ UNCHANGED <<row, pod, ready, unchecked>>

Crash(e) ==
  /\ faults < MaxFaults /\ faults' = faults + 1
  /\ phase[e] # "idle"
  /\ phase' = [phase EXCEPT ![e] = "idle"]
  /\ Goto(e, "next") /\ Drop(e)
  /\ listed' = [listed EXCEPT ![e] = [j \in {} |-> NoRow]]
  /\ refused' = [refused EXCEPT ![e] = {}]
  /\ UNCHANGED <<row, pod, ready, unchecked>>
----------------------------------------------------------------------------
PassStep(e) ==
  \/ ListJobs(e) \/ StartClaiming(e) \/ ClaimNextJob(e) \/ EndPass(e)
  \/ \E j \in Jobs : ReconcileJob(e, j) \/ TearDown(e, j)

ScheduleStep(e) ==
  BeginPass(e) \/ QuotaGate(e) \/ PlacementGate(e) \/ BindJob(e) \/ RequeueJob(e)

LaunchStep(e) == RereadJob(e) \/ CreateJob(e) \/ MarkLaunched(e)

ReplicaStep(e) == PassStep(e) \/ ScheduleStep(e) \/ LaunchStep(e)

Next ==
  \/ \E j \in Jobs : SubmitJob(j) \/ CancelJob(j) \/ Finish(j) \/ RetryJob(j)
  \/ \E n \in Nodes : NodeLost(n) \/ NodeFound(n)
  \/ \E e \in Replicas : ReplicaStep(e) \/ CallFails(e) \/ Crash(e)

Spec == Init /\ [][Next]_vars

(* The loop re-arms its own timer; runs end; a lost node is found again.   *)
Fairness ==
  /\ \A e \in Replicas : WF_vars(ReplicaStep(e))
  /\ \A j \in Jobs : WF_vars(Finish(j))
  /\ \A n \in Nodes : WF_vars(NodeFound(n))

FairSpec == Spec /\ Fairness
----------------------------------------------------------------------------
IsListing(l) ==
  /\ l = [e \in Replicas |-> l[e]]
  /\ \A e \in Replicas : DOMAIN l[e] \subseteq Jobs /\ l[e] \in [DOMAIN l[e] -> Row]

(* Every variable keeps its shape: a step that needs a job or a node has   *)
(* one.                                                                    *)
TypeOK ==
  /\ row \in [Jobs -> Row]
  /\ pod \in [Jobs -> Nodes \cup {None}]
  /\ ready \subseteq Nodes
  /\ phase \in [Replicas -> {"idle", "reconcile", "claim"}]
  /\ pc \in [Replicas -> Transaction \cup {"next", "wait", "reread", "create", "mark"}]
  /\ cur \in [Replicas -> Jobs \cup {None}]
  /\ copy \in [Replicas -> Row]
  /\ IsListing(listed)
  /\ refused \in [Replicas -> SUBSET Jobs]
  /\ choice \in [Replicas -> Nodes \cup {None}]
  /\ unchecked \subseteq Jobs
  /\ faults \in 0 .. MaxFaults
  /\ \A e \in Replicas : pc[e] # "next" => cur[e] \in Jobs
  /\ \A e \in Replicas : pc[e] = "bind" => choice[e] \in Nodes

(* Whatever the interleaving of replicas, the jobs that came to their node *)
(* through the gates fit it: no two passes give the same capacity away     *)
(* (db/locks.js, "two jobs are then bound to the same free GPU").          *)
GatedWithinRoom == \A n \in Nodes : Held[n] \ unchecked \in Room[n]

Placed == {j \in Occupying : row[j].node # None}

(* The same of projects: the placed jobs of a project, those that skipped  *)
(* the gates aside, are within its quota.                                  *)
GatedWithinQuota == Placed \ unchecked \in Budget

(* "Overfill the cluster and jobs queue rather than over-committing it"    *)
(* (README.md:199): what the rows promise of a node, the node has.         *)
NoOvercommit == \A n \in Nodes : Held[n] \in Room[n]

(* The Pod of a job that is accounted for runs where the accounting says:  *)
(* the decision is a cause and not an intention (launchJob).               *)
PodWhereBound == \A j \in Occupying : pod[j] # None => pod[j] = row[j].node

(* Kubernetes is never asked to run more on a node than the node can hold. *)
PodsWithinRoom == \A n \in Nodes : {j \in Jobs : pod[j] = n} \in Room[n]

(* Some node could run j, were the cluster empty, and its project afford it *)
Placeable(j) == /\ Place(j, [n \in Nodes |-> {}], Nodes) # None
                /\ Affords(j, {j})

(* A job that could run does run, is cancelled, or finishes, however many  *)
(* unplaceable jobs are queued ahead of it (runOnce: one job asking for    *)
(* more GPUs than any node has must not block the queue behind it).        *)
PlaceableJobLeaves ==
  \A j \in Jobs : Placeable(j) =>
    (row[j].state = "QUEUED" ~> row[j].state \notin {"QUEUED", "SCHEDULING"})
=============================================================================
