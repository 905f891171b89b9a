# AshML in TLA+

Specifications of AshML - the control plane (`packages/server/src`), the inference
router (`packages/router`), and the Python SDK that training code reports through
(`sdk/python/ashml`) - with the TLC configurations that check them on small instances,
and proofs of their main properties. Every definition is written from the source;
`PROJECT.json` maps each one to the lines it models.

    tlc -workers 2 -config exec_safety.cfg MCJobExecutor     # model-check
    tlapm JobExecutorProofs.tla                              # check the proofs

## The system

AshML trains and serves models on a Kubernetes cluster. A Node.js control plane
keeps everything in PostgreSQL and reconciles the cluster against it from timers;
users reach it over HTTP, training Pods report back with a token of their own.

| Part | State it keeps | Operations | Talks to |
|---|---|---|---|
| Job service (`services/jobs.js`, `repos/jobs.js`) | `training_jobs`: state, attempt, node, Job name, failure, retry decision | submit, cancel, claim, markLaunched, recordObservation, markWorkloadMissing, finishCancellation, considerRetry | the executor calls it; users submit and cancel |
| Executor (`services/executor.js`) | none of its own: snapshots of rows between awaits | a pass: reconcile, rule on failures, claim and launch | job service, scheduler, run tokens, cluster |
| Scheduler (`services/scheduler.js`, `domain/placement.js`, `domain/quota.js`) | the binding on the job row, the decision log | scheduleJob (quota gate, placement gate, bind or requeue) | nodes and projects tables, under an advisory lock |
| Nodes (`services/nodes.js`) | `compute_nodes`, `gpu_devices` | discoverCluster | GPU providers, cluster |
| Tokens (`services/auth.js`, `repos/auth.js`) | hashes with job/attempt or deployment scope, expiry, revocation | issue, expire, revoke | executor, deployments |
| Deployments (`services/deployments.js`, `repos/deployments.js`) | deployment row (address, serving version, router), targets (weight, replicas, status) | deploy, rollout, promote, retire, undeploy, a 10 s sync | registry, cluster, tokens |
| Router (`packages/router`) | last good routing table, cooldowns | poll the table, choose a target, fail over | control plane, model servers |
| Routing rules (`domain/routing.js`) | none | validateWeights, applyRollout, chooseTarget | deployments and router |
| Model registry (`services/models.js`) | versions, their status, the production version | register, setStatus | artifacts, deployments |
| Artifacts (`services/artifacts.js`) | artifact rows PENDING/READY/FAILED | register, complete, fail | object store, jobs |
| Membership (`services/auth.js`) | project members and roles | setMember, removeMember | - |
| Metrics, experiments, projects, datasets, inference log | append-only rows | insert and read | jobs |
| CLI, Python SDK, model server, UI, scripts | client state only | - | HTTP API |

What is hard here: every component acts on a copy of a row it read before an
`await`; the database and the cluster are changed by separate calls with a crash
possible between them; replicas, users and the cluster interleave with both. The
`hazards` in `PROJECT.json` list where each of these bites.

## Modules

| Module | What it is |
|---|---|
| `JobState` | `domain/job-state.js`: the states, the edges, the derived sets |
| `JobExecutor` | job rows, executor loops, run tokens and Kubernetes Jobs together |
| `JobContract` | the abstract promise to a job's owner: at most one workload, of the current attempt, while claimed or stopping |
| `JobExecutorInv` | the inductive invariant `IInv` |
| `JobExecutorProofs`, `JobExecutorRefinement`, `JobContractProofs` | the proofs |
| `Placement` | `domain/quota.js` and `domain/placement.js`: the two gates as pure operators |
| `Gates` | those gates as `scheduleJob` calls them, beside an independent account of what fits on a node and in a quota |
| `Scheduler` | several replicas claiming jobs and running `scheduleJob` under its locks, over any two gates |
| `SchedulerInv`, `SchedulerProofs` | its inductive invariants (`GateInv` for any replicas, `SoleInv` for one) and the proofs |
| `Routing` | `domain/routing.js`: a valid split, what a rollout makes of it, who needs a router |
| `Deployments` | one deployment: deploy, rollout, retire, undeploy and the status loop, over its rows, its tokens and the cluster |
| `DeploymentsInv`, `DeploymentsProofs` | what each handler has read and has left to do, and the proofs about deployments and rollouts |
| `Router` | the router's table, cooldowns and failover, and `ash predict` in front of it |
| `RouterProofs` | what a request in flight knows of its answer, and the proofs about the router |
| `Access` | `domain/roles.js`, `services/auth.js`: principals, permissions, the last owner |
| `Registry` | `domain/model-status.js`, `domain/artifact-status.js`: the two lifecycles as pure operators |
| `Workspace` | requests on one project that overlap: membership, artifacts over the object store, model versions |
| `WorkspaceInv`, `WorkspaceProofs` | its inductive invariant and the proofs |
| `TrainingRun` | a training process and the SDK in it, against metrics, artifacts and the retry of its job |
| `TrainingRunInv`, `TrainingRunProofs` | what each place in the SDK has behind it, and the proofs |
| `MC...` | instances for TLC: symmetry, and values that a configuration cannot write |

Which composes which: `JobExecutor` contains the scheduler as one slot per job;
`Scheduler` opens that slot up over `Placement`. `Deployments` and `Router` share
`Routing`, and each treats the other as its environment: what `Deployments` does to
the split, the address and the Pods is nondeterminism to `Router`. `Workspace` is
built on `Access` and `Registry`. `TrainingRun` takes the end and the retry of an
attempt from what `JobExecutor` says of them.

### JobExecutor

`row` is `training_jobs`; `work`, `lingering`, `completed` are the cluster;
`valid`, `fresh`, `ending` the run tokens; the rest is where each executor is.

* A database transaction is one action, because each of them locks its row
  `FOR UPDATE` and re-reads it. Every `await` outside a transaction is a point
  between two actions. So `placeAndLaunch` is `BindJob`/`RequeueJob`, `RereadJob`,
  `IssueRunToken`, `CreateWorkload`, `MarkLaunched`; `cancelWorkload` is
  `DeleteWorkload`, `FinishCancellation`; observing is `ObserveJob`,
  `RecordObservation`, `ExpireRunTokens`. `listed` holds whole rows because
  `runOnce` lists all active jobs first and decides on those copies.
* `CallFails` is an error of the current call, after which the pass moves on to
  the next job (a `createJob` whose answer is lost is `CreateWorkload` followed by
  it); `RulingFails` is an error of considerRetry; `Crash` is a restart, or a
  listing or claiming query that fails and ends the pass.
* `WorkloadLost` is a Job deleted by hand or with its node. A deleted Job's Pod
  lingers (`propagationPolicy: 'Background'`) until `PodReaped`.
* Failure reasons are abstracted to classes: `killed` stands for those
  `retry-policy.js` calls permanent, `crashed` and `missing` for the retryable
  ones. `condemned` is a killed Pod whose Job has its `Failed` condition, whose
  message `observationFromJobStatus` prefers to the Pod's reason.
* One slot per job stands for quota and placement here. `claimNextJob`'s order is
  left open (any queued job), which allows more than the code.

### Scheduler

`row` is the state and binding of `training_jobs`, `pod` the node each Kubernetes
Job is pinned to, `ready` the column discovery writes; `phase`, `pc`, `cur`,
`copy`, `listed`, `refused`, `choice` are where each replica's `runOnce` is.

* `scheduleJob` is one transaction but not one action: under READ COMMITTED its
  statements see what others committed in between. `BeginPass` takes the advisory
  and the row lock, `QuotaGate` and `PlacementGate` are the two reads with their
  decisions, `BindJob` or `RequeueJob` the write and the commit. The locks are not
  variables: a replica holds both while its label is in `Transaction`, and an
  abandoned transaction (`CallFails`, `Crash`) lets go of them by leaving it.
* Every other transaction is one action that waits for the row (`Locked`), except
  the claim, which skips it (`SKIP LOCKED`).
* `JobExecutor` models the Pods, tokens and retries in full and the scheduler as a
  slot; `Scheduler` models the scheduler in full and the rest only as far as it
  moves capacity: `STARTING` stands for `STARTING` and `RUNNING`, `Finish` for an
  observed end, `TearDown` for `cancelWorkload`, `RetryJob` for a granted retry.
* Jobs of one priority may be claimed in any order, which allows more than
  `queued_at` does.
* The gates are parameters, `Affords` and `Place`, of which `GatesKeep`, in
  `SchedulerAssumption`, says what they must guarantee: a job that passes may join
  any part of what the gate was shown. `Gates` has what the code has,
  `WithinQuota` and `BestNode` over `Placement`, and says on its own what fits:
  `Allowance` the sums within every quota, `Capacity` the sums within a node and a
  distinct healthy device of the size it asks for to every job (`Assigned`). So the
  assumption compares the worst-case count of `evaluateNode` with an actual
  assignment of devices. TLC evaluates it for the clusters of the runs, and it is
  proved for all (`GatesKeepPromise`).
* What other Pods reserve is rounded up and what a node has down, so the reservation
  of a full node may exceed it; `Enough` then allows only jobs that ask for none.
* `unchecked` is a history variable: jobs claimed while still bound. They skip both
  gates (`placeAndLaunch` goes straight to the launch).

### Deployments

`row`, `targets` and `token` are the tables, `pods`, `services`, `router`, `front` and
`secret` the cluster (a version has a Deployment, in `pods`, and a Service of its own); `pc`, `ask`, `snap` and `todo` are where each handler is and what it has
read.

* A process is an API request (`Operators`) or the status loop (`Sync`). Each awaited
  call is one action: `applyDesiredState` is `EnsureServingToken`, for each
  version its Deployment, its Service and the row that names them, the router, the front Service and the rows that record them; a pass of
  `syncDeployments` is `SyncLists`, `ObserveTarget`, `ObserveRouter`, `MoveFrontDoor`,
  `RecordMove`, `ScaleDown`, `SyncJudges`. What a handler decides, it decides on its
  `snap`.
* `Overlap = FALSE` lets a handler run to its end before the next starts. The code
  does not promise that; the two violation runs show what it costs.
* `Faults` names the kinds that may happen, `MaxFaults` bounds them together: "end", a
  call or query that fails or a restart, at any await; "pods", Pods that fail; "load", a
  model server that gives up loading (`stuck`: alive, not ready, never restarted, because
  readiness is its only probe that looks at the model). A handler that fails at the label
  after a call is one whose call took effect and whose answer was lost.
* An apply that fails between making an object and recording its name leaves an object
  that no row names: `applyDeployment` done and `applyService` failed, say
  (`services/deployments.js:365`). Undeploy deletes recorded names only (908) and then
  the row, and after that nobody can find it. `strays` keeps what was left so, and
  `NothingOrphaned` allows it and nothing else: the deleting handlers, wherever they
  fail, leave no orphan of their own. No document of the repository says otherwise, so
  this is a limit and not a finding.
* A version runs one replica.

### Router

The control plane and the cluster as a request sees them (`split`, `up`, `front`,
`serving`), the router's own `table` and `cooling`, and each request.

* `Refresh` is a poll that was answered; one that was not changes nothing. The table
  is replaced whole.
* A request is `Resolve` (`predict` reads the row), `CallAddress`, then either the
  Pods of a version answer or the router chooses, forwards, and on a version it cannot
  reach fails over once. `said` is the version `predict` will name, `target` the one
  that answers, `moved` records that the address changed in between.
* The sticky hash and the random point both pick an eligible version; here any one is.

### Workspace

A request is authorised on what is true when it arrives (`Ask...`), reads under the
row lock its rule needs (`MemberCounts`, `SettleReads`, `RegisterNumbers`,
`StatusReads`), then writes and commits; it may roll back at either point. `lock` is
explicit, because what a forgotten `FOR UPDATE` would do is the question. `object`
is the bucket: whose bytes were last put under each key.

One project, one model that exists, one job whose token is live; `createModel`, users
and API tokens, and artifacts of other projects are not actions.

### TrainingRun

`call` is where each thread is in the SDK; a request is tried up to `Retries + 1`
times, and each try is handled and answered, handled with the answer lost, lost, or
refused. `recorded`, `artifacts` and `object` are what the control plane has; `state`
(metrics are refused until `markLaunched`) and `credential` (the attempt's token) are
what it refuses by. The training code is the loop of
`examples/training/sdk_smoke.py`: train a step, report it, sometimes checkpoint, raise
at any point.

* `Killed` may come anywhere. The job need not wait for it: `Retry` is `considerRetry`,
  which chooses the newest confirmed checkpoint (`resume`) and requeues the job when the
  attempt is taken to be over, and `NewAttempt` is the launch that follows, both possibly
  while the old process is still shutting down (`repos/auth.js:164`). Its token is
  revoked by then or soon (`Revoked`), so what it asks of the control plane is refused.
* An upload goes to the store under a presigned URL and carries no token. `late` has
  the uploads of processes that were killed or replaced with a PUT under way; `LateUpload`
  lands one of them, whenever that is.
* `belated` is history: the rows that were being uploaded or confirmed when their attempt
  was given up, or whose upload outlived its process. `OfferFetchable` makes an exception of them, because nothing in the code
  keeps such an upload from replacing bytes (below).

Simplified: a request is authenticated and handled in one step; `recorded` is a set, in
which the duplicate rows of a retried POST do not show; requests fail with `ApiError`
only; `LogMetrics` joins the unlocked look at `_finished` (`_run.py:111`) to the locked
append (126), between which one reporting thread cannot be finished.

## Runs

| Run | Instance | Shows |
|---|---|---|
| `exec_safety` | 1 replica, 2 jobs, 1 slot, 1 retry, 1 fault | nothing orphaned or over-committed, no verdict on a requeued job, an outcome is final; `IInv` is invariant |
| `exec_liveness` | fair, 1 replica, 1 job, 2 retries, 3 faults | the job settles through the whole retry budget, every cancel completes, no result is invented or reported into another attempt; the contract is implemented |
| `exec_credential` | 1 replica, 1 fault | VIOLATED: a restart leaves a running Pod with a revoked token |
| `sched_room` | 2 replicas, 2 jobs, 1 node, no quota, 1 fault | jobs that came through the gates fit on their node |
| `sched_sole` | fair, 1 replica, 3 jobs, 2 nodes, a quota of one job, 1 fault | nothing is over-committed, quotas are kept, Pods run where they are accounted, a job that is refused holds nobody up |
| `deploy_calm` | fair, 2 versions, 4 requests, 1 fault of any kind | the split stays whole, an outdated token is never in use, the address keeps its Pods, nothing is orphaned but what a failing apply had just made, every change is carried through |
| `deploy_split` | 2 versions, 3 requests | VIOLATED: ending a split takes down the only version that answers behind the router |
| `deploy_overlap` | 3 versions, 2 requests at once | VIOLATED: the weights no longer sum to 100 |
| `router` | fair, a version, a canary, its promotion, 1 restart | who answered is said rightly, no caller is refused before two versions, or all the table offers, were tried, a version that recovers is used again, every request ends |
| `workspace` | 2 requests at once, 2 members, 2 artifacts under 1 name, 2 versions | an owner remains, one version in PRODUCTION, numbers given once, archived is final, versions are made of confirmed artifacts |
| `artifact_bytes` | the same, bytes of different sizes | VIOLATED: the digest of a READY artifact describes bytes that are gone |
| `training_run` | fair, 3 attempts of 2 steps, any of which may go on after it was given up, 2 tries, 2 points logged, 1 lost answer | the checkpoint offered can be fetched unless an attempt given up replaced it, it is not ahead of the history recorded or reported as dropped, no point is lost silently, attempts end |

The bounds of the executor. Two jobs on one slot give contention, requeueing and a
slot handed over; one retry gives two attempts with their own Jobs and tokens, the
smallest case of a stale attempt; one fault at any point reaches every interrupted
operation and the recovery from it; three attempts and three faults exercise the
budget boundary after repeated interruptions. `CHECK_DEADLOCK FALSE`: with every
job settled and the cluster idle, an executor pass is all that is left, and the
bounded actions may be used up.

Of the scheduler. Two passes race over two jobs, so two replicas and two
jobs are the smallest case; the node that takes one of them is where the room
runs out. In `sched_sole` two jobs want a GPU, of different sizes, and one only CPU; the
larger node has one device that will do, one too small and one that failed; the two GPU
jobs share a project and contend for its quota of one. A crash, a failed call, a lost node and a retry are the faults.

Of deployments. Two versions make every kind of change there is: the first deploy, a
canary beside it, the end of the split in favour of either, a replacement, a retire of
the one without traffic, an undeploy (a promotion writes what a deploy of the same
version writes); four requests reach every sequence of three changes after the first,
which is what a half-made version takes to be left behind and found by `reap`. One
fault is enough to interrupt each change at each call, before or after it took effect. For the lost
update, a third version gives two rollouts something to disagree about.

Of the router. The three splits are the life of a canary. One request at a time: the
only state requests share is `cooling`, and cooldowns may begin and end at any time
through `PodsGoDown` and `CooldownEnds` anyway. For the same reason one router stands for
the two replicas `manifest.js:655` deploys: a request meets one of them, and each has a
table and cooldowns of its own. One restart loses the table and the
cooldowns once, with a request in flight.

Of the workspace. Every rule relates two requests, so two are the smallest case; two
members are the last two owners, two artifacts under one name the smallest collision,
two versions the smallest pair of promotions.

Of a run. Two steps give a checkpoint before, between and after the points of the
history; a batch of two leaves points in the buffer; a third attempt is what it takes
for an upload of the first to replace bytes that the second confirmed and the third is
offered; one lost answer gives the retry of what has been done (a second `complete` is
refused, and the run dies although its checkpoint is READY). Two points logged fill one
batch, or lie in two attempts; more repeat that.

Fairness. The executor's loop re-arms its own timer after every pass, whatever the
pass did (`startExecutor`), hence weak fairness of each executor. Pods that were
accepted start, and containers end (they succeed, crash or are killed); this excludes
an image pull that never resolves, which the code has no timeout for. Users, faults
and grace periods are not fair. In `Scheduler` every replica, the end of a
launched job and the return of a lost node are; without the last a job that fits
only there waits for ever, rightly. In `Deployments` a handler runs on, the status
timer fires and a Pod that can start does; `Converges` assumes no failed
call, no restart and no model server that gives up, and allows Pods that fail. In
`Router` the refresh, the cooldown and every request are fair: each has a timer
(`refreshMs`, `cooldownMs`, the upstream timeout). In `TrainingRun` only the process
itself is: that it ends must not depend on the control plane.

### What the violations are

* `exec_credential` (`services/executor.js:64`): the next pass mints a token the
  adopted Pod never sees.
* `deploy_split` (`k8s/manifest.js:499`): the Pods a version keeps for the sake of the
  address are those of `serving_version`, which is null behind a router. Version 1 serves,
  2 is rolled out at 50, the address moves to the router once that is ready, and 2 is
  deployed at 100 before its model has loaded: the apply scales version 1 to zero, the
  only one that answers behind the router.
* `deploy_overlap` (`services/deployments.js:976`): read-modify-write of the weights
  without a lock.
* `artifact_bytes` (`storage/store.js:90`): the key of an artifact is project, job and
  name, so two artifacts can share one.

Some instances outside the runs were checked too, and explain why the runs have the
bounds they have:

* Two replicas of the control plane. A retry verdict lands on a job that was requeued
  since it failed (`services/jobs.js:437`); a job claimed by one replica is requeued by
  another, cancelled, and its workload created by the first (`services/executor.js:64`,
  `services/scheduler.js:144`); a row bound while it is QUEUED skips both gates on its
  next claim and overcommits the node (`services/scheduler.js:127`,
  `repos/nodes.js:220`). Where a theorem says "one replica", this is why.
* An OOM kill that is first observed after the Job's `Failed` condition is classified by
  the condition and retried, although the policy calls it permanent
  (`k8s/backend.js:150`; `OOMNeverRetried`).
* `TrainingRun` with a second reporting thread. A batch that thread has taken out of
  the buffer is not waited for by `log_artifact`, and a kill then leaves a confirmed
  checkpoint ahead of the history, which `_run.py:187` says cannot happen; and a point
  appended between the flush in `finish()` and `_finished = True` is lost silently.
* `TrainingRun` with `NamedAlike`, one name for every checkpoint: the offered
  checkpoint's bytes are overwritten by an upload that was never confirmed, and the
  resume fails on its digest. The cause is that of `artifact_bytes`.

* `TrainingRun` without the exception for `belated`. An upload of the first attempt, still
  under way when that attempt is given up, lands after the second has confirmed a
  checkpoint under the same name, and the third is offered that row with bytes its digest
  refuses (`repos/auth.js:164`, `services/artifacts.js:109`, `storage/store.js:90`).

Read in the code and in no model: `setVersionStatus` (`repos/models.js:229`) stamps
`promoted_at` on every promotion, where `routes/models.js:69` says the first; and
`resnet_cifar.py`, killed after a mid-epoch checkpoint that falls on an epoch boundary
and before the epoch's own, resumes in the next epoch and never reports that epoch's
validation.

## Proofs

For any set of jobs, retry budget, capacity and number of faults:

* `TypeCorrect`, `SettledStaysSettled`: for any number of replicas.
* `Inductive`, `NothingOrphaned`, `CancelledAreGone`, `VerdictsOnFailures`,
  `CapacityKept`, `SuccessWasObserved`, `OldAttemptsSilenced`, `Refines`: for one
  replica (`SoleExecutor`), because with two they are false (above).
* `ContractKeepsPromise`: what the contract gives.

None of the invariants is inductive. What a step does depends on a copy of the
row, so `IInv` states, for each label an executor can be at, how far the row may
have moved since the copy was taken: by a cancel and nothing else (`UpToCancel`,
`Lists`, `Holds`), together with what backs an executing workload (`Backed`) and
what a row can look like (`RowsCoherent`). The proof has one lemma for each kind
of step (`UserCore`, `PassCore`, `LaunchCore`, `TeardownCore`, `WatchCore`,
`AbandonCore`); capacity is a separate argument on `Cardinality(Allocated)`. The
refinement proof maps each step to one of the contract's (`Edges`, `RunStarts`,
`RunEnds`) or a stutter, from `IInv`.

That results were observed and that replaced attempts cannot report is a second
layer over `IInv` (`ReportInv`): `Truthful` says that a success an executor is about
to record is of a container that completed in the row's own attempt, `Superseded`
that no attempt is in the cluster before its turn, and that once an executor has issued
the token of an attempt no earlier one of the job is valid.

Of the scheduler, for any jobs, nodes, quotas, faults and any gates with
`SchedulerAssumption`:

* `TypeCorrect`, `GatesHold`, `RoomNeverRaced`, `QuotaNeverRaced`: for any number
  of replicas. The room of a node is an invariant only together with the answers
  the gates have given and not yet written (`QuotaAnswered`, `RoomAnswered`): an
  answer stays good because other steps only take jobs out of the node (`Shrinking`,
  `GivingBack`), the one step that adds to it is inside the transaction, and there
  is one transaction at a time (`LockKept`). This is the argument `db/locks.js`
  makes in prose.
* `SoleHolds`, `NeverOvercommitted`, `PodsWhereBound`, `PodsAlwaysFit`: for one
  replica. The step from "what the gates admitted fits" to "what is bound fits"
  needs that no queued job is bound, hence that nobody requeues a job while another
  replica is scheduling it: with two replicas somebody does.
* `GatesKeepPromise`: the gates of `domain/` satisfy the assumption, so the theorems
  above hold of the program's own gates. Sums over jobs are folds, about which
  statements are proved by looking at a smallest set that contradicts them
  (`LeastNat`). The devices are the interesting part: from any assignment to the
  jobs a node holds, at least `bigEnough - allocated.gpu` devices of the size asked
  for are free, so the new job can be given distinct ones whichever the plugin dealt
  out before; and the argument needs the count of all allocated devices, not only of
  the big ones.

Of deployments, for any versions, shares, number of requests and faults:

* `TypeCorrect`, `SecretAlwaysLive`, `RolloutNeverRefused`: however requests, passes,
  failures and restarts interleave. `Held` says who has read a row that existed,
  `OneToken` that a deployment has at most one token in its life, `Named` that a
  commit names a version.
* `RolloutAlwaysWhole`, of the operator alone: for any weights over any finite set of
  versions, not only a valid split, `applyRollout` gives the named version its share
  and the others exactly the rest. The sum of what rounding down leaves over is a
  whole number smaller than the number of versions (`SumCombines`, `SumBounded`), and
  the order in which it is handed out is strict and total, so exactly that many are
  served (`ServedFirst`). Hence `RolloutNeverRefused`: the check that
  `services/deployments.js:982` calls reachable only through a bug is not reachable.
  `RolloutSparesIdle`: a version without traffic that the rollout does not name gets
  none by being rounded up, because at least as many others have a fraction as there
  are points left over. Weights are exact here; `Routing` says what floating point may
  change.
* `SplitAlwaysWhole`, `NeverOrphaned`, `AddressAlwaysKept`: for `~Overlap`, one
  request or pass at a time; `deploy_overlap` shows the first false without that.
  `CalmInv` says that what a handler at work has read is what there is (`Fresh`);
  `OrphanInv` that every object in the cluster is on a row, or in `strays`, or will be on
  a row by a step of the handler at work (`Accounted`), because what that handler has left
  to do covers what it has not recorded (`Covers`, `Clears`). `NeverOrphaned` speaks of
  all histories, failed calls, lost answers and restarts included: it names what they
  may leave, which is what an apply had made and not recorded (`strays` names the version, not
  which of its two objects); `AddressInv` that every copy has the
  address where the row has it.

Of a training run, for any number of attempts, steps, tries, batches and threads:

* `TypeCorrect`, `NothingTrainedAgain`: always. No process trains again what a
  checkpoint confirmed in time contains ("in time": not by an attempt already given up).
  The place of the main thread in the SDK (`Shape`) decides how far such a checkpoint may
  be ahead of the last step saved (`Behind`), and what the process starts from is the
  newest of them (`Offered`, `HandedOver`), because none is confirmed in time between
  the retry that chose it and the launch.
* `OfferAlwaysFetchable`: when checkpoints of different steps have different keys
  (`KeysDistinct`). No code enforces that; the name is the caller's, by default the file's,
  and with one name for all an upload that is never confirmed overwrites the bytes of the
  checkpoint on offer (above). Then the bytes under the key of a confirmed row are its own
  (`Intact`), but for what a belated upload did to them (`Stored`).
* `HistoryAlwaysKept`, `NeverSilentlyLost`: when the thread that trains is the only
  one that reports (`Sole`), without which both are false (above). A point is in the
  history, said to be dropped, in the buffer or in the batch being sent
  (`History`, `Reported`); the flush before a checkpoint empties the last two. Neither
  says that every point is recorded: a batch that exhausts its tries is dropped with a
  warning, and the checkpoint is confirmed all the same.

Of the workspace, for any members, artifacts, names and number of requests in flight:

* `TypeCorrect`, `OwnerAlwaysKept`, `OneInProduction`, `NumbersGivenOnce`,
  `VersionsAlwaysUsable`, `ArchivedStaysArchived`, all from `Inductive`. None of the
  properties is inductive: a write is right because of what its request read. `IInv`
  says of each request what is still true of that: what it was asked with (`Founded`)
  outlives every change, because the tables only grow in it (`Grows`); what it read
  under its lock (`Current`) cannot have changed, because whoever changes it holds the
  same lock (`Exclusion`, `OtherRow`). A dropped `FOR UPDATE` breaks the second part
  and nothing else, which is what the mutants of the run do.

Of the router, for any versions, valid splits, requests in flight and restarts:

* `TypeCorrect`, `RightlyAttributed`, from `Inductive`: which version an answer will
  be attributed to is settled when the row is read, which version makes it when the
  address is called. `Known` follows a request between the two and says when they
  agree; `Attributed` alone says something only once the answer is there.
* `OneDownAlwaysMasked`: only `Fail` ends a request that the router forwarded, and
  what it offers afterwards is less than what it chose from, because it has just
  marked the version that failed. It says that a second version is tried when the table
  offers one; a version that is back and not yet in the table, or still cooling, is not
  offered.

Assumptions: `SchedulerAssumption`, which `GatesKeepPromise` proves of the code's
gates; `GatesAssumption` (finitely many jobs, natural-number resources, and node names
that differ, which `compute_nodes` requires); `ExecutorAssumption` (finitely many jobs,
natural-number bounds); `WorkspaceAssumption` and `NoRowAssumption` (the markers for a
missing row or a free lock are none of the values they stand beside); the assumptions
of `Deployments` (finitely many versions, numbered from 1, shares from 0 to 100) and of
`Router`, of which the one on the splits is what `domain/routing.js` validates;
`TrainingRunAssumption` (numbers that are at least what makes sense). TLC evaluates
each of them in a run.
Only model-checked: liveness (`EveryJobSettles`, `CancelCompletes`,
`PlaceableJobLeaves`, `Converges`, `RecoveredIsServed`, `RequestsEnd`, `AttemptsEnd`),
because TLAPS does not reason about `WF` here. Every other property of a passing run
has its theorem. The parts of the invariants can be put to TLC too: name them as
INVARIANT in the configuration of a module that extends the `Inv` module.

## Not modelled, and why

* `maxLaunches` (10) and list limits (200, 50): not reached by the instances.
* The natural TTL of a token: no clock; the grace period is an action.
* The placement and quota decision log, and the reasons shown to users.
* Event rows, log lines, the stamps of an experiment: written, never read back by the
  control flow modelled. Parameters, metadata and lineage are data.
* Node discovery beyond a node that goes missing and returns: capacity and devices
  that change under the scheduler.
* That a version which is deployed is archived later (`services/deployments.js:959`):
  `Deployments` and `Workspace` are not composed, and nothing in the code ties the two.
* `createModel`, users, API tokens: single inserts and deletes.
* Exceptions other than `ApiError` out of a flush (a `MemoryError`, an interrupt), and the
  duplicate metric rows of a POST whose answer was lost.
* Two router replicas; several replicas of one version; the sticky choice of a target, which is a hash.
* The CLI, the UI, the simulated backend, observability, GPU providers, scripts and
  examples other than the training loop: stateless clients, I/O or tooling.

## Plan

1. Done: the executor and its contract, the scheduler, deployments, the router, the
   registry, artifacts, membership, the SDK.
2. Done: a theorem for every safety and action property that a passing run checks,
   and for the gates and the rollout arithmetic that the machines take for granted.
3. Models next: two replicas with one project's last job slot refusing each other's
   claims; capacity and devices that discovery changes; two routers, of which the
   address picks one for each try.
4. Proofs next: which of the executor's and the scheduler's one-replica theorems hold
   for several replicas whose passes do not overlap; which versions an undisturbed
   sequence of rollouts can leave without traffic.
