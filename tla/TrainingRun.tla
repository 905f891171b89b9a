---------------------------- MODULE TrainingRun ----------------------------
(***************************************************************************)
(* One job's training process as it reports through the Python SDK         *)
(* (sdk/python/ashml), against what the control plane keeps of it: the     *)
(* metrics, the artifacts, and the checkpoint the next attempt is offered. *)
(*                                                                         *)
(* A call of the SDK is a request with a bounded number of tries.  Each    *)
(* try is answered, refused, lost on its way there, or lost on its way     *)
(* back after the control plane has done what it asked.  The process may   *)
(* be killed between any two steps.  The job is retried when the control   *)
(* plane takes the attempt to be over, which it may while the process is   *)
(* still shutting down; an upload, which goes to the store and carries no  *)
(* token, may even outlive it.                                             *)
(*                                                                         *)
(* Simplifications.  A request is authenticated and handled in one step.   *)
(* recorded is a set: that a retried batch is written twice does not show. *)
(* Requests fail with ApiError and with nothing else.                      *)
(***************************************************************************)
EXTENDS Integers, Sequences, FiniteSets

CONSTANTS
  Threads,      \* threads of the process that report
  Main,         \* the one that trains and checkpoints
  MaxAttempts,  \* 1 + max_retries of the job
  MaxSteps,     \* the steps it trains for
  Retries,      \* tries of a request after its first
  BatchSize,    \* buffered points that force a flush
  MaxLogged,    \* bound on the points logged by all attempts
  MaxLost,      \* bound on answers lost after the request was handled
  Name          \* the key under which the checkpoint of a step is stored

ASSUME TrainingRunAssumption ==
  /\ Main \in Threads
  /\ {MaxAttempts, MaxSteps, BatchSize} \subseteq Nat \ {0}
  /\ {Retries, MaxLogged, MaxLost} \subseteq Nat
  /\ DOMAIN Name = 1 .. MaxSteps

VARIABLES
  attempt, process,       \* the attempt and how its process is
  state, credential,      \* how far the job is; whether the attempt's token is live
  resume,                 \* the job's resume_artifact_id: a row of artifacts, or None
  offer,                  \* ASHML_RESUME_FROM, which the process started with
  step, saved,            \* the step reached, and the last one checkpointed
  buffer, finished,       \* Run._buffer and Run._finished
  raising,                \* the training code or log_artifact has raised
  call,                   \* where each thread is in the SDK
  logged, dropped,        \* points ever logged; points reported as dropped
  recorded, artifacts,    \* the control plane's tables
  object,                 \* whose bytes the store has under each key
  late,                   \* uploads under way that no process waits for
  belated,                \* history: rows uploaded or confirmed by an attempt given up
  lost                    \* answers lost so far

job    == <<attempt, state, credential, resume, offer>>
run    == <<step, saved, buffer, finished, raising, logged, dropped>>
server == <<recorded, artifacts>>
store  == <<object, late, belated>>
vars   == <<job, process, run, call, server, store, lost>>

None   == 0
Keys   == {Name[s] : s \in DOMAIN Name}
Points == [attempt : 1 .. MaxAttempts, by : Threads, step : 1 .. MaxSteps]

Calls  == {"free", "flush", "metrics", "register", "put", "abandon", "confirm",
           "started", "fetch", "download", "leave", "finished"}
Free   == [at |-> "free", then |-> "free", batch |-> {}, tries |-> 0, row |-> None]
Begun  == [t \in Threads |-> IF t = Main THEN [Free EXCEPT !.at = "started"] ELSE Free]

At(t, c)  == process = "running" /\ call[t].at = c
Goto(t, c) == call' = [call EXCEPT ![t] = [@ EXCEPT !.at = c, !.tries = 0]]

Init ==
  /\ attempt = 1 /\ process = "running"
  /\ state = "scheduling" /\ credential = TRUE /\ resume = None /\ offer = None
  /\ step = 0 /\ saved = 0
  /\ buffer = {} /\ finished = FALSE /\ raising = FALSE
  /\ call = Begun
  /\ logged = {} /\ dropped = {}
  /\ recorded = {} /\ artifacts = <<>> /\ object = [k \in Keys |-> None]
  /\ late = {} /\ belated = {} /\ lost = 0

----------------------------------------------------------------------------
(* The control plane: which requests it takes, and what they change *)

Key(row)     == Name[artifacts[row].step]
Pending(row) == artifacts[row].status = "PENDING"

(* completeArtifact: the store has bytes of the reported size at the key *)
Uploaded(row) == object[Key(row)] # None

Authenticated == credential

Accepts(c) ==
  /\ Authenticated
  /\ c.at \in {"metrics", "register"} => state = "launched"
  /\ c.at \in {"abandon", "confirm"}  => Pending(c.row)
  /\ c.at = "confirm"                 => Uploaded(c.row)
  /\ c.at = "fetch"                   => artifacts[offer].status = "READY"

RecordMetrics(c) ==
  /\ c.at = "metrics"
  /\ recorded' = recorded \cup c.batch
  /\ UNCHANGED artifacts

RegisterArtifact(c) ==
  /\ c.at = "register"
  /\ artifacts' = Append(artifacts, [step |-> step, status |-> "PENDING"])
  /\ UNCHANGED recorded

Settle(c) ==
  /\ c.at \in {"confirm", "abandon"}
  /\ artifacts' = [artifacts EXCEPT ![c.row].status =
                      IF c.at = "confirm" THEN "READY" ELSE "FAILED"]
  /\ UNCHANGED recorded

(* The experiment's stamps, which nothing here reads, are left out *)
ReportRun(c) == c.at \in {"started", "finished"} /\ UNCHANGED server

PresignDownload(c) == c.at = "fetch" /\ UNCHANGED server

Handled(c) ==
  /\ Accepts(c)
  /\ \/ RecordMetrics(c) \/ RegisterArtifact(c) \/ Settle(c) \/ ReportRun(c)
     \/ PresignDownload(c)

(* ORDER BY step DESC, created_at DESC LIMIT 1 *)
Newest(rows) ==
  CHOOSE r \in rows : \A q \in rows :
    \/ artifacts[r].step > artifacts[q].step
    \/ artifacts[r].step = artifacts[q].step /\ r >= q

(* Mutant: confirmed or not *)
LatestOfAny == IF artifacts = <<>> THEN None ELSE Newest(DOMAIN artifacts)

LatestResumableCheckpoint ==
  LET ready == {r \in DOMAIN artifacts : artifacts[r].status = "READY"}
  IN  IF ready = {} THEN None ELSE Newest(ready)

----------------------------------------------------------------------------
(* The SDK: a request and what its caller does next *)

Requests == {"metrics", "register", "abandon", "confirm", "started", "fetch", "finished"}

(* finish() closes the run between its flush and its last report *)
Proceed(t, then) ==
  /\ call' = [call EXCEPT ![t] = [Free EXCEPT !.at = IF then = "close" THEN "finished" ELSE then]]
  /\ finished' = (finished \/ then = "close")

Ends == process' = IF raising THEN "failed" ELSE "succeeded"

(* The request succeeded *)
Returned(t) ==
  LET c == call[t] IN
  \/ /\ c.at = "metrics" /\ Proceed(t, c.then)
     /\ UNCHANGED <<process, step, saved, buffer, raising, logged, dropped>>
  \/ /\ c.at = "register"
     /\ call' = [call EXCEPT ![t] = [Free EXCEPT !.at = "put", !.row = Len(artifacts')]]
     /\ UNCHANGED <<process, run>>
  \/ /\ c.at = "confirm" /\ Proceed(t, "free")
     /\ UNCHANGED <<process, step, saved, buffer, raising, logged, dropped>>
  \/ /\ c.at = "abandon" /\ Goto(t, "leave") /\ raising' = TRUE
     /\ UNCHANGED <<process, step, saved, buffer, finished, logged, dropped>>
  \/ c.at = "started" /\ Goto(t, IF offer = None THEN "free" ELSE "fetch") /\ UNCHANGED <<process, run>>
  \/ c.at = "fetch" /\ Goto(t, "download") /\ UNCHANGED <<process, run>>
  \/ c.at = "finished" /\ Ends /\ UNCHANGED <<run, call>>

(* Mutant: a refused batch is forgotten without a word *)
RaisedSilently(t) ==
  LET c == call[t] IN
  \/ /\ c.at = "metrics" /\ Proceed(t, c.then)
     /\ UNCHANGED <<process, step, saved, buffer, raising, logged, dropped>>
  \/ /\ c.at \in {"register", "confirm", "abandon", "fetch"} /\ Goto(t, "leave") /\ raising' = TRUE
     /\ UNCHANGED <<process, step, saved, buffer, finished, logged, dropped>>
  \/ c.at \in {"started", "finished"} /\ Returned(t)

(* Mutant: a batch that failed goes back into the buffer and out again *)
RaisedRebuffers(t) ==
  LET c == call[t] IN
  \/ /\ c.at = "metrics" /\ Goto(t, "flush")
     /\ buffer' = buffer \cup c.batch
     /\ UNCHANGED <<process, step, saved, finished, raising, logged, dropped>>
  \/ /\ c.at \in {"register", "confirm", "abandon", "fetch"} /\ Goto(t, "leave") /\ raising' = TRUE
     /\ UNCHANGED <<process, step, saved, buffer, finished, logged, dropped>>
  \/ c.at \in {"started", "finished"} /\ Returned(t)

(* The request raised ApiError: metrics are dropped and reports shrugged    *)
(* off, an artifact or a promised checkpoint is not                        *)
Raised(t) ==
  LET c == call[t] IN
  \/ /\ c.at = "metrics" /\ Proceed(t, c.then)
     /\ dropped' = dropped \cup c.batch
     /\ UNCHANGED <<process, step, saved, buffer, raising, logged>>
  \/ /\ c.at \in {"register", "confirm", "abandon", "fetch"} /\ Goto(t, "leave") /\ raising' = TRUE
     /\ UNCHANGED <<process, step, saved, buffer, finished, logged, dropped>>
  \/ c.at \in {"started", "finished"} /\ Returned(t)

(* A 5xx or no answer: the identical request again, or the last error *)
Tried(t) ==
  IF call[t].tries < Retries
  THEN call' = [call EXCEPT ![t].tries = @ + 1] /\ UNCHANGED <<process, run>>
  ELSE Raised(t)

Request(t) ==
  /\ process = "running" /\ call[t].at \in Requests
  /\ \/ Handled(call[t]) /\ Returned(t) /\ UNCHANGED lost
     \/ Handled(call[t]) /\ Tried(t) /\ lost < MaxLost /\ lost' = lost + 1
     \/ Tried(t) /\ UNCHANGED <<server, lost>>
     \/ ~Accepts(call[t]) /\ Raised(t) /\ UNCHANGED <<server, lost>>
  /\ UNCHANGED <<job, store>>

----------------------------------------------------------------------------
(* The SDK: what the training code calls *)

(* The loop trains a step and reports it; another thread reports where it is *)
NextStep(t) == IF t = Main THEN step < MaxSteps /\ step' = step + 1 ELSE step > 0 /\ step' = step

(* The check of _finished, which takes no lock, with the append, which     *)
(* does: one thread cannot tell. A flush is due when the batch is full or  *)
(* the interval over.                                                      *)
LogMetrics(t) ==
  /\ At(t, "free") /\ ~finished /\ Cardinality(logged) < MaxLogged
  /\ NextStep(t)
  /\ LET point == [attempt |-> attempt, by |-> t, step |-> step'] IN
       /\ point \notin logged
       /\ logged' = logged \cup {point}
       /\ buffer' = buffer \cup {point}
  /\ \/ call' = [call EXCEPT ![t] = [Free EXCEPT !.at = "flush"]]
     \/ Cardinality(buffer') < BatchSize /\ call' = call
  /\ UNCHANGED <<job, process, server, store, saved, finished, raising, dropped, lost>>

(* The buffer is swapped for an empty one under the lock *)
Flush(t) ==
  /\ At(t, "flush")
  /\ buffer' = {}
  /\ IF buffer = {}
     THEN Proceed(t, call[t].then)
     ELSE /\ call' = [call EXCEPT ![t].at = "metrics", ![t].batch = buffer]
          /\ UNCHANGED finished
  /\ UNCHANGED <<job, process, server, store, step, saved, raising, logged, dropped, lost>>

(* Mutant: the checkpoint goes first, the buffer when it is due *)
LogArtifactAtOnce(t) ==
  /\ At(t, "free") /\ t = Main /\ step > saved
  /\ saved' = step
  /\ call' = [call EXCEPT ![t] = [Free EXCEPT !.at = "register"]]
  /\ UNCHANGED <<job, process, server, store, step, buffer, finished, raising, logged, dropped, lost>>

(* The loop checkpoints a step at most once; buffered metrics go out first *)
LogArtifact(t) ==
  /\ At(t, "free") /\ t = Main /\ step > saved
  /\ saved' = step
  /\ call' = [call EXCEPT ![t] = [Free EXCEPT !.at = "flush", !.then = "register"]]
  /\ UNCHANGED <<job, process, server, store, step, buffer, finished, raising, logged, dropped, lost>>

(* _put_file: one try, to the store; without an answer the row is given up *)
Put(t) ==
  /\ At(t, "put")
  /\ \/ /\ object' = [object EXCEPT ![Key(call[t].row)] = call[t].row]
        /\ call' = [call EXCEPT ![t].at = "confirm"]
     \/ /\ object' \in {object, [object EXCEPT ![Key(call[t].row)] = call[t].row]}
        /\ call' = [call EXCEPT ![t].at = "abandon"]
  /\ UNCHANGED <<job, process, server, run, late, belated, lost>>

(* The loop goes on from the step its checkpoint was taken at *)
Resumed == step' = artifacts[offer].step /\ saved' = step'

(* _download and _verify: the digest of what arrived is the row's, or the  *)
(* promised resume raises                                                  *)
Download(t) ==
  /\ At(t, "download")
  /\ \/ /\ object[Key(offer)] = offer
        /\ Resumed
        /\ Goto(t, "free") /\ UNCHANGED raising
     \/ /\ raising' = TRUE /\ Goto(t, "leave") /\ UNCHANGED <<step, saved>>
  /\ UNCHANGED <<job, process, server, store, buffer, finished, logged, dropped, lost>>

(* __exit__ calls finish() whether the loop ended or raised *)
Finish(t) ==
  /\ t = Main
  /\ \/ At(t, "leave") /\ UNCHANGED raising
     \/ At(t, "free") /\ step = MaxSteps /\ UNCHANGED raising
     \/ At(t, "free") /\ raising' = TRUE
  /\ call' = [call EXCEPT ![t] = [Free EXCEPT !.at = "flush", !.then = "close"]]
  /\ UNCHANGED <<job, process, server, store, step, saved, buffer, finished, logged, dropped, lost>>

----------------------------------------------------------------------------
(* The job around the process *)

(* The executor's markLaunched commits *)
MarkLaunched ==
  /\ state = "scheduling" /\ state' = "launched"
  /\ UNCHANGED <<attempt, credential, resume, offer, process, run, call, server, store, lost>>

(* The attempt's token goes: expired some time after its end was seen,     *)
(* revoked for the next launch, or for this one when a restart repeats it  *)
Revoked ==
  /\ credential /\ credential' = FALSE
  /\ UNCHANGED <<attempt, state, resume, offer, process, run, call, server, store, lost>>

Underway(labels) ==
  IF process = "running" /\ call[Main].at \in labels THEN {call[Main].row} ELSE {}

(* A signed upload needs no token and no process that waits for its answer *)
Killed ==
  /\ process = "running" /\ process' = "failed"
  /\ late' = late \cup Underway({"put"})
  /\ UNCHANGED <<job, run, call, server, object, belated, lost>>

LateUpload ==
  \E r \in late :
    /\ object' = [object EXCEPT ![Key(r)] = r]
    /\ late' = late \ {r} /\ belated' = belated \cup {r}
    /\ UNCHANGED <<job, process, run, call, server, lost>>

(* Mutant: the budget is off by one *)
RetryPastBudget ==
  /\ attempt <= MaxAttempts
  /\ state = "launched" /\ state' = "requeued"
  /\ resume' = LatestResumableCheckpoint
  /\ belated' = belated \cup Underway({"put", "confirm"})
  /\ UNCHANGED <<attempt, credential, offer, process, run, call, server, object, late, lost>>

(* considerRetry, once the attempt is seen to have failed or its Job is    *)
(* seen no longer: then the process may be running for a while yet, and    *)
(* what it has in hand may still arrive                                    *)
Retry ==
  /\ attempt < MaxAttempts
  /\ state = "launched" /\ state' = "requeued"
  /\ resume' = LatestResumableCheckpoint
  /\ belated' = belated \cup Underway({"put", "confirm"})
  /\ UNCHANGED <<attempt, credential, offer, process, run, call, server, object, late, lost>>

(* The next attempt is launched with a token and the offer of its own. A   *)
(* process still there has lost its token and can do no more than upload.  *)
NewAttempt ==
  /\ state = "requeued" /\ state' = "scheduling"
  /\ attempt' = attempt + 1 /\ credential' = TRUE /\ offer' = resume
  /\ late' = late \cup Underway({"put"})
  /\ process' = "running"
  /\ step' = 0 /\ saved' = 0 /\ buffer' = {} /\ finished' = FALSE /\ raising' = FALSE
  /\ call' = Begun
  /\ UNCHANGED <<resume, logged, dropped, server, object, belated, lost>>

ProcessStep ==
  \E t \in Threads :
    \/ Request(t) \/ LogMetrics(t) \/ Flush(t) \/ LogArtifact(t)
    \/ Put(t) \/ Download(t) \/ Finish(t)

Next == ProcessStep \/ MarkLaunched \/ Revoked \/ Killed \/ LateUpload \/ Retry \/ NewAttempt

Spec     == Init /\ [][Next]_vars
FairSpec == Spec /\ WF_vars(ProcessStep)

----------------------------------------------------------------------------
(* Every variable has its type: Run in _run.py and the rows it reports to. *)
TypeOK ==
  /\ attempt \in 1 .. MaxAttempts
  /\ process \in {"running", "failed", "succeeded"}
  /\ state \in {"scheduling", "launched", "requeued"}
  /\ {credential, finished, raising} \subseteq BOOLEAN
  /\ {resume, offer} \subseteq {None} \cup DOMAIN artifacts
  /\ step \in 0 .. MaxSteps /\ saved \in 0 .. step
  /\ buffer \subseteq logged /\ logged \subseteq Points /\ dropped \subseteq logged
  /\ recorded \subseteq logged
  /\ call \in [Threads -> [at : Calls, then : {"free", "register", "close"},
                           batch : SUBSET logged, tries : 0 .. Retries,
                           row : {None} \cup DOMAIN artifacts]]
  /\ artifacts \in Seq([step : 1 .. MaxSteps, status : {"PENDING", "READY", "FAILED"}])
  /\ lost \in 0 .. MaxLost
  /\ object \in [Keys -> {None} \cup DOMAIN artifacts]
  /\ late \subseteq DOMAIN artifacts /\ belated \subseteq DOMAIN artifacts

(* The checkpoint an attempt is offered can be fetched: it is confirmed,   *)
(* and the bytes at its key are the ones its digest was taken of, whatever *)
(* uploads were cut short.  Only an attempt that went on uploading or      *)
(* confirming after it had been given up can have put others there: the    *)
(* digest then refuses them, to this attempt and to every later one        *)
(* (latestResumableCheckpoint in repos/jobs.js, fetch_resume in _run.py).  *)
OfferFetchable ==
  offer # None =>
    /\ artifacts[offer].status = "READY"
    /\ \/ object[Key(offer)] = offer
       \/ {offer, object[Key(offer)]} \cap belated # {}

(* A confirmed checkpoint is not ahead of the history of the work it       *)
(* contains: every step up to it was recorded, or said to be dropped, by   *)
(* some attempt, however that attempt or a later one ended (log_artifact). *)
HistoryKept ==
  \A r \in DOMAIN artifacts : artifacts[r].status = "READY" =>
    \A s \in 1 .. artifacts[r].step :
      \E a \in 1 .. MaxAttempts :
        [attempt |-> a, by |-> Main, step |-> s] \in recorded \cup dropped

(* When a run has been finished, by itself or by an exception, each point  *)
(* it logged is in the history or was reported as dropped (flush, finish). *)
NothingSilentlyLost ==
  finished => \A p \in logged : p.attempt = attempt => p \in recorded \cup dropped

(* An attempt ends, whatever the control plane does to its requests, or if *)
(* it never answers again: reporting never holds the training process      *)
(* (Client.request, Run.flush, Run.finish).                                *)
AttemptsEnd ==
  \A a \in 1 .. MaxAttempts :
    attempt = a /\ process = "running" ~> ~(attempt = a /\ process = "running")
=============================================================================
