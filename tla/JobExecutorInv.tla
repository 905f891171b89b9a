--------------------------- MODULE JobExecutorInv ---------------------------
(***************************************************************************)
(* The inductive invariant behind NoOrphan, CancelledIsGone and            *)
(* WithinSlots.  None of them is inductive: whether a step on a job is     *)
(* safe depends on how far the row may have moved since the executor       *)
(* copied it.  With one executor the answer is "by a user's cancel only",  *)
(* which is what Holds and Lists say, label by label.                      *)
(***************************************************************************)
EXTENDS JobExecutor

SoleExecutor == \A e, f \in Executors : e = f

Idle(j) == \A r \in Runs : r[1] = j => work[r] \notin Executing

(* Whatever executes is backed by its row: attempt, state and placement.   *)
Backed ==
  \A r \in Runs : work[r] \in Executing =>
    /\ r[2] = row[r[1]].attempt
    /\ row[r[1]].state \in OccupyingStates
    /\ row[r[1]].bound

(* A queued job holds no capacity, a recorded name is the attempt's own,   *)
(* and only a failure carries a verdict.                                   *)
RowsCoherent ==
  \A j \in Jobs :
    /\ row[j].state \in {"NONE", "QUEUED"} => ~row[j].bound
    /\ row[j].name \in {NoName, row[j].attempt}
    /\ row[j].decision # "none" =>
         row[j].state = "FAILED" /\ row[j].decision # "NOT_APPLICABLE"

(* Since copy c was taken of j's row, at most a cancel has happened to it. *)
UpToCancel(c, j) ==
  /\ c.attempt = row[j].attempt
  /\ c.name \in {NoName, c.attempt}
  /\ c.bound = row[j].bound
  /\ row[j].state \in {c.state, "CANCELLING"}

Lists(e) ==
  /\ phase[e] # "reconcile" => DOMAIN listed[e] = {}
  /\ phase[e] # "retry" => fails[e] = {}
  /\ \A j \in DOMAIN listed[e] :
       listed[e][j].state \in OccupyingStates /\ UpToCancel(listed[e][j], j)
  /\ \A j \in fails[e] : row[j].state = "FAILED"

Launching == {"schedule", "reread", "mint", "create", "mark"}
Stopping  == {"delete", "finish"}
Watching  == {"observe", "record"}

Holds(e) ==
  /\ pc[e] # "next" => cur[e] \in Jobs \ DOMAIN listed[e]
  /\ pc[e] \in Launching \cup Stopping \cup Watching =>
       /\ snap[e].attempt = row[cur[e]].attempt
       /\ snap[e].name \in {NoName, snap[e].attempt}
  /\ pc[e] \in Launching =>
       /\ row[cur[e]].state \in {"SCHEDULING", "CANCELLING"}
       /\ row[cur[e]].bound = (pc[e] # "schedule")
  /\ pc[e] \in Stopping => row[cur[e]].state = "CANCELLING"
  /\ pc[e] \in Watching => row[cur[e]].state \in {"STARTING", "RUNNING", "CANCELLING"}
  /\ pc[e] = "finish" => Idle(cur[e])
  /\ pc[e] = "record" /\ seen[e] \notin Executing => Idle(cur[e])

(* The strengthening: rows, workloads and every copy an executor holds.    *)
Core ==
  /\ Backed
  /\ RowsCoherent
  /\ \A e \in Executors : Lists(e) /\ Holds(e)

IInv == TypeOK /\ Core /\ Cardinality(Allocated) <= Slots

(***************************************************************************)
(* Behind ResultsObserved and NoStaleReporter.  Both relate the cluster,   *)
(* which keeps what earlier attempts left there, to the row's attempt.     *)
(***************************************************************************)

(* A success in the cluster, or on its way into the row, really happened.  *)
Truthful ==
  /\ \A r \in Runs : work[r] = "succeeded" => r \in completed
  /\ \A e \in Executors : pc[e] = "record" /\ seen[e] = "succeeded" =>
       <<cur[e], row[cur[e]].attempt>> \in completed

(* No attempt is in the cluster before its turn; and once the token of the *)
(* attempt being launched is minted, no earlier one of the job is live.    *)
Superseded ==
  /\ \A r \in Runs : r[2] > row[r[1]].attempt => work[r] = "absent"
  /\ \A e \in Executors : pc[e] \in {"create", "mark"} =>
       \A r \in valid : r[1] = cur[e] => r[2] >= row[cur[e]].attempt

ReportInv == Truthful /\ Superseded /\ ResultsObserved /\ NoStaleReporter
=============================================================================
