------------------------------ MODULE JobState ------------------------------
(***************************************************************************)
(* The job state machine of domain/job-state.js: the states, the edges     *)
(* between them, and the sets of states the rest of the platform asks for. *)
(* Every write of training_jobs.state goes through CanTransition.          *)
(***************************************************************************)

JobStates == {"CREATED", "QUEUED", "SCHEDULING", "STARTING", "RUNNING",
              "SUCCEEDED", "FAILED", "RETRYING", "CANCELLING", "CANCELLED"}

(* The states an edge leads to, by source state. *)
NextStates ==
  [s \in JobStates |->
     CASE s = "CREATED"    -> {"QUEUED", "CANCELLED"}
       [] s = "QUEUED"     -> {"SCHEDULING", "CANCELLING", "FAILED"}
       [] s = "SCHEDULING" -> {"STARTING", "QUEUED", "CANCELLING", "FAILED"}
       [] s = "STARTING"   -> {"RUNNING", "FAILED", "CANCELLING"}
       [] s = "RUNNING"    -> {"SUCCEEDED", "FAILED", "CANCELLING"}
       [] s = "FAILED"     -> {"RETRYING"}
       [] s = "RETRYING"   -> {"QUEUED", "FAILED"}
       [] s = "CANCELLING" -> {"CANCELLED"}
       [] OTHER            -> {}]

CanTransition(from, to) == from \in JobStates /\ to \in NextStates[from]

Terminal == {s \in JobStates : NextStates[s] = {}}

(* States that end an attempt; FAILED is one although it is not terminal. *)
Outcomes == {"SUCCEEDED", "FAILED", "CANCELLED"}

(* Provably nothing has run yet; metrics and artifacts are refused here. *)
NotYetLaunched == {"CREATED", "QUEUED", "SCHEDULING"}

(* States that hold capacity and quota (repos/nodes.js OCCUPYING_STATES);   *)
(* the executor reconciles exactly the same four (listJobsToReconcile).    *)
OccupyingStates == {"SCHEDULING", "STARTING", "RUNNING", "CANCELLING"}

(* Cancelling from one of these waits for the executor's teardown. *)
CancelNeedsExecutor == {"SCHEDULING", "STARTING", "RUNNING"}
=============================================================================
