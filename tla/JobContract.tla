---------------------------- MODULE JobContract ----------------------------
(***************************************************************************)
(* What the job service promises its users about one job, stated on what   *)
(* they can see (the job's phase and its attempt number) and on what is    *)
(* true in the cluster (which attempts have a workload executing).         *)
(*                                                                         *)
(* The promise: a workload starts only for the current attempt of a job    *)
(* that has been claimed, never beside another one, and no phase that says *)
(* "not running" is entered while a workload executes.  There is no        *)
(* executor, no snapshot and no partial failure here.                      *)
(***************************************************************************)
EXTENDS Naturals

CONSTANTS Jobs,        \* the jobs users may submit
          MaxRetries   \* the retry budget a job is submitted with

VARIABLES phase,       \* what the job's state means to its owner
          tries,       \* the attempt number, from 0
          executing    \* the attempts with a workload in the cluster

contractVars == <<phase, tries, executing>>

Phases == {"unknown", "waiting", "claimed", "stopping",
           "succeeded", "failed", "cancelled"}

ContractTypeOK ==
  /\ phase \in [Jobs -> Phases]
  /\ tries \in [Jobs -> 0 .. MaxRetries]
  /\ executing \in [Jobs -> SUBSET Nat]

ContractInit ==
  /\ phase = [j \in Jobs |-> "unknown"]
  /\ tries = [j \in Jobs |-> 0]
  /\ executing = [j \in Jobs |-> {}]

Move(j, from, to) ==
  /\ phase[j] = from
  /\ phase' = [phase EXCEPT ![j] = to]
  /\ UNCHANGED executing

Idle(j) == executing[j] = {}

Accept(j)  == Move(j, "unknown", "waiting") /\ UNCHANGED tries
Claimed(j) == Move(j, "waiting", "claimed") /\ UNCHANGED tries
PutBack(j) == Idle(j) /\ Move(j, "claimed", "waiting") /\ UNCHANGED tries
Withdraw(j) == Move(j, "waiting", "cancelled") /\ UNCHANGED tries
AskToStop(j) == Move(j, "claimed", "stopping") /\ UNCHANGED tries
Stopped(j) == Idle(j) /\ Move(j, "stopping", "cancelled") /\ UNCHANGED tries
Succeed(j) == Idle(j) /\ Move(j, "claimed", "succeeded") /\ UNCHANGED tries
Fail(j)    == Idle(j) /\ Move(j, "claimed", "failed") /\ UNCHANGED tries

Retry(j) ==
  /\ Move(j, "failed", "waiting")
  /\ tries[j] < MaxRetries
  /\ tries' = [tries EXCEPT ![j] = @ + 1]

(* A launch already under way may still land after the owner asks to stop. *)
Start(j) ==
  /\ phase[j] \in {"claimed", "stopping"}
  /\ Idle(j)
  /\ executing' = [executing EXCEPT ![j] = {tries[j]}]
  /\ UNCHANGED <<phase, tries>>

(* The workload finishes, fails, disappears or is deleted. *)
End(j) ==
  /\ ~Idle(j)
  /\ executing' = [executing EXCEPT ![j] = {}]
  /\ UNCHANGED <<phase, tries>>

ContractNext ==
  \E j \in Jobs :
    \/ Accept(j) \/ Claimed(j) \/ PutBack(j) \/ Withdraw(j) \/ AskToStop(j)
    \/ Stopped(j) \/ Succeed(j) \/ Fail(j) \/ Retry(j) \/ Start(j) \/ End(j)

ContractSpec == ContractInit /\ [][ContractNext]_contractVars

(* At most the current attempt executes, and only while the job is claimed *)
(* or stopping.                                                            *)
OneWorkload ==
  \A j \in Jobs :
    /\ executing[j] \subseteq {tries[j]}
    /\ executing[j] # {} => phase[j] \in {"claimed", "stopping"}
=============================================================================
