---------------------------- MODULE SchedulerInv ----------------------------
(***************************************************************************)
(* The inductive invariants behind the scheduler's safety.  GateInv holds  *)
(* for any number of replicas: what a gate has answered is still true when *)
(* the answer is written, because the advisory lock keeps other bindings   *)
(* out and the row lock keeps the job's own state in place.  SoleInv adds  *)
(* what is true of a single replica, whose copies of a row are stale by at *)
(* most a user's cancel.                                                   *)
(***************************************************************************)
EXTENDS Scheduler

Gated(n)  == Held[n] \ unchecked
Charged   == Placed \ unchecked

(* One transaction of scheduleJob at a time: what the advisory lock is for *)
OnePass == \A d, e \in Replicas : pc[d] \in Transaction /\ pc[e] \in Transaction => d = e

(* An answer already given is still good for the bind that follows         *)
QuotaAnswered ==
  \A e \in Replicas : pc[e] \in {"place", "bind"} /\ cur[e] \in Occupying =>
    Charged \cup {cur[e]} \in Budget

RoomAnswered ==
  \A e \in Replicas : pc[e] = "bind" /\ cur[e] \in Occupying =>
    Gated(choice[e]) \cup {cur[e]} \in Room[choice[e]]

(* What the gates admitted, and what they have just answered, is within    *)
(* every node's room and every project's quota (the race of db/locks.js).  *)
GateInv ==
  /\ TypeOK
  /\ OnePass
  /\ \A n \in Nodes : Gated(n) \in Room[n]
  /\ Charged \in Budget
  /\ QuotaAnswered /\ RoomAnswered

SoleReplica == \A d, e \in Replicas : d = e

Unplaced == {"wait", "quota", "place", "bind", "requeue"}
Launching == {"reread", "create", "mark"}

(* A queued job holds no node, a Pod belongs to an occupying job, and it   *)
(* is where that job is bound.                                             *)
RowsCoherent ==
  \A j \in Jobs :
    /\ row[j].state \in {"NONE", "QUEUED"} => row[j].node = None
    /\ pod[j] # None => j \in Occupying /\ pod[j] = row[j].node

ListsFresh ==
  \A e \in Replicas :
    /\ phase[e] # "reconcile" => DOMAIN listed[e] = {}
    /\ phase[e] = "idle" => pc[e] = "next"
    /\ \A j \in DOMAIN listed[e] :
         /\ listed[e][j].node = row[j].node
         /\ listed[e][j].state \in {"SCHEDULING", "CANCELLING"}
         /\ row[j].state \in {listed[e][j].state, "CANCELLING"}

HoldsFresh ==
  \A e \in Replicas : pc[e] # "next" =>
    /\ cur[e] \in Jobs \ DOMAIN listed[e]
    /\ row[cur[e]].state \in {"SCHEDULING", "CANCELLING"}
    /\ pc[e] \in Unplaced => row[cur[e]].node = None
    /\ pc[e] \in Launching => row[cur[e]].node # None
    /\ pc[e] \in {"create", "mark"} => copy[e].node = row[cur[e]].node

(* One replica never claims past the gates: nothing is bound while queued, *)
(* and a copy is stale by a cancel at most.                                *)
SoleInv == GateInv /\ unchecked = {} /\ RowsCoherent /\ ListsFresh /\ HoldsFresh
=============================================================================
