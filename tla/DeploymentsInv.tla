--------------------------- MODULE DeploymentsInv ---------------------------
(***************************************************************************)
(* What holds between the steps of requests and passes on a deployment:    *)
(* what a process has read, what is left for it to do, and which rows      *)
(* account for the objects there are in the cluster.                       *)
(***************************************************************************)
EXTENDS Deployments

(* Whoever is past its first query holds a row that existed, only a pass   *)
(* observes, targets it has listed, or scales down, and a Service follows  *)
(* a Deployment                                                            *)
Held ==
  /\ \A p \in Procs : pc[p] \notin {"idle", "commit", "apply"} => snap[p].row # None
  /\ \A o \in Operators : pc[o] # "scale"
  /\ \A p \in Procs : pc[p] = "service" => todo[p] # {}
  /\ pc[Sync] = "observe" => todo[Sync] # {} /\ todo[Sync] \subseteq Served(snap[Sync].targets)

(* A deploy or a rollout about to commit names a version                   *)
Named == \A o \in Operators : pc[o] = "commit" => ask[o].version \in Versions

(* The split a rollout has worked out is one it may write                  *)
RolloutAccepted == \A o \in Operators :
  pc[o] = "commit" /\ ask[o].op = "rollout" => ValidWeights(RolledOut(o))

(* A deployment has at most one token in its life, and no other is in use *)
OneToken ==
  /\ minted \in {0, 1} /\ token \in {0, minted} /\ secret \in {0, minted}
  /\ row = None => minted = 0
  /\ Exists => token = minted

----------------------------------------------------------------------------
(* Requests and passes that do not overlap *)

Alone == \A p, q \in Procs : pc[p] # "idle" /\ pc[q] # "idle" => p = q

(* What these have read is still what there is *)
Reading == {"commit", "retire", "retireService", "removeTarget", "undeploy", "undeployService",
            "undeployFront", "undeploySecret", "undeployRow"}

Fresh(p) ==
  /\ pc[p] \in Reading => snap[p].row = row /\ snap[p].targets = targets
  /\ pc[p] # "idle" => row # Gone
  /\ pc[p] \notin {"idle", "commit"} => Exists
  /\ pc[p] = "commit" => ask[p].version \in Versions
  /\ pc[p] \in {"retire", "retireService", "removeTarget"} =>
       /\ ask[p].version \in Served(targets)
       /\ targets[ask[p].version].weight = 0

Whole ==
  /\ WholeSplit
  /\ ~Exists => Served(targets) = {}

CalmInv == Alone /\ Whole /\ \A p \in Procs : Fresh(p)

(* A process at work takes the address to be where the row has it, and     *)
(* what it is about to delete is not what the row says is serving          *)
Agrees(p) ==
  /\ pc[p] \notin {"idle", "commit", "apply", "noteFront", "noteServing"} =>
       snap[p].row.serving = row.serving /\ snap[p].row.k8s = row.k8s
  /\ pc[p] = "noteServing" => row.k8s
  /\ pc[p] \in {"delete", "deleteService"} => todo[p] # {} /\ row.serving \notin todo[p]
  /\ pc[p] = "retire" => row.serving # ask[p].version

AddressInv == \A p \in Procs : Agrees(p)

----------------------------------------------------------------------------
(* What there is in the cluster, and where it is named *)

(* What a process still has to do covers what it has not recorded *)
Covers(p) ==
  /\ pc[p] \in {"token", "secret", "targets", "service", "launch"} => todo[p] \subseteq Served(targets)
  /\ pc[p] \in {"launch", "scale"} => todo[p] # {}
  /\ pc[p] \in {"token", "secret", "targets", "service", "launch", "router", "noteRouter"} =>
       (snap[p].row.router => row.router)
  /\ pc[p] \in {"observe", "observeRouter", "move", "noteMove"} =>
       \A v \in Served(snap[p].targets) :
         targets[v] # None /\ (snap[p].targets[v].launched => targets[v].launched)
  /\ pc[p] = "scale" => \A v \in todo[p] : targets[v] # None /\ targets[v].launched
  /\ pc[p] = "forgetRouter" => router = "absent"

Left(v) == pods[v] # "absent" \/ v \in services

(* What an undeploy or a retire has not taken away yet it will, but for    *)
(* what was never recorded *)
Clears(p) ==
  /\ pc[p] = "retireService" => pods[ask[p].version] = "absent"
  /\ pc[p] = "removeTarget" /\ Left(ask[p].version) => ask[p].version \in strays.versions
  /\ pc[p] \in {"undeploy", "undeployService"} =>
       \A v \in Versions : Left(v) => v \in todo[p] \cup strays.versions
  /\ pc[p] = "undeployService" => todo[p] # {} /\ pods[Lowest(todo[p])] = "absent"
  /\ pc[p] \in {"undeployFront", "undeploySecret", "undeployRow"} =>
       /\ router # "absent" => strays.router
       /\ \A v \in Versions : Left(v) => v \in strays.versions
  /\ pc[p] \in {"undeploySecret", "undeployRow"} /\ front # None => strays.front
  /\ pc[p] = "undeployRow" => secret = 0

(* Every object is named in a row or about to be, or was left unrecorded *)
Accounted ==
  /\ \A v \in Versions : Left(v) =>
       \/ Launched(v) \/ v \in strays.versions
       \/ \E p \in Procs : pc[p] \in {"service", "launch"} /\ v = Lowest(todo[p])
  /\ router # "absent" => RouterNamed \/ strays.router \/ \E p \in Procs : pc[p] = "noteRouter"
  /\ front # None => FrontNamed \/ strays.front \/ \E p \in Procs : pc[p] = "noteFront"
  /\ row = Gone => secret = 0

OrphanInv == Accounted /\ \A p \in Procs : Covers(p) /\ Clears(p)
=============================================================================
