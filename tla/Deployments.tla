---------------------------- MODULE Deployments ----------------------------
(***************************************************************************)
(* One deployment from its creation to its removal, services/deployments.js*)
(* and the rows and cluster objects it works on.  API requests (Operators) *)
(* and the status loop (Sync) are processes of one control plane; every    *)
(* await between two effects is a point where another may run.             *)
(*                                                                         *)
(* Simplifications.  A version runs one replica, so it is ready or it is   *)
(* not.  A status is written in the step that observes it.  Versions are   *)
(* deployable; what makes one so is the registry's business.  After        *)
(* undeploy the same name is a deployment with another id, whose objects   *)
(* have other names.                                                       *)
(***************************************************************************)
EXTENDS Routing

CONSTANTS
  Versions,      \* model versions, numbers
  Shares,        \* the shares an operator asks a rollout for
  Operators,     \* requests the API may be handling at once
  Sync,          \* the status loop
  Router,        \* the front Service selects the router's pods
  None,          \* a null column, an object that does not exist
  Gone,          \* the deployment's row after undeploy
  Overlap,       \* whether requests and passes may interleave
  MaxRequests,   \* bound on the requests made
  Faults,        \* which of "end" (a failed call, a restart), "pods" and "load" may happen
  MaxFaults      \* bound on how many do

Procs      == Operators \cup {Sync}
FaultKinds == {"end", "pods", "load"}

ASSUME VersionsAssumption == Versions \subseteq Nat \ {0} /\ IsFiniteSet(Versions)
ASSUME SharesAssumption == Shares \subseteq 0 .. TOTAL_WEIGHT
ASSUME ProcessAssumption == Sync \notin Operators
ASSUME NullAssumption == /\ None # Gone /\ None \notin Versions
                         /\ Router \notin Versions \cup {None}
ASSUME BoundAssumption == Overlap \in BOOLEAN /\ MaxRequests \in Nat
                          /\ MaxFaults \in Nat
                          /\ Faults \subseteq FaultKinds

VARIABLES
  row,      \* the deployments row
  targets,  \* its deployment_targets rows, by version
  token,    \* its live serving token, 0 when there is none
  minted,   \* serving tokens minted so far
  pods,     \* each version's Deployment in the cluster
  services, \* the versions with a Service of their own
  router,   \* the router's Deployment
  front,    \* what the front Service selects
  secret,   \* the token in the deployment's Secret, 0 when it is absent
  pc,       \* where each process is
  ask,      \* the request an operator made
  snap,     \* the row and targets a process has loaded
  todo,     \* the versions its loop has still to handle
  begun,    \* requests made so far
  faults,   \* how often each kind of fault has happened
  strays    \* history: what a request has made and, failing, not recorded

rows    == <<row, targets, token, minted>>
cluster == <<pods, services, router, front, secret>>
locals  == <<pc, ask, snap, todo>>
bounds  == <<begun, faults, strays>>
vars    == <<rows, cluster, locals, bounds>>

Statuses  == {"PENDING", "PROGRESSING", "READY", "DEGRADED", "FAILED", "STOPPED"}
PodStates == {"absent", "scaled", "starting", "ready", "stuck"}
Labels    == {"idle", "commit", "apply", "token", "secret", "targets", "service", "launch",
              "router", "noteRouter", "front", "noteFront", "noteServing", "judge",
              "removeRouter", "forgetRouter", "reap", "delete", "deleteService", "retire",
              "retireService", "removeTarget", "undeploy", "undeployService", "undeployFront",
              "undeploySecret", "undeployRow", "observe", "observeRouter", "move", "noteMove",
              "scale"}
Row    == [status : Statuses, k8s : BOOLEAN, serving : Versions \cup {None},
           router : BOOLEAN, routerUp : BOOLEAN]
Target == [weight : 0 .. TOTAL_WEIGHT, status : Statuses, launched : BOOLEAN]
Loaded == [row : Row, targets : [Versions -> Target \cup {None}]]
NoSnap == [row |-> None, targets |-> [v \in Versions |-> None]]
Ask    == [op : {"deploy", "rollout", "retire", "undeploy"}, version : Versions \cup {None},
           share : 0 .. TOTAL_WEIGHT]
NoAsk  == [op |-> "undeploy", version |-> None, share |-> 0]
Strays == [versions : SUBSET Versions, router : BOOLEAN, front : BOOLEAN]

(* A null, or a row that is gone, is no row *)
ASSUME NoRowAssumption == None \notin Row \cup Target /\ Gone \notin Row

Lowest(S) == CHOOSE v \in S : \A w \in S : v <= w

(* ----------------------- what a loaded row says ----------------------- *)
Served(t)  == {v \in Versions : t[v] # None}
Split(t)   == [v \in Served(t) |-> t[v].weight]
Serving(t) == TakingTraffic(Split(t))

DesiredFront(t) ==
  IF Serving(t) = {} THEN None
  ELSE IF NeedsRouter(Split(t)) THEN Router ELSE Lowest(Serving(t))

CurrentFront(r) ==
  IF ~r.k8s THEN None ELSE IF r.serving # None THEN r.serving ELSE Router

(* mutant: the column is given a marker for the router                    *)
ServingColumnMarked(f) == f

(* serving_version has no value for the router                             *)
ServingColumn(f) == IF f = Router THEN None ELSE f

(* mutant: replicas by the weight alone                                    *)
WantsPodsByWeight(s, v) == s.targets[v].weight > 0

(* buildTargetManifest: replicas for what takes traffic and for what the   *)
(* row says the address resolves to.                                       *)
WantsPods(s, v) == s.targets[v].weight > 0 \/ v = s.row.serving

(* The same template again leaves the Pods there are                       *)
Applied(state, wants) ==
  IF ~wants THEN "scaled" ELSE IF state \in {"ready", "stuck"} THEN state ELSE "starting"

StatusFromObservation(state, previous) ==
  CASE state = "absent" -> "FAILED"
    [] state = "ready"  -> "READY"
    [] state = "scaled" -> "STOPPED"
    [] OTHER -> IF previous \in {"READY", "DEGRADED"} THEN "DEGRADED" ELSE "PROGRESSING"

FrontReady(r, t) ==
  LET current == CurrentFront(r)
  IN IF current = Router THEN r.routerUp
     ELSE current \in Served(t) /\ t[current].status = "READY"

RollUpStatus(r, t, previous) ==
  LET serving == Serving(t)
      are(S)  == {v \in serving : t[v].status \in S}
  IN CASE serving = {}              -> "STOPPED"
       [] are({"FAILED"}) = serving -> "FAILED"
       [] OTHER -> IF ~FrontReady(r, t)
                     THEN IF previous \in {"READY", "DEGRADED"} THEN "DEGRADED" ELSE "PROGRESSING"
                   ELSE IF are({"FAILED", "DEGRADED"}) # {} THEN "DEGRADED"
                   ELSE IF are({"READY"}) = serving /\ CurrentFront(r) = DesiredFront(t) THEN "READY"
                   ELSE "PROGRESSING"

Exists == row \notin {None, Gone}

(* ---------------------------- control flow ----------------------------- *)
Goto(p, at) == pc' = [pc EXCEPT ![p] = at]
Load(p, s)  == snap' = [snap EXCEPT ![p] = s]
Here        == [row |-> row, targets |-> targets]
Loop(p, S)  == todo' = [todo EXCEPT ![p] = S]

Drop(p) ==
  /\ Goto(p, "idle") /\ Load(p, NoSnap) /\ Loop(p, {})
  /\ ask' = [ask EXCEPT ![p] = NoAsk]

(* One request and one pass at a time, unless they may overlap             *)
MayStart(p) == pc[p] = "idle" /\ (Overlap \/ \A q \in Procs : pc[q] = "idle")

Init ==
  /\ row = None /\ targets = [v \in Versions |-> None] /\ token = 0 /\ minted = 0
  /\ pods = [v \in Versions |-> "absent"] /\ services = {}
  /\ router = "absent" /\ front = None /\ secret = 0
  /\ pc = [p \in Procs |-> "idle"] /\ ask = [p \in Procs |-> NoAsk]
  /\ snap = [p \in Procs |-> NoSnap] /\ todo = [p \in Procs |-> {}]
  /\ begun = 0 /\ faults = [k \in FaultKinds |-> 0]
  /\ strays = [versions |-> {}, router |-> FALSE, front |-> FALSE]

Fault(kind) ==
  /\ kind \in Faults /\ faults["end"] + faults["pods"] + faults["load"] < MaxFaults
  /\ faults' = [faults EXCEPT ![kind] = @ + 1]

(* ------------------------- a request arrives --------------------------- *)
(* Its first query reads the deployment; nothing locks what it read.       *)
Begin(o, a, at, S) ==
  /\ begun < MaxRequests /\ MayStart(o)
  /\ ask' = [ask EXCEPT ![o] = a]
  /\ Load(o, Here) /\ Goto(o, at) /\ Loop(o, S)
  /\ begun' = begun + 1
  /\ UNCHANGED <<rows, cluster, faults, strays>>

DeployModel(o) == \E v \in Versions :
  /\ row # Gone
  /\ Begin(o, [op |-> "deploy", version |-> v, share |-> TOTAL_WEIGHT], "commit", {})

Rollout(o) == \E v \in Versions, s \in Shares :
  /\ Exists
  /\ Begin(o, [op |-> "rollout", version |-> v, share |-> s], "commit", {})

(* Refused while the version takes traffic or the address resolves to it   *)
Retire(o) == \E v \in Versions :
  /\ Exists /\ targets[v] # None
  /\ targets[v].weight = 0 /\ row.serving # v
  /\ Begin(o, [op |-> "retire", version |-> v, share |-> 0], "retire", {})

Undeploy(o) ==
  /\ Exists
  /\ Begin(o, NoAsk, "undeploy", {v \in Served(targets) : targets[v].launched})

(* --------------------- the transaction of a request -------------------- *)
NewTarget(w) == [weight |-> w, status |-> "PENDING", launched |-> FALSE]
NewRow == [status |-> "PENDING", k8s |-> FALSE, serving |-> None, router |-> FALSE,
           routerUp |-> FALSE]

(* upsertTarget; the status and the objects of a row that exists stay      *)
Weighed(t, w) == IF t = None THEN NewTarget(w) ELSE [t EXCEPT !.weight = w]

(* The transaction fails when the row it read, or read not to exist, is no *)
(* longer as it was (the unique name, the reference to the deployment), or *)
(* because the database does.                                              *)
CommitFails(o) ==
  /\ pc[o] = "commit"
  /\ IF row = Gone \/ (row = None) # (snap[o].row = None)
     THEN UNCHANGED faults ELSE Fault("end")
  /\ Drop(o)
  /\ UNCHANGED <<rows, cluster, begun, strays>>

(* mutant: the other versions keep their weights                           *)
CommitDeployBeside(o) ==
  /\ pc[o] = "commit" /\ ask[o].op = "deploy"
  /\ row # Gone /\ (row = None) = (snap[o].row = None)
  /\ row' = IF row = None THEN NewRow ELSE row
  /\ targets' = [targets EXCEPT ![ask[o].version] = Weighed(@, TOTAL_WEIGHT)]
  /\ Goto(o, "apply")
  /\ UNCHANGED <<token, minted, cluster, ask, snap, todo, bounds>>

(* deployModel: every other version it read goes to weight zero            *)
CommitDeploy(o) ==
  /\ pc[o] = "commit" /\ ask[o].op = "deploy"
  /\ row # Gone /\ (row = None) = (snap[o].row = None)
  /\ row' = IF row = None THEN NewRow ELSE row
  /\ targets' = [v \in Versions |->
       IF v = ask[o].version THEN Weighed(targets[v], TOTAL_WEIGHT)
       ELSE IF snap[o].targets[v] # None /\ targets[v] # None THEN Weighed(targets[v], 0)
       ELSE targets[v]]
  /\ Goto(o, "apply")
  /\ UNCHANGED <<token, minted, cluster, ask, snap, todo, bounds>>

(* rollout: the whole split is computed from the weights it read           *)
RolledOut(o) ==
  LET t == snap[o].targets
      a == ask[o]
      now == [v \in Served(t) \cup {a.version} |-> IF t[v] = None THEN 0 ELSE t[v].weight]
  IN ApplyRollout(now, a.version, a.share)

CommitRollout(o) ==
  /\ pc[o] = "commit" /\ ask[o].op = "rollout"
  /\ Exists
  /\ LET next == RolledOut(o) IN
       /\ ValidWeights(next)
       /\ targets' = [v \in Versions |->
            IF v \in DOMAIN next /\ (targets[v] # None \/ snap[o].targets[v] = None)
            THEN Weighed(targets[v], next[v]) ELSE targets[v]]
  /\ Goto(o, "apply")
  /\ UNCHANGED <<row, token, minted, cluster, ask, snap, todo, bounds>>

(* ------------------------- applyDesiredState --------------------------- *)
ApplyReads(o) ==
  /\ pc[o] = "apply"
  /\ IF Exists
     THEN /\ Load(o, Here) /\ Loop(o, Served(targets)) /\ Goto(o, "token")
          /\ UNCHANGED ask
     ELSE Drop(o)
  /\ UNCHANGED <<rows, cluster, bounds>>

(* mutant: every apply mints a token, and the Pods keep the old one until  *)
(* the Secret is written                                                   *)
EnsureFreshToken(o) ==
  /\ pc[o] = "token"
  /\ IF Exists THEN /\ token' = minted + 1 /\ minted' = minted + 1
                    /\ Goto(o, IF token = 0 THEN "secret" ELSE "targets")
                    /\ UNCHANGED <<row, targets, ask, snap, todo>>
     ELSE Drop(o) /\ UNCHANGED rows
  /\ UNCHANGED <<cluster, bounds>>

(* ensureServingToken: minted once, and never again while it lives. Its    *)
(* plaintext is in the Secret or nowhere. A token cannot refer to a        *)
(* deployment that is gone.                                                *)
EnsureServingToken(o) ==
  /\ pc[o] = "token"
  /\ IF token # 0 THEN /\ Goto(o, "targets")
                       /\ UNCHANGED <<rows, ask, snap, todo>>
     ELSE IF Exists THEN /\ token' = minted + 1 /\ minted' = minted + 1
                         /\ Goto(o, "secret")
                         /\ UNCHANGED <<row, targets, ask, snap, todo>>
     ELSE Drop(o) /\ UNCHANGED rows
  /\ UNCHANGED <<cluster, bounds>>

(* Only the pass that minted the token is here, and it is the last minted  *)
ApplySecret(o) ==
  /\ pc[o] = "secret"
  /\ secret' = minted
  /\ Goto(o, "targets")
  /\ UNCHANGED <<rows, pods, services, router, front, ask, snap, todo, bounds>>

(* Each target has its Deployment, then its Service, and then its name in  *)
(* its row                                                                 *)
ApplyTarget(o) ==
  /\ pc[o] = "targets" /\ todo[o] # {}
  /\ LET v == Lowest(todo[o]) IN
       pods' = [pods EXCEPT ![v] = Applied(@, WantsPods(snap[o], v))]
  /\ Goto(o, "service")
  /\ UNCHANGED <<rows, services, router, front, secret, ask, snap, todo, bounds>>

ApplyTargetService(o) ==
  /\ pc[o] = "service"
  /\ services' = services \cup {Lowest(todo[o])}
  /\ Goto(o, "launch")
  /\ UNCHANGED <<rows, pods, router, front, secret, ask, snap, todo, bounds>>

RecordTargetLaunch(o) ==
  /\ pc[o] = "launch"
  /\ LET v == Lowest(todo[o])
         rest == todo[o] \ {v}
     IN /\ targets' = [targets EXCEPT ![v] = IF @ = None THEN @ ELSE [@ EXCEPT !.launched = TRUE]]
        /\ strays' = [strays EXCEPT !.versions = IF targets[v] = None THEN @ ELSE @ \ {v}]
        /\ Loop(o, rest)
        /\ Goto(o, IF rest = {} THEN "router" ELSE "targets")
  /\ UNCHANGED <<row, token, minted, cluster, ask, snap, begun, faults>>

ApplyRouter(o) ==
  /\ pc[o] = "router"
  /\ IF DesiredFront(snap[o].targets) = Router
     THEN router' = Applied(router, TRUE) /\ Goto(o, "noteRouter")
     ELSE Goto(o, "front") /\ UNCHANGED router
  /\ UNCHANGED <<rows, pods, services, front, secret, ask, snap, todo, bounds>>

RecordRouter(o) ==
  /\ pc[o] = "noteRouter"
  /\ row' = IF Exists /\ ~snap[o].row.router THEN [row EXCEPT !.router = TRUE] ELSE row
  /\ strays' = [strays EXCEPT !.router = @ /\ ~Exists]
  /\ Load(o, [snap[o] EXCEPT !.row.router = TRUE])
  /\ Goto(o, "front")
  /\ UNCHANGED <<targets, token, minted, cluster, ask, todo, begun, faults>>

(* The address of a deployment that has none is created pointing at what   *)
(* it should serve; there is nothing serving yet to protect.               *)
ApplyService(o) ==
  /\ pc[o] = "front"
  /\ IF snap[o].row.k8s THEN Goto(o, "judge") /\ UNCHANGED front
     ELSE /\ front' = IF front # None THEN front
                      ELSE IF ServingColumn(DesiredFront(snap[o].targets)) = None THEN Router
                      ELSE DesiredFront(snap[o].targets)
          /\ Goto(o, "noteFront")
  /\ UNCHANGED <<rows, pods, services, router, secret, ask, snap, todo, bounds>>

RecordLaunch(o) ==
  /\ pc[o] = "noteFront"
  /\ row' = IF Exists THEN [row EXCEPT !.k8s = TRUE] ELSE row
  /\ strays' = [strays EXCEPT !.front = @ /\ ~Exists]
  /\ Goto(o, "noteServing")
  /\ UNCHANGED <<targets, token, minted, cluster, ask, snap, todo, begun, faults>>

RecordServingVersion(o) ==
  /\ pc[o] = "noteServing"
  /\ LET v == ServingColumn(DesiredFront(snap[o].targets)) IN
       /\ row' = IF Exists THEN [row EXCEPT !.serving = v] ELSE row
       /\ Load(o, [snap[o] EXCEPT !.row.k8s = TRUE, !.row.serving = v])
  /\ Goto(o, "judge")
  /\ UNCHANGED <<targets, token, minted, cluster, ask, todo, bounds>>

(* The status is judged again from fresh rows                              *)
ApplyJudges(o) ==
  /\ pc[o] = "judge" /\ o # Sync
  /\ IF Exists
     THEN /\ row' = [row EXCEPT !.status = RollUpStatus(row, targets, snap[o].row.status)]
          /\ Goto(o, "removeRouter")
          /\ UNCHANGED <<ask, snap, todo>>
     ELSE Drop(o) /\ UNCHANGED row
  /\ UNCHANGED <<targets, token, minted, cluster, bounds>>

(* removeRouterIfUnused, on the row the caller holds                       *)
RemoveRouter(p) ==
  /\ pc[p] = "removeRouter"
  /\ LET s == snap[p] IN
       IF s.row.router /\ DesiredFront(s.targets) # Router /\ CurrentFront(s.row) # Router
       THEN router' = "absent" /\ Goto(p, "forgetRouter")
       ELSE Goto(p, "reap") /\ UNCHANGED router
  /\ UNCHANGED <<rows, pods, services, front, secret, ask, snap, todo, bounds>>

ForgetRouter(p) ==
  /\ pc[p] = "forgetRouter"
  /\ row' = IF Exists THEN [row EXCEPT !.router = FALSE, !.routerUp = FALSE] ELSE row
  /\ Load(p, [snap[p] EXCEPT !.row.router = FALSE])
  /\ Goto(p, "reap")
  /\ UNCHANGED <<targets, token, minted, cluster, ask, todo, bounds>>

(* reap: what the cluster has and neither the targets nor the address want *)
Doomed == {v \in Versions : /\ pods[v] # "absent"
                            /\ targets[v] = None /\ row.serving # v}

Reaped(p) == IF p = Sync THEN Goto(p, "judge") /\ Loop(p, {}) /\ UNCHANGED <<snap, ask>>
             ELSE Drop(p)

ReapLists(p) ==
  /\ pc[p] = "reap"
  /\ IF Exists /\ Doomed # {} THEN Loop(p, Doomed) /\ Goto(p, "delete") /\ UNCHANGED <<snap, ask>>
     ELSE Reaped(p)
  /\ UNCHANGED <<rows, cluster, bounds>>

(* deleteDeployment: a version's Deployment first, then its Service        *)
ReapDeletes(p) ==
  /\ pc[p] = "delete"
  /\ pods' = [pods EXCEPT ![Lowest(todo[p])] = "absent"]
  /\ Goto(p, "deleteService")
  /\ UNCHANGED <<rows, services, router, front, secret, ask, snap, todo, bounds>>

ReapDeletesService(p) ==
  /\ pc[p] = "deleteService"
  /\ LET v == Lowest(todo[p])
         rest == todo[p] \ {v}
     IN /\ services' = services \ {v}
        /\ IF rest = {} THEN Reaped(p)
           ELSE Loop(p, rest) /\ Goto(p, "delete") /\ UNCHANGED <<snap, ask>>
  /\ UNCHANGED <<rows, pods, router, front, secret, bounds>>

(* -------------------- retire and undeploy, continued ------------------- *)
(* mutant: the row goes, its pods stay                                     *)
RetireRowOnly(o) ==
  /\ pc[o] = "retire"
  /\ Goto(o, "removeTarget")
  /\ UNCHANGED <<rows, cluster, ask, snap, todo, bounds>>

RetireDeletes(o) ==
  /\ pc[o] = "retire"
  /\ LET v == ask[o].version IN
       IF snap[o].targets[v].launched
       THEN pods' = [pods EXCEPT ![v] = "absent"] /\ Goto(o, "retireService")
       ELSE Goto(o, "removeTarget") /\ UNCHANGED pods
  /\ UNCHANGED <<rows, services, router, front, secret, ask, snap, todo, bounds>>

RetireDeletesService(o) ==
  /\ pc[o] = "retireService"
  /\ services' = services \ {ask[o].version}
  /\ Goto(o, "removeTarget")
  /\ UNCHANGED <<rows, pods, router, front, secret, ask, snap, todo, bounds>>

RemoveTarget(o) ==
  /\ pc[o] = "removeTarget"
  /\ targets' = [targets EXCEPT ![ask[o].version] = None]
  /\ Drop(o)
  /\ UNCHANGED <<row, token, minted, cluster, bounds>>

(* The versions whose names are recorded, and no other; then the router    *)
UndeployDeletes(o) ==
  /\ pc[o] = "undeploy" /\ todo[o] # {}
  /\ pods' = [pods EXCEPT ![Lowest(todo[o])] = "absent"]
  /\ Goto(o, "undeployService")
  /\ UNCHANGED <<rows, services, router, front, secret, ask, snap, todo, bounds>>

UndeployDeletesService(o) ==
  /\ pc[o] = "undeployService"
  /\ LET v == Lowest(todo[o]) IN services' = services \ {v} /\ Loop(o, todo[o] \ {v})
  /\ Goto(o, "undeploy")
  /\ UNCHANGED <<rows, pods, router, front, secret, ask, snap, bounds>>

UndeployRouter(o) ==
  /\ pc[o] = "undeploy" /\ todo[o] = {}
  /\ router' = IF snap[o].row.router THEN "absent" ELSE router
  /\ Goto(o, "undeployFront")
  /\ UNCHANGED <<rows, pods, services, front, secret, ask, snap, todo, bounds>>

UndeployFront(o) ==
  /\ pc[o] = "undeployFront"
  /\ front' = IF snap[o].row.k8s THEN None ELSE front
  /\ Goto(o, "undeploySecret")
  /\ UNCHANGED <<rows, pods, services, router, secret, ask, snap, todo, bounds>>

DeleteSecret(o) ==
  /\ pc[o] = "undeploySecret"
  /\ secret' = 0
  /\ Goto(o, "undeployRow")
  /\ UNCHANGED <<rows, pods, services, router, front, ask, snap, todo, bounds>>

(* The targets and the token go with the row (ON DELETE CASCADE)           *)
DeleteRow(o) ==
  /\ pc[o] = "undeployRow"
  /\ row' = Gone /\ targets' = [v \in Versions |-> None] /\ token' = 0
  /\ Drop(o)
  /\ UNCHANGED <<minted, cluster, bounds>>

(* -------------------------- syncDeployments ---------------------------- *)
SyncNext(S, more, done) == Goto(Sync, IF S = {} THEN done ELSE more)

(* listActiveDeployments, once per pass; the pass works on what it listed  *)
SyncLists ==
  /\ Exists /\ row.status # "STOPPED" /\ row.k8s
  /\ MayStart(Sync)
  /\ LET launched == {v \in Served(targets) : targets[v].launched} IN
       Loop(Sync, launched) /\ SyncNext(launched, "observe", "observeRouter")
  /\ Load(Sync, Here)
  /\ UNCHANGED <<rows, cluster, ask, bounds>>

ObserveTarget ==
  /\ pc[Sync] = "observe"
  /\ LET v    == Lowest(todo[Sync])
         rest == todo[Sync] \ {v}
         old  == snap[Sync].targets[v].status
         now  == StatusFromObservation(pods[v], old)
     IN /\ targets' = [targets EXCEPT ![v] =
             IF @ = None \/ now = old THEN @ ELSE [@ EXCEPT !.status = now]]
        /\ Load(Sync, [snap[Sync] EXCEPT !.targets[v].status = now])
        /\ Loop(Sync, rest) /\ SyncNext(rest, "observe", "observeRouter")
  /\ UNCHANGED <<row, token, minted, cluster, ask, bounds>>

(* mutant: the router is never looked at again                             *)
ObserveRouterNever ==
  /\ pc[Sync] = "observeRouter"
  /\ Goto(Sync, "move")
  /\ UNCHANGED <<rows, cluster, ask, snap, todo, bounds>>

ObserveRouter ==
  /\ pc[Sync] = "observeRouter"
  /\ LET up == router = "ready" IN
       IF snap[Sync].row.router
       THEN /\ row' = IF Exists /\ up # snap[Sync].row.routerUp
                      THEN [row EXCEPT !.routerUp = up] ELSE row
            /\ Load(Sync, [snap[Sync] EXCEPT !.row.routerUp = up])
       ELSE UNCHANGED <<row, snap>>
  /\ Goto(Sync, "move")
  /\ UNCHANGED <<targets, token, minted, cluster, ask, todo, bounds>>

(* moveFrontDoor: only onto what this pass has seen ready                  *)
MayMove(s) ==
  LET wanted == DesiredFront(s.targets) IN
    /\ wanted # None /\ wanted # CurrentFront(s.row)
    /\ IF wanted = Router THEN s.row.routerUp ELSE s.targets[wanted].status = "READY"

(* patchServiceSelector; the Service may have gone with an undeploy        *)
MoveFrontDoor ==
  /\ pc[Sync] = "move"
  /\ LET s == snap[Sync] IN
       IF ~MayMove(s) THEN Goto(Sync, "judge") /\ UNCHANGED <<front, ask, snap, todo>>
       ELSE IF front = None THEN Drop(Sync) /\ UNCHANGED front
       ELSE front' = DesiredFront(s.targets) /\ Goto(Sync, "noteMove") /\ UNCHANGED <<ask, snap, todo>>
  /\ UNCHANGED <<rows, pods, services, router, secret, bounds>>

(* What no longer needs pods, now that the address has left it             *)
Retired(s) == {v \in Served(s.targets) : /\ s.targets[v].weight = 0 /\ s.targets[v].launched
                                         /\ s.row.serving # v}

RecordMove ==
  /\ pc[Sync] = "noteMove"
  /\ LET v == ServingColumn(DesiredFront(snap[Sync].targets))
         s == [snap[Sync] EXCEPT !.row.serving = v]
     IN /\ row' = IF Exists THEN [row EXCEPT !.serving = v] ELSE row
        /\ Load(Sync, s) /\ Loop(Sync, Retired(s))
        /\ SyncNext(Retired(s), "scale", "removeRouter")
  /\ UNCHANGED <<targets, token, minted, cluster, ask, bounds>>

(* One version of scaleDownRetired; a failed call is only a warning        *)
ScaledDown ==
  LET rest == todo[Sync] \ {Lowest(todo[Sync])} IN
    Loop(Sync, rest) /\ SyncNext(rest, "scale", "removeRouter")

ScaleDown ==
  /\ pc[Sync] = "scale"
  /\ LET v == Lowest(todo[Sync]) IN
       pods' = [pods EXCEPT ![v] = Applied(@, WantsPods(snap[Sync], v))]
  /\ ScaledDown
  /\ UNCHANGED <<rows, services, router, front, secret, ask, snap, bounds>>

SyncJudges ==
  /\ pc[Sync] = "judge"
  /\ LET s   == snap[Sync]
         now == RollUpStatus(s.row, s.targets, s.row.status)
     IN row' = IF Exists /\ now # s.row.status THEN [row EXCEPT !.status = now] ELSE row
  /\ Drop(Sync)
  /\ UNCHANGED <<targets, token, minted, cluster, bounds>>

(* ------------------------------- faults -------------------------------- *)
(* What is named in a row                                                  *)
Launched(v)  == targets[v] # None /\ targets[v].launched
RouterNamed  == Exists /\ row.router
FrontNamed   == Exists /\ row.k8s

(* What those in P have made and not recorded is left when they end        *)
Strands(P) ==
  LET at(S)   == {p \in P : pc[p] \in S}
      made(v) == \E p \in at({"service", "launch"}) : v = Lowest(todo[p])
  IN strays' = [versions |-> strays.versions \cup {v \in Versions : made(v) /\ ~Launched(v)},
                router   |-> strays.router \/ (~RouterNamed /\ at({"noteRouter"}) # {}),
                front    |-> strays.front \/ (~FrontNamed /\ at({"noteFront"}) # {})]

(* What a process waits for fails, a call to the cluster or a query, and   *)
(* it gives up there: a request ends, a pass skips the deployment. The     *)
(* label after a call is also where its answer is lost: it has had its     *)
(* effect and its caller takes it to have failed. apply says so on the row *)
(* when it was a version's objects.                                        *)
CallFails(p) ==
  /\ Fault("end")
  /\ pc[p] \notin {"idle", "commit", "scale"}
  /\ Strands({p}) /\ Drop(p)
  /\ \/ row' = row
     \/ /\ Exists /\ pc[p] \in {"targets", "service", "launch"}
        /\ row' = [row EXCEPT !.status = "FAILED"]
  /\ UNCHANGED <<targets, token, minted, cluster, begun>>

(* A scale-down or a listing that fails is passed over                     *)
HousekeepingFails(p) ==
  /\ Fault("end")
  /\ \/ pc[p] = "scale" /\ ScaledDown /\ UNCHANGED <<snap, ask>>
     \/ pc[p] = "reap" /\ Reaped(p)
  /\ UNCHANGED <<rows, cluster, begun, strays>>

(* The control plane restarts: nothing of a request or a pass survives     *)
Crash ==
  /\ Fault("end")
  /\ \E p \in Procs : pc[p] # "idle"
  /\ Strands(Procs)
  /\ pc' = [p \in Procs |-> "idle"] /\ ask' = [p \in Procs |-> NoAsk]
  /\ snap' = [p \in Procs |-> NoSnap] /\ todo' = [p \in Procs |-> {}]
  /\ UNCHANGED <<rows, cluster, begun>>

(* ----------------------------- the cluster ----------------------------- *)
(* A Pod starts with the token from its Secret and asks with it for the    *)
(* bytes of its model; the router is ready once it has a split with a      *)
(* version that can answer.                                                *)
Credentials == secret # 0 /\ secret = token

Loading(v) == pods[v] = "starting" /\ Credentials

PodStarts(v) ==
  /\ Loading(v)
  /\ pods' = [pods EXCEPT ![v] = "ready"]
  /\ UNCHANGED <<rows, services, router, front, secret, locals, bounds>>

(* The model server has used up its attempts to load, or was told not to   *)
(* ask again. It lives on, alive to its probe, and never becomes ready.    *)
LoadGivesUp(v) ==
  /\ Fault("load")
  /\ Loading(v)
  /\ pods' = [pods EXCEPT ![v] = "stuck"]
  /\ UNCHANGED <<rows, services, router, front, secret, locals, begun, strays>>

RouterStarts ==
  /\ router = "starting" /\ Credentials
  /\ \E v \in Serving(targets) : targets[v].status = "READY"
  /\ router' = "ready"
  /\ UNCHANGED <<rows, pods, services, front, secret, locals, bounds>>

PodFails(v) ==
  /\ Fault("pods")
  /\ pods[v] \in {"ready", "stuck"}
  /\ pods' = [pods EXCEPT ![v] = "starting"]
  /\ UNCHANGED <<rows, services, router, front, secret, locals, begun, strays>>

(* ------------------------------------------------------------------------ *)
Request(o) == DeployModel(o) \/ Rollout(o) \/ Retire(o) \/ Undeploy(o)

Tidies(p) ==
  \/ RemoveRouter(p) \/ ForgetRouter(p)
  \/ ReapLists(p) \/ ReapDeletes(p) \/ ReapDeletesService(p)

Applies(o) ==
  \/ ApplyReads(o) \/ EnsureServingToken(o) \/ ApplySecret(o)
  \/ ApplyTarget(o) \/ ApplyTargetService(o) \/ RecordTargetLaunch(o)
  \/ ApplyRouter(o) \/ RecordRouter(o)
  \/ ApplyService(o) \/ RecordLaunch(o) \/ RecordServingVersion(o) \/ ApplyJudges(o)

Handles(o) ==
  \/ CommitFails(o) \/ CommitDeploy(o) \/ CommitRollout(o)
  \/ Applies(o) \/ Tidies(o)
  \/ RetireDeletes(o) \/ RetireDeletesService(o) \/ RemoveTarget(o)
  \/ UndeployDeletes(o) \/ UndeployDeletesService(o) \/ UndeployRouter(o)
  \/ UndeployFront(o) \/ DeleteSecret(o) \/ DeleteRow(o)

Syncs ==
  \/ SyncLists \/ ObserveTarget \/ ObserveRouter \/ MoveFrontDoor \/ RecordMove
  \/ ScaleDown \/ Tidies(Sync) \/ SyncJudges

PodsStart == RouterStarts \/ \E v \in Versions : PodStarts(v)

Next ==
  \/ \E o \in Operators : Request(o) \/ Handles(o)
  \/ Syncs
  \/ \E p \in Procs : CallFails(p) \/ HousekeepingFails(p)
  \/ Crash
  \/ PodsStart
  \/ \E v \in Versions : PodFails(v) \/ LoadGivesUp(v)

Spec == Init /\ [][Next]_vars

(* A handler runs on, the loop's timer fires, and a Pod that can start     *)
(* does; nobody is obliged to make a request.                              *)
Fairness ==
  /\ \A o \in Operators : WF_vars(Handles(o))
  /\ WF_vars(Syncs)
  /\ WF_vars(RouterStarts) /\ \A v \in Versions : WF_vars(PodStarts(v))

FairSpec == Spec /\ Fairness

(* ------------------------------ properties ----------------------------- *)
TypeOK ==
  /\ row \in Row \cup {None, Gone}
  /\ targets \in [Versions -> Target \cup {None}]
  /\ token \in Nat /\ minted \in Nat /\ secret \in Nat
  /\ pods \in [Versions -> PodStates] /\ services \in SUBSET Versions /\ router \in PodStates \ {"scaled", "stuck"}
  /\ front \in Versions \cup {None, Router}
  /\ pc \in [Procs -> Labels] /\ ask \in [Procs -> Ask]
  /\ snap \in [Procs -> [row : Row \cup {None}, targets : [Versions -> Target \cup {None}]]]
  /\ todo \in [Procs -> SUBSET Versions]
  /\ begun \in 0 .. MaxRequests /\ faults \in [FaultKinds -> Nat] /\ strays \in Strays

(* No running Pod is refused: the token in the Secret is the one the API   *)
(* accepts. ensureServingToken mints only when none lives, and applySecret *)
(* runs in the apply that minted; a crash between leaves no Secret, never  *)
(* an outdated one.                                                        *)
SecretIsLive == secret # 0 /\ token # 0 => secret = token

(* The shares of a deployment are a whole split: deployModel zeroes what   *)
(* it does not name, applyRollout shares out all of the remainder.         *)
WholeSplit == Exists => ValidWeights(Split(targets))

Removing == \E o \in Operators :
  pc[o] \in {"undeploy", "undeployService", "undeployFront", "undeploySecret", "undeployRow"}

(* What the address selects has pods, or will                              *)
AddressStands ==
  /\ front \in Versions => pods[front] \in {"starting", "ready", "stuck"}
  /\ front = Router => router # "absent"

AddressKnown == FrontNamed /\ CurrentFront(row) = front

(* As long as the row is right about the address, only an undeploy scales  *)
(* down or removes what it selects, whatever its weight:                   *)
(* buildTargetManifest keeps its replicas, scaling down waits for the      *)
(* move, removeRouterIfUnused asks what is wanted and what is there.       *)
AddressKept ==
  [][AddressStands /\ ~Removing => (AddressKnown' => AddressStands')]_vars

(* Whenever nobody is at work, every object in the cluster is named in a   *)
(* row, where retire, reap and undeploy will find it, but for what a       *)
(* request had made and not yet recorded when it failed or the control     *)
(* plane restarted. A call of any of these that fails half way, or whose   *)
(* answer is lost, makes no orphan; only apply can.                        *)
NothingOrphaned ==
  (\A p \in Procs : pc[p] = "idle") =>
    /\ \A v \in Versions : pods[v] # "absent" \/ v \in services =>
         Launched(v) \/ v \in strays.versions
    /\ router # "absent" => RouterNamed \/ strays.router
    /\ front # None => FrontNamed \/ strays.front
    /\ row = Gone => secret = 0

(* What answers at the address: the version it selects or, behind the      *)
(* router, the versions that can. A router asks for the split every few    *)
(* seconds and goes on sending to a version just taken out of rotation.    *)
Answering ==
  IF front = Router
  THEN {v \in Served(targets) : pods[v] = "ready" /\ router = "ready"}
  ELSE {v \in Versions : v = front /\ pods[v] = "ready"}

(* "Nothing that is answering is taken away" (adr/0011): with no fault and *)
(* no undeploy, the last version that answers at the address keeps its     *)
(* pods.                                                                   *)
LastAnswerKept ==
  [][/\ Exists /\ ~Removing /\ faults' = faults /\ Answering # {}
     => \E v \in Answering : pods'[v] = "ready"]_vars

(* The end of every change: the address on what the split asks for, pods   *)
(* for what takes traffic and for nothing else, a router only if needed.   *)
Settled ==
  Exists =>
    /\ row.status = "READY"
    /\ front = DesiredFront(targets) /\ CurrentFront(row) = front
    /\ \A v \in Versions : pods[v] = "ready" <=> v \in Serving(targets)
    /\ services = Served(targets)
    /\ router = IF front = Router THEN "ready" ELSE "absent"

(* However many changes are asked for, and although Pods fail, the passes  *)
(* bring the cluster to what the rows ask for.                             *)
Converges == [](faults["end"] = 0 /\ faults["load"] = 0) => <>[]Settled
=============================================================================
