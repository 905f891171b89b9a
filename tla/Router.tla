------------------------------- MODULE Router -------------------------------
(***************************************************************************)
(* Answering one deployment's callers: the router (packages/router) with   *)
(* its polled table and its cooldowns, and `ash predict`                   *)
(* (services/inference.js), which calls the deployment's address and says  *)
(* which version made the answer.                                          *)
(*                                                                         *)
(* The control plane and the cluster appear as far as these two see them:  *)
(* the split, the address, and whether a version's Pods can be reached.    *)
(* Deployments says what changes them.  The readiness the control plane    *)
(* reports is itself an old observation; the table being older still       *)
(* covers it, so a refresh reads what is up.                               *)
(***************************************************************************)
EXTENDS Routing

CONSTANTS
  Versions,     \* model versions, numbers
  Splits,       \* the splits an operator may write
  Requests,     \* requests there may be at once
  Door,         \* the address selects the router
  None,         \* no table yet, a null column, no version
  MaxRestarts   \* bound on the restarts of the router

ASSUME VersionsAssumption == Versions \subseteq Nat \ {0} /\ IsFiniteSet(Versions)
ASSUME SplitsAssumption ==
  /\ Splits \subseteq [Versions -> 0 .. TOTAL_WEIGHT]
  /\ \A s \in Splits : ValidWeights(s)
ASSUME NullAssumption == {None, Door} \cap Versions = {} /\ None # Door
ASSUME BoundAssumption == MaxRestarts \in Nat

VARIABLES
  split,      \* the deployment's weights
  up,         \* the versions whose Pods can be reached
  front,      \* what the address selects
  serving,    \* the deployment's serving_version
  table,      \* the split and readiness the router was last given
  cooling,    \* the versions in cooldown
  restarts,   \* restarts of the router so far
  req         \* each request

plane == <<split, up, front, serving>>
own   == <<table, cooling, restarts>>
vars  == <<plane, own, req>>

Table   == [split : Splits, ready : SUBSET Versions]
Idle    == [at |-> "idle", said |-> None, target |-> None, attempted |-> {},
            routed |-> FALSE, moved |-> FALSE, record |-> None]
Request == [at : {"idle", "call", "forward", "answered"},
            said : Versions \cup {None}, target : Versions \cup {None},
            attempted : SUBSET Versions, routed : BOOLEAN, moved : BOOLEAN,
            record : Versions \cup {None}]

Init ==
  /\ split \in Splits /\ ~NeedsRouter(split)
  /\ up = {}
  /\ front \in TakingTraffic(split) /\ serving = front
  /\ table = None /\ cooling = {} /\ restarts = 0
  /\ req = [r \in Requests |-> Idle]

(* ------------------------ the deployment changes ----------------------- *)
Rollout ==
  /\ split' \in Splits \ {split}
  /\ UNCHANGED <<up, front, serving, own, req>>

Desired == IF NeedsRouter(split) THEN Door ELSE CHOOSE v \in TakingTraffic(split) : TRUE

(* What the router would do with a request now: the table's readiness and  *)
(* its own experience must both be content.                                *)
Choices == IF table = None THEN {} ELSE Eligible(table.split, table.ready \ cooling)

(* Its readiness probe, which does not ask for the control plane           *)
RouterReady == Choices # {}

(* patchServiceSelector, and the row some time after it. A request that is *)
(* between reading the row and calling the address has been overtaken.     *)
PatchServiceSelector ==
  /\ front # Desired
  /\ IF Desired = Door THEN RouterReady ELSE Desired \in up
  /\ front' = Desired
  /\ req' = [r \in Requests |-> IF req[r].at = "call" THEN [req[r] EXCEPT !.moved = TRUE] ELSE req[r]]
  /\ UNCHANGED <<split, up, serving, own>>

(* mutant: the column is given a marker for the router *)
ColumnMarked == front

(* serving_version has no value for the router                             *)
Column == IF front = Door THEN None ELSE front

RecordServingVersion ==
  /\ serving # Column
  /\ serving' = Column
  /\ UNCHANGED <<split, up, front, own, req>>

PodsComeUp(v) ==
  /\ v \notin up
  /\ up' = up \cup {v}
  /\ UNCHANGED <<split, front, serving, own, req>>

PodsGoDown(v) ==
  /\ v \in up
  /\ up' = up \ {v}
  /\ UNCHANGED <<split, front, serving, own, req>>

(* ------------------------------ the router ----------------------------- *)
(* A refresh that fails changes nothing: the last good table is kept       *)
Refresh ==
  /\ table' = [split |-> split, ready |-> up]
  /\ UNCHANGED <<plane, cooling, restarts, req>>

(* mutant: a cooldown ends when the control plane no longer says ready     *)
CooldownEndsUnready(v) ==
  /\ v \in cooling
  /\ table # None /\ v \notin table.ready
  /\ cooling' = cooling \ {v}
  /\ UNCHANGED <<plane, table, restarts, req>>

CooldownEnds(v) ==
  /\ v \in cooling
  /\ cooling' = cooling \ {v}
  /\ UNCHANGED <<plane, table, restarts, req>>

(* The process starts over, without a table; what it was forwarding is     *)
(* cut off and fails.                                                      *)
RouterRestarts ==
  /\ restarts < MaxRestarts
  /\ restarts' = restarts + 1
  /\ table' = None /\ cooling' = {}
  /\ req' = [r \in Requests |-> IF req[r].at = "forward" /\ req[r].routed
                                THEN Idle
                                ELSE req[r]]
  /\ UNCHANGED plane

(* ------------------------------- predict ------------------------------- *)
Set(r, fields) == req' = [req EXCEPT ![r] = fields]

(* The version the row says the address resolves to; with no such record,  *)
(* the only one there is to say.                                           *)
FrontTarget ==
  IF serving # None THEN serving
  ELSE IF NeedsRouter(split) THEN None
  ELSE CHOOSE v \in TakingTraffic(split) : TRUE

(* The row is read once, before the call                                   *)
Resolve(r) ==
  /\ req[r].at = "idle"
  /\ Set(r, [Idle EXCEPT !.at = "call", !.record = FrontTarget, !.moved = serving # Column])
  /\ UNCHANGED <<plane, own>>

CallAddress(r) ==
  /\ req[r].at = "call"
  /\ \/ /\ front # Door
        /\ Set(r, [req[r] EXCEPT !.at = "forward", !.target = front])
     \/ /\ front = Door /\ Choices = {}
        /\ Set(r, Idle)
     \/ /\ front = Door
        /\ \E v \in Choices :
             Set(r, [req[r] EXCEPT !.at = "forward", !.target = v, !.routed = TRUE,
                                   !.attempted = {v}])
  /\ UNCHANGED <<plane, own>>

(* mutant: the record is believed before the router's header               *)
ServedByRecord(r) ==
  IF req[r].record # None THEN req[r].record ELSE req[r].target

(* The router's header is believed before the record                       *)
ServedBy(r) == IF req[r].routed THEN req[r].target ELSE req[r].record

Answer(r) ==
  /\ req[r].at = "forward" /\ req[r].target \in up
  /\ Set(r, [Idle EXCEPT !.at = "answered", !.said = ServedBy(r), !.target = req[r].target,
                         !.moved = req[r].moved])
  /\ cooling' = IF req[r].routed THEN cooling \ {req[r].target} ELSE cooling
  /\ UNCHANGED <<plane, table, restarts>>

(* mutant: the first version that cannot be reached fails the request      *)
FailWithoutFailover(r) ==
  LET v == req[r].target IN
  /\ req[r].at = "forward" /\ v \notin up
  /\ cooling' = IF req[r].routed THEN cooling \cup {v} ELSE cooling
  /\ Set(r, Idle)
  /\ UNCHANGED <<plane, table, restarts>>

(* mutant: it goes on for as long as there is a version to try             *)
FailUnbounded(r) ==
  LET v == req[r].target IN
  /\ req[r].at = "forward" /\ v \notin up
  /\ cooling' = IF req[r].routed THEN cooling \cup {v} ELSE cooling
  /\ \/ /\ ~req[r].routed \/ Choices \ {v} = {}
        /\ Set(r, Idle)
     \/ /\ req[r].routed
        /\ \E w \in Choices \ {v} : Set(r, [req[r] EXCEPT !.target = w, !.attempted = {w}])
  /\ UNCHANGED <<plane, table, restarts>>

(* Nothing answered. The router marks the version and fails over once, to  *)
(* what its table as it is now still offers.                               *)
Fail(r) ==
  LET v    == req[r].target
      rest == (Choices \ {v}) \ req[r].attempted
  IN
  /\ req[r].at = "forward" /\ v \notin up
  /\ cooling' = IF req[r].routed THEN cooling \cup {v} ELSE cooling
  /\ \/ /\ ~req[r].routed \/ rest = {} \/ Cardinality(req[r].attempted) = 2
        /\ Set(r, Idle)
     \/ /\ req[r].routed /\ Cardinality(req[r].attempted) = 1
        /\ \E w \in rest : Set(r, [req[r] EXCEPT !.target = w, !.attempted = @ \cup {w}])
  /\ UNCHANGED <<plane, table, restarts>>

(* Its caller has it; a request that failed is over at once                *)
Done(r) ==
  /\ req[r].at = "answered"
  /\ Set(r, Idle)
  /\ UNCHANGED <<plane, own>>

Forwards(r) == CallAddress(r) \/ Answer(r) \/ Fail(r) \/ Done(r)

Next ==
  \/ Rollout \/ PatchServiceSelector \/ RecordServingVersion
  \/ \E v \in Versions : PodsComeUp(v) \/ PodsGoDown(v) \/ CooldownEnds(v)
  \/ Refresh \/ RouterRestarts
  \/ \E r \in Requests : Resolve(r) \/ Forwards(r)

Spec == Init /\ [][Next]_vars

(* Every timer fires: the refresh, which reaches the control plane in the  *)
(* end, and the cooldown. A request is answered or times out.              *)
FairSpec ==
  /\ Spec
  /\ WF_vars(Refresh)
  /\ \A v \in Versions : WF_vars(CooldownEnds(v))
  /\ \A r \in Requests : WF_vars(Forwards(r))

(* ------------------------------ properties ----------------------------- *)
TypeOK ==
  /\ split \in Splits /\ up \subseteq Versions
  /\ front \in Versions \cup {Door} /\ serving \in Versions \cup {None}
  /\ table \in Table \cup {None} /\ cooling \subseteq Versions
  /\ restarts \in 0 .. MaxRestarts
  /\ req \in [Requests -> Request]

(* An answer is attributed to the version that made it, unless the address *)
(* was moving while it was asked for: what the row says is only right      *)
(* between moves (inference.js: servedBy, frontTarget).                    *)
Attributed ==
  \A r \in Requests : req[r].at = "answered" /\ ~req[r].moved => req[r].said = req[r].target

(* The router fails a request only after trying two versions, or when it   *)
(* has tried all that its table still offers; a version that is back but   *)
(* not yet in the table, or still cooling down, is not offered.            *)
OneDownIsMasked ==
  [][\A r \in Requests :
       /\ req[r].at = "forward" /\ req[r].routed /\ req'[r].at = "idle"
       /\ restarts' = restarts
       => Cardinality(req[r].attempted) = 2 \/ Choices' \subseteq req[r].attempted]_vars

(* A version that recovers gets its share again: whatever the router and   *)
(* the control plane have thought of it, a version that stays up and in    *)
(* the split is in the end one the router chooses from.                    *)
RecoveredIsServed ==
  \A v \in Versions :
    <>[](v \in up /\ split[v] > 0) => <>[](v \in Choices)

(* Every caller hears something, however often versions come and go.       *)
RequestsEnd == \A r \in Requests : req[r].at # "idle" ~> req[r].at = "idle"
=============================================================================
