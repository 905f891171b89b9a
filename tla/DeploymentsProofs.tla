------------------------- MODULE DeploymentsProofs --------------------------
(***************************************************************************)
(* Theorems about Deployments for any versions, shares and numbers of      *)
(* requests and faults.  The types, the token and the arithmetic of a      *)
(* rollout hold however requests and passes interleave; the split, the     *)
(* objects and the address need each to end before the next begins.        *)
(***************************************************************************)
EXTENDS DeploymentsInv, FiniteSetTheorems, WellFoundedInduction, TLAPS

Column  == Versions \cup {None}
Targets == [Versions -> Target \cup {None}]
Snap    == [row : Row \cup {None}, targets : Targets]

LEMMA LeastNat ==
  ASSUME NEW S, S \subseteq Nat, S # {}
  PROVE  \E m \in S : \A k \in S : m <= k
<1>1. PICK m \in S : \A k \in S : ~(<<k, m>> \in OpToRel(<, Nat))
  BY NatLessThanWellFounded, WFMin
<1>2. ASSUME NEW k \in S PROVE m <= k
  <2>1. ~(k < m)
    BY <1>1 DEF OpToRel
  <2> QED BY <2>1
<1> QED BY <1>2

LEMMA LowestIn ==
  ASSUME NEW S, S \subseteq Versions, S # {} PROVE Lowest(S) \in S
<1>1. \E m \in S : \A k \in S : m <= k
  BY LeastNat, VersionsAssumption
<1> QED BY <1>1 DEF Lowest

LEMMA ServedIn ==
  ASSUME NEW t PROVE Served(t) \subseteq Versions /\ Serving(t) \subseteq Served(t)
<1>1. DOMAIN Split(t) = Served(t)
  BY DEF Split
<1> QED BY <1>1 DEF Served, Serving, TakingTraffic

LEMMA DesiredTyped ==
  ASSUME NEW t
  PROVE  /\ DesiredFront(t) \in Column \cup {Router}
         /\ ServingColumn(DesiredFront(t)) \in Column
<1>1. Serving(t) # {} => Lowest(Serving(t)) \in Versions
  BY ServedIn, LowestIn
<1> QED BY <1>1 DEF DesiredFront, ServingColumn, Column

LEMMA RollUpTyped ==
  ASSUME NEW r, NEW t, NEW previous PROVE RollUpStatus(r, t, previous) \in Statuses
BY DEF RollUpStatus, Statuses

LEMMA ObservedTyped ==
  ASSUME NEW state, NEW previous PROVE StatusFromObservation(state, previous) \in Statuses
BY DEF StatusFromObservation, Statuses

LEMMA AppliedTyped ==
  ASSUME NEW state \in PodStates, NEW wants
  PROVE  /\ Applied(state, wants) \in PodStates \ {"absent"}
         /\ Applied(state, TRUE) # "scaled"
         /\ state # "stuck" => Applied(state, TRUE) # "stuck"
BY DEF Applied, PodStates

LEMMA RowFields ==
  ASSUME NEW r \in Row
  PROVE  /\ r # None /\ r # Gone
         /\ r.k8s \in BOOLEAN /\ r.router \in BOOLEAN /\ r.serving \in Column
         /\ \A s \in Statuses : [r EXCEPT !.status = s] \in Row
         /\ [r EXCEPT !.k8s = TRUE] \in Row
         /\ \A f \in Column : [r EXCEPT !.serving = f] \in Row
         /\ [r EXCEPT !.router = TRUE] \in Row
         /\ \A up \in BOOLEAN : [r EXCEPT !.routerUp = up] \in Row
         /\ [r EXCEPT !.router = FALSE, !.routerUp = FALSE] \in Row
         /\ [r EXCEPT !.router = FALSE] \in Row
         /\ \A f \in Column : [r EXCEPT !.k8s = TRUE, !.serving = f] \in Row
BY NoRowAssumption DEF Row, Column

LEMMA TargetFields ==
  ASSUME NEW t \in Target
  PROVE  /\ t # None /\ t.weight \in 0 .. TOTAL_WEIGHT /\ t.launched \in BOOLEAN
         /\ \A w \in 0 .. TOTAL_WEIGHT : [t EXCEPT !.weight = w] \in Target
         /\ \A s \in Statuses : [t EXCEPT !.status = s] \in Target
         /\ [t EXCEPT !.launched = TRUE] \in Target
BY NoRowAssumption DEF Target

LEMMA WeighedTyped ==
  ASSUME NEW t \in Target \cup {None}, NEW w \in 0 .. TOTAL_WEIGHT
  PROVE  Weighed(t, w) \in Target
BY TargetFields DEF Weighed, NewTarget, Target, Statuses

LEMMA TypeParts ==
  ASSUME TypeOK
  PROVE  /\ targets \in Targets /\ snap \in [Procs -> Snap] /\ pc \in [Procs -> Labels]
         /\ todo \in [Procs -> SUBSET Versions] /\ ask \in [Procs -> Ask]
         /\ pods \in [Versions -> PodStates] /\ services \in SUBSET Versions /\ strays \in Strays
         /\ row \in Row \cup {None, Gone} /\ (Exists => row \in Row)
         /\ Sync \in Procs /\ Operators \subseteq Procs
BY DEF TypeOK, Targets, Snap, Procs, Exists

----------------------------------------------------------------------------
(* Types *)

LEMMA NullsTyped == NoSnap \in Snap /\ NoAsk \in Ask /\ NewRow \in Row /\ \A w \in 0 .. TOTAL_WEIGHT : NewTarget(w) \in Target
<1>1. NoSnap \in Snap
  BY DEF NoSnap, Snap, Targets
<1>2. NoAsk \in Ask
  BY DEF NoAsk, Ask, TOTAL_WEIGHT
<1>3. NewRow \in Row
  BY DEF NewRow, Row, Statuses
<1>4. \A w \in 0 .. TOTAL_WEIGHT : NewTarget(w) \in Target
  BY DEF NewTarget, Target, Statuses
<1> QED BY <1>1, <1>2, <1>3, <1>4

(* The locals of a process after each way to change them *)
LEMMA LocalsTyped ==
  ASSUME TypeOK, NEW p \in Procs
  PROVE  /\ \A at \in Labels : Goto(p, at) => pc' \in [Procs -> Labels]
         /\ \A s \in Snap : Load(p, s) => snap' \in [Procs -> Snap]
         /\ \A S \in SUBSET Versions : Loop(p, S) => todo' \in [Procs -> SUBSET Versions]
         /\ Drop(p) => /\ pc' \in [Procs -> Labels] /\ snap' \in [Procs -> Snap]
                       /\ todo' \in [Procs -> SUBSET Versions] /\ ask' \in [Procs -> Ask]
<1>1. \A at \in Labels : Goto(p, at) => pc' \in [Procs -> Labels]
  BY TypeParts DEF Goto
<1>2. \A s \in Snap : Load(p, s) => snap' \in [Procs -> Snap]
  BY TypeParts DEF Load
<1>3. \A S \in SUBSET Versions : Loop(p, S) => todo' \in [Procs -> SUBSET Versions]
  BY TypeParts DEF Loop
<1>4. Drop(p) => ask' \in [Procs -> Ask]
  BY TypeParts, NullsTyped DEF Drop
<1>5. "idle" \in Labels /\ {} \in SUBSET Versions
  BY DEF Labels
<1> QED BY <1>1, <1>2, <1>3, <1>4, <1>5, NullsTyped DEF Drop

LEMMA HereTyped == ASSUME TypeOK, row # Gone PROVE Here \in Snap
BY TypeParts DEF Here, Snap

LEMMA InitTyped == Init => TypeOK /\ Held
<1> SUFFICES ASSUME Init PROVE TypeOK /\ Held
  OBVIOUS
<1>1. /\ snap \in [Procs -> Snap] /\ ask \in [Procs -> Ask] /\ targets \in Targets
  BY NullsTyped DEF Init, Targets
<1>2. TypeOK
  <2>1. pc \in [Procs -> Labels] /\ todo \in [Procs -> SUBSET Versions] /\ pods \in [Versions -> PodStates]
    BY DEF Init, Labels, PodStates
  <2>2. /\ begun \in 0 .. MaxRequests /\ faults \in [FaultKinds -> Nat] /\ {token, minted, secret} \subseteq Nat
        /\ services \in SUBSET Versions /\ strays \in Strays
    BY BoundAssumption DEF Init, Strays
  <2>3. /\ row \in Row \cup {None, Gone} /\ front \in Versions \cup {None, Router}
        /\ router \in PodStates \ {"scaled", "stuck"}
    BY DEF Init, PodStates
  <2> QED BY <1>1, <2>1, <2>2, <2>3 DEF TypeOK, Snap, Targets
<1>3. Held
  BY DEF Init, Held, Procs
<1> QED BY <1>2, <1>3

(* A fault is counted, and what is left behind is noted *)
LEMMA CountTyped ==
  ASSUME TypeOK
  PROVE  /\ \A kind \in FaultKinds : Fault(kind) => faults' \in [FaultKinds -> Nat]
         /\ \A P \in SUBSET Procs : Strands(P) => strays' \in Strays
<1>1. \A kind \in FaultKinds : Fault(kind) => faults' \in [FaultKinds -> Nat]
  BY DEF Fault, TypeOK
<1>2. ASSUME NEW P \in SUBSET Procs, Strands(P) PROVE strays' \in Strays
  BY <1>2, TypeParts DEF Strands, Strays
<1> QED BY <1>1, <1>2

LEMMA BeginTyped ==
  ASSUME TypeOK, NEW o \in Operators, NEW a \in Ask, NEW at \in Labels, NEW S \in SUBSET Versions,
         row # Gone, Begin(o, a, at, S)
  PROVE  TypeOK'
<1>1. o \in Procs
  BY DEF Procs
<1>2. snap' \in [Procs -> Snap] /\ pc' \in [Procs -> Labels] /\ todo' \in [Procs -> SUBSET Versions]
  BY <1>1, HereTyped, LocalsTyped DEF Begin
<1>3. ask' \in [Procs -> Ask]
  BY TypeParts DEF Begin
<1>4. begun' \in 0 .. MaxRequests
  BY BoundAssumption DEF Begin, TypeOK
<1> QED BY <1>2, <1>3, <1>4 DEF Begin, TypeOK, rows, cluster, Snap, Targets

LEMMA RequestTyped ==
  ASSUME TypeOK, NEW o \in Operators, Request(o) PROVE TypeOK'
<1>1. {"commit", "retire", "undeploy"} \subseteq Labels /\ {} \in SUBSET Versions
  BY DEF Labels
<1>2. CASE DeployModel(o)
  <2>1. PICK v \in Versions :
          /\ row # Gone
          /\ Begin(o, [op |-> "deploy", version |-> v, share |-> TOTAL_WEIGHT], "commit", {})
    BY <1>2 DEF DeployModel
  <2> DEFINE a == [op |-> "deploy", version |-> v, share |-> TOTAL_WEIGHT]
  <2>2. a \in Ask /\ Begin(o, a, "commit", {})
    BY <2>1 DEF Ask, TOTAL_WEIGHT
  <2> HIDE DEF a
  <2> QED BY <1>1, <2>1, <2>2, BeginTyped
<1>3. CASE Rollout(o)
  <2>1. PICK v \in Versions, sh \in Shares :
          /\ Exists
          /\ Begin(o, [op |-> "rollout", version |-> v, share |-> sh], "commit", {})
    BY <1>3 DEF Rollout
  <2> DEFINE a == [op |-> "rollout", version |-> v, share |-> sh]
  <2>2. a \in Ask /\ Begin(o, a, "commit", {}) /\ row # Gone
    BY <2>1, SharesAssumption DEF Ask, Exists
  <2> HIDE DEF a
  <2> QED BY <1>1, <2>2, BeginTyped
<1>4. CASE Retire(o)
  <2>1. PICK v \in Versions :
          Exists /\ Begin(o, [op |-> "retire", version |-> v, share |-> 0], "retire", {})
    BY <1>4 DEF Retire
  <2> DEFINE a == [op |-> "retire", version |-> v, share |-> 0]
  <2>2. a \in Ask /\ Begin(o, a, "retire", {}) /\ row # Gone
    BY <2>1 DEF Ask, TOTAL_WEIGHT, Exists
  <2> HIDE DEF a
  <2> QED BY <1>1, <2>2, BeginTyped
<1>5. CASE Undeploy(o)
  <2> DEFINE S == {v \in Served(targets) : targets[v].launched}
  <2>1. S \in SUBSET Versions /\ Begin(o, NoAsk, "undeploy", S) /\ row # Gone
    BY <1>5 DEF Undeploy, Served, Exists
  <2> HIDE DEF S
  <2> QED BY <1>1, <2>1, BeginTyped, NullsTyped
<1> QED BY <1>2, <1>3, <1>4, <1>5 DEF Request

LEMMA CommitTyped ==
  ASSUME TypeOK, NEW o \in Operators, CommitFails(o) \/ CommitDeploy(o) \/ CommitRollout(o)
  PROVE  TypeOK'
<1>0. o \in Procs /\ "apply" \in Labels
  BY DEF Procs, Labels
<1>1. CASE CommitFails(o)
  <2>1. faults' \in [FaultKinds -> Nat]
    BY <1>1, CountTyped DEF CommitFails, FaultKinds, TypeOK
  <2> QED BY <1>0, <1>1, <2>1, LocalsTyped DEF CommitFails, TypeOK, rows, cluster, Snap, Targets
<1>2. CASE CommitDeploy(o)
  <2>1. row' \in Row \cup {None, Gone}
    BY <1>2, NullsTyped DEF CommitDeploy, TypeOK
  <2>2. TOTAL_WEIGHT \in 0 .. TOTAL_WEIGHT /\ 0 \in 0 .. TOTAL_WEIGHT
    BY DEF TOTAL_WEIGHT
  <2>3. targets' \in Targets
    BY <1>2, <2>2, TypeParts, WeighedTyped DEF CommitDeploy, Targets
  <2>4. pc' \in [Procs -> Labels]
    BY <1>0, <1>2, LocalsTyped DEF CommitDeploy
  <2> QED BY <1>2, <2>1, <2>3, <2>4 DEF CommitDeploy, TypeOK, cluster, bounds, Targets
<1>3. CASE CommitRollout(o)
  <2>1. targets' \in Targets
    <3> DEFINE next == RolledOut(o)
    <3>1. ValidWeights(next)
      BY <1>3 DEF CommitRollout
    <3> HIDE DEF next
    <3>2. \A v \in DOMAIN next : next[v] \in 0 .. TOTAL_WEIGHT
      BY <3>1 DEF ValidWeights
    <3>3. targets' = [v \in Versions |->
            IF v \in DOMAIN next /\ (targets[v] # None \/ snap[o].targets[v] = None)
            THEN Weighed(targets[v], next[v]) ELSE targets[v]]
      BY <1>3 DEF CommitRollout, next
    <3> QED BY <3>2, <3>3, TypeParts, WeighedTyped DEF Targets
  <2>2. pc' \in [Procs -> Labels]
    BY <1>0, <1>3, LocalsTyped DEF CommitRollout
  <2> QED BY <1>3, <2>1, <2>2 DEF CommitRollout, TypeOK, cluster, bounds, Targets
<1> QED BY <1>1, <1>2, <1>3

(* What a process holds past its first queries is a row *)
LEMMA HeldRow ==
  ASSUME TypeOK, Held, NEW p \in Procs, pc[p] \notin {"idle", "commit", "apply"}
  PROVE  snap[p] \in Snap /\ snap[p].row \in Row /\ snap[p].targets \in Targets
<1>1. snap[p] \in Snap /\ snap[p].row # None
  BY TypeParts DEF Held
<1> QED BY <1>1 DEF Snap

LEMMA SnapRow ==
  ASSUME NEW s \in Snap, NEW r \in Row PROVE [s EXCEPT !.row = r] \in Snap
BY DEF Snap

LEMMA TokenTyped ==
  ASSUME TypeOK, NEW o \in Operators, ApplyReads(o) \/ EnsureServingToken(o) \/ ApplySecret(o)
  PROVE  TypeOK'
<1>0. o \in Procs /\ {"token", "secret", "targets"} \subseteq Labels
  BY DEF Procs, Labels
<1>1. CASE ApplyReads(o)
  <2>1. pc' \in [Procs -> Labels] /\ snap' \in [Procs -> Snap] /\ todo' \in [Procs -> SUBSET Versions]
        /\ ask' \in [Procs -> Ask]
    <3>1. CASE Exists
      <4>1. Here \in Snap /\ Served(targets) \in SUBSET Versions
        BY <3>1, HereTyped, ServedIn DEF Exists
      <4> QED BY <1>0, <1>1, <3>1, <4>1, LocalsTyped DEF ApplyReads, TypeOK
    <3>2. CASE ~Exists
      BY <1>0, <1>1, <3>2, LocalsTyped DEF ApplyReads
    <3> QED BY <3>1, <3>2
  <2> QED BY <1>1, <2>1 DEF ApplyReads, TypeOK, rows, cluster, bounds, Snap, Targets
<1>2. CASE EnsureServingToken(o)
  <2>1. pc' \in [Procs -> Labels] /\ snap' \in [Procs -> Snap] /\ todo' \in [Procs -> SUBSET Versions]
        /\ ask' \in [Procs -> Ask]
    BY <1>0, <1>2, TypeParts, LocalsTyped DEF EnsureServingToken
  <2>2. token' \in Nat /\ minted' \in Nat /\ UNCHANGED <<row, targets>>
    BY <1>2 DEF EnsureServingToken, TypeOK, rows
  <2> QED BY <1>2, <2>1, <2>2 DEF EnsureServingToken, TypeOK, cluster, bounds, Snap, Targets
<1>3. CASE ApplySecret(o)
  <2>1. pc' \in [Procs -> Labels]
    BY <1>0, <1>3, LocalsTyped DEF ApplySecret
  <2> QED BY <1>3, <2>1 DEF ApplySecret, TypeOK, rows, bounds
<1> QED BY <1>1, <1>2, <1>3

LEMMA ApplyTyped ==
  ASSUME TypeOK, Held, NEW o \in Operators,
         \/ ApplyTarget(o) \/ ApplyTargetService(o) \/ RecordTargetLaunch(o)
         \/ ApplyRouter(o) \/ RecordRouter(o)
         \/ ApplyService(o) \/ RecordLaunch(o) \/ RecordServingVersion(o) \/ ApplyJudges(o)
  PROVE  TypeOK'
<1>0. o \in Procs /\ {"service", "launch", "router", "targets", "noteRouter", "front", "judge", "noteFront",
                      "noteServing", "removeRouter"} \subseteq Labels
  BY DEF Procs, Labels
<1>1. CASE ApplyTarget(o)
  <2>1. pods' \in [Versions -> PodStates]
    BY <1>1, TypeParts, AppliedTyped DEF ApplyTarget
  <2>2. pc' \in [Procs -> Labels]
    BY <1>0, <1>1, LocalsTyped DEF ApplyTarget
  <2> QED BY <1>1, <2>1, <2>2 DEF ApplyTarget, TypeOK, rows, bounds
<1>2. CASE RecordTargetLaunch(o)
  <2> DEFINE v == Lowest(todo[o])
             rest == todo[o] \ {v}
  <2>1. targets' \in Targets
    BY <1>2, TypeParts, TargetFields DEF RecordTargetLaunch, Targets
  <2>2. rest \in SUBSET Versions /\ Loop(o, rest)
        /\ (Goto(o, "router") \/ Goto(o, "targets"))
    BY <1>0, <1>2, TypeParts DEF RecordTargetLaunch
  <2> HIDE DEF rest
  <2>3. pc' \in [Procs -> Labels] /\ todo' \in [Procs -> SUBSET Versions]
    BY <1>0, <2>2, LocalsTyped
  <2>4. strays' \in Strays
    BY <1>2, TypeParts DEF RecordTargetLaunch, Strays
  <2> QED BY <1>2, <2>1, <2>3, <2>4 DEF RecordTargetLaunch, TypeOK, cluster, Targets
<1>9. CASE ApplyTargetService(o)
  <2>1. todo[o] # {}
    BY <1>0, <1>9 DEF ApplyTargetService, Held
  <2>2. services' \in SUBSET Versions
    BY <1>0, <1>9, <2>1, TypeParts, LowestIn DEF ApplyTargetService
  <2>3. pc' \in [Procs -> Labels]
    BY <1>0, <1>9, LocalsTyped DEF ApplyTargetService
  <2> QED BY <1>9, <2>2, <2>3 DEF ApplyTargetService, TypeOK, rows, bounds
<1>3. CASE ApplyRouter(o)
  <2>1. router' \in PodStates \ {"scaled", "stuck"}
    BY <1>3, AppliedTyped DEF ApplyRouter, TypeOK
  <2>2. pc' \in [Procs -> Labels]
    BY <1>0, <1>3, LocalsTyped DEF ApplyRouter
  <2> QED BY <1>3, <2>1, <2>2 DEF ApplyRouter, TypeOK, rows, bounds
<1>4. CASE RecordRouter(o)
  <2>1. row' \in Row \cup {None, Gone}
    BY <1>4, TypeParts, RowFields DEF RecordRouter
  <2> DEFINE new == [snap[o].row EXCEPT !.router = TRUE]
  <2>2. snap[o] \in Snap /\ new \in Row
    BY <1>0, <1>4, HeldRow, RowFields DEF RecordRouter
  <2>3. Load(o, [snap[o] EXCEPT !.row = new])
    BY <1>4 DEF RecordRouter
  <2> HIDE DEF new
  <2>4. snap' \in [Procs -> Snap]
    BY <1>0, <2>2, <2>3, SnapRow, LocalsTyped
  <2>5. pc' \in [Procs -> Labels]
    BY <1>0, <1>4, LocalsTyped DEF RecordRouter
  <2>6. strays' \in Strays
    BY <1>4, TypeParts DEF RecordRouter, Strays
  <2> QED BY <1>4, <2>1, <2>4, <2>5, <2>6 DEF RecordRouter, TypeOK, cluster, Snap, Targets
<1>5. CASE ApplyService(o)
  <2>1. front' \in Versions \cup {None, Router}
    BY <1>5, DesiredTyped DEF ApplyService, TypeOK, Column
  <2>2. pc' \in [Procs -> Labels]
    BY <1>0, <1>5, LocalsTyped DEF ApplyService
  <2> QED BY <1>5, <2>1, <2>2 DEF ApplyService, TypeOK, rows, bounds
<1>6. CASE RecordLaunch(o)
  <2>1. row' \in Row \cup {None, Gone}
    BY <1>6, TypeParts, RowFields DEF RecordLaunch
  <2>2. pc' \in [Procs -> Labels]
    BY <1>0, <1>6, LocalsTyped DEF RecordLaunch
  <2>3. strays' \in Strays
    BY <1>6, TypeParts DEF RecordLaunch, Strays
  <2> QED BY <1>6, <2>1, <2>2, <2>3 DEF RecordLaunch, TypeOK, cluster
<1>7. CASE RecordServingVersion(o)
  <2> DEFINE v == ServingColumn(DesiredFront(snap[o].targets))
             new == [snap[o].row EXCEPT !.k8s = TRUE, !.serving = v]
  <2>0. v \in Column
    BY DesiredTyped
  <2>1. row' \in Row \cup {None, Gone}
    BY <1>7, <2>0, TypeParts, RowFields DEF RecordServingVersion
  <2>2. snap[o] \in Snap /\ new \in Row
    BY <1>0, <1>7, <2>0, HeldRow, RowFields DEF RecordServingVersion
  <2>3. Load(o, [snap[o] EXCEPT !.row = new])
    BY <1>7 DEF RecordServingVersion
  <2> HIDE DEF new
  <2>4. snap' \in [Procs -> Snap]
    BY <1>0, <2>2, <2>3, SnapRow, LocalsTyped
  <2>5. pc' \in [Procs -> Labels]
    BY <1>0, <1>7, LocalsTyped DEF RecordServingVersion
  <2> QED BY <1>7, <2>1, <2>4, <2>5 DEF RecordServingVersion, TypeOK, cluster, bounds, Snap, Targets
<1>8. CASE ApplyJudges(o)
  <2>1. row' \in Row \cup {None, Gone}
    <3> DEFINE status == RollUpStatus(row, targets, snap[o].row.status)
    <3>1. status \in Statuses
      BY RollUpTyped
    <3>2. row' = row \/ (Exists /\ row' = [row EXCEPT !.status = status])
      BY <1>8 DEF ApplyJudges
    <3> HIDE DEF status
    <3>3. row \in Row \cup {None, Gone} /\ (Exists => row \in Row)
      BY TypeParts
    <3>4. ASSUME row \in Row PROVE [row EXCEPT !.status = status] \in Row
      BY <3>1, <3>4, RowFields
    <3> QED BY <3>2, <3>3, <3>4
  <2>2. pc' \in [Procs -> Labels] /\ snap' \in [Procs -> Snap] /\ todo' \in [Procs -> SUBSET Versions]
        /\ ask' \in [Procs -> Ask]
    BY <1>0, <1>8, TypeParts, LocalsTyped DEF ApplyJudges
  <2> QED BY <1>8, <2>1, <2>2 DEF ApplyJudges, TypeOK, cluster, bounds, Snap, Targets
<1> QED BY <1>1, <1>2, <1>3, <1>4, <1>5, <1>6, <1>7, <1>8, <1>9

LEMMA ReapedTyped ==
  ASSUME TypeOK, NEW p \in Procs, Reaped(p)
  PROVE  /\ pc' \in [Procs -> Labels] /\ snap' \in [Procs -> Snap]
         /\ todo' \in [Procs -> SUBSET Versions] /\ ask' \in [Procs -> Ask]
<1>1. "judge" \in Labels /\ {} \in SUBSET Versions
  BY DEF Labels
<1> QED BY <1>1, TypeParts, LocalsTyped DEF Reaped

LEMMA TidiesTyped ==
  ASSUME TypeOK, Held, NEW p \in Procs, Tidies(p) PROVE TypeOK'
<1>0. {"forgetRouter", "reap", "delete", "deleteService"} \subseteq Labels /\ "absent" \in PodStates
  BY DEF Labels, PodStates
<1>1. CASE RemoveRouter(p)
  <2>1. router' \in PodStates \ {"scaled", "stuck"}
    BY <1>0, <1>1 DEF RemoveRouter, TypeOK
  <2>2. pc' \in [Procs -> Labels]
    BY <1>0, <1>1, LocalsTyped DEF RemoveRouter
  <2> QED BY <1>1, <2>1, <2>2 DEF RemoveRouter, TypeOK, rows, bounds
<1>2. CASE ForgetRouter(p)
  <2>1. row' \in Row \cup {None, Gone}
    BY <1>2, TypeParts, RowFields DEF ForgetRouter
  <2> DEFINE new == [snap[p].row EXCEPT !.router = FALSE]
  <2>2. snap[p] \in Snap /\ new \in Row
    BY <1>2, HeldRow, RowFields DEF ForgetRouter
  <2>3. Load(p, [snap[p] EXCEPT !.row = new])
    BY <1>2 DEF ForgetRouter
  <2> HIDE DEF new
  <2>4. snap' \in [Procs -> Snap]
    BY <2>2, <2>3, SnapRow, LocalsTyped
  <2>5. pc' \in [Procs -> Labels]
    BY <1>0, <1>2, LocalsTyped DEF ForgetRouter
  <2> QED BY <1>2, <2>1, <2>4, <2>5 DEF ForgetRouter, TypeOK, cluster, bounds, Snap, Targets
<1>3. CASE ReapLists(p)
  <2>1. pc' \in [Procs -> Labels] /\ snap' \in [Procs -> Snap] /\ todo' \in [Procs -> SUBSET Versions]
        /\ ask' \in [Procs -> Ask]
    <3>1. CASE Reaped(p)
      BY <3>1, ReapedTyped
    <3>2. CASE ~Reaped(p)
      <4>1. Doomed \in SUBSET Versions /\ Loop(p, Doomed) /\ Goto(p, "delete") /\ UNCHANGED <<snap, ask>>
        BY <1>3, <3>2 DEF ReapLists, Doomed
      <4> QED BY <1>0, <4>1, TypeParts, LocalsTyped
    <3> QED BY <3>1, <3>2
  <2> QED BY <1>3, <2>1 DEF ReapLists, TypeOK, rows, cluster, bounds, Snap, Targets
<1>4. CASE ReapDeletes(p)
  <2>1. pods' \in [Versions -> PodStates]
    BY <1>0, <1>4, TypeParts DEF ReapDeletes
  <2>2. pc' \in [Procs -> Labels]
    BY <1>0, <1>4, LocalsTyped DEF ReapDeletes
  <2> QED BY <1>4, <2>1, <2>2 DEF ReapDeletes, TypeOK, rows, bounds
<1>5. CASE ReapDeletesService(p)
  <2> DEFINE rest == todo[p] \ {Lowest(todo[p])}
  <2>1. services' \in SUBSET Versions
    BY <1>5, TypeParts DEF ReapDeletesService
  <2>2. rest \in SUBSET Versions
        /\ (Reaped(p) \/ (Loop(p, rest) /\ Goto(p, "delete") /\ UNCHANGED <<snap, ask>>))
    BY <1>5, TypeParts DEF ReapDeletesService
  <2> HIDE DEF rest
  <2>3. pc' \in [Procs -> Labels] /\ snap' \in [Procs -> Snap] /\ todo' \in [Procs -> SUBSET Versions]
        /\ ask' \in [Procs -> Ask]
    BY <1>0, <2>2, TypeParts, ReapedTyped, LocalsTyped
  <2> QED BY <1>5, <2>1, <2>3 DEF ReapDeletesService, TypeOK, rows, bounds, Snap, Targets
<1> QED BY <1>1, <1>2, <1>3, <1>4, <1>5 DEF Tidies

LEMMA RemovalTyped ==
  ASSUME TypeOK, NEW o \in Operators,
         \/ RetireDeletes(o) \/ RetireDeletesService(o) \/ RemoveTarget(o)
         \/ UndeployDeletes(o) \/ UndeployDeletesService(o) \/ UndeployRouter(o)
         \/ UndeployFront(o) \/ DeleteSecret(o) \/ DeleteRow(o)
  PROVE  TypeOK'
<1>0. /\ o \in Procs
      /\ {"retireService", "removeTarget", "undeploy", "undeployService", "undeployFront",
          "undeploySecret", "undeployRow"} \subseteq Labels
      /\ "absent" \in PodStates
  BY DEF Procs, Labels, PodStates
<1>1. CASE RetireDeletes(o)
  <2>1. pods' \in [Versions -> PodStates]
    BY <1>0, <1>1, TypeParts DEF RetireDeletes
  <2>2. pc' \in [Procs -> Labels]
    BY <1>0, <1>1, LocalsTyped DEF RetireDeletes
  <2> QED BY <1>1, <2>1, <2>2 DEF RetireDeletes, TypeOK, rows, bounds
<1>2. CASE RemoveTarget(o)
  <2>1. targets' \in Targets
    BY <1>2, TypeParts DEF RemoveTarget, Targets
  <2> QED BY <1>0, <1>2, <2>1, LocalsTyped DEF RemoveTarget, TypeOK, cluster, bounds, Snap, Targets
<1>3. CASE UndeployDeletes(o)
  <2>1. pods' \in [Versions -> PodStates]
    BY <1>0, <1>3, TypeParts DEF UndeployDeletes
  <2>2. pc' \in [Procs -> Labels]
    BY <1>0, <1>3, LocalsTyped DEF UndeployDeletes
  <2> QED BY <1>3, <2>1, <2>2 DEF UndeployDeletes, TypeOK, rows, bounds
<1>7. CASE RetireDeletesService(o)
  <2>1. services' \in SUBSET Versions
    BY <1>7, TypeParts DEF RetireDeletesService
  <2>2. pc' \in [Procs -> Labels]
    BY <1>0, <1>7, LocalsTyped DEF RetireDeletesService
  <2> QED BY <1>7, <2>1, <2>2 DEF RetireDeletesService, TypeOK, rows, bounds
<1>8. CASE UndeployDeletesService(o)
  <2> DEFINE v    == Lowest(todo[o])
             rest == todo[o] \ {v}
  <2>1. services' \in SUBSET Versions
    BY <1>8, TypeParts DEF UndeployDeletesService
  <2>2. rest \in SUBSET Versions /\ Loop(o, rest) /\ Goto(o, "undeploy")
    BY <1>0, <1>8, TypeParts DEF UndeployDeletesService
  <2> HIDE DEF rest
  <2>3. pc' \in [Procs -> Labels] /\ todo' \in [Procs -> SUBSET Versions]
    BY <1>0, <2>2, LocalsTyped
  <2> QED BY <1>8, <2>1, <2>3 DEF UndeployDeletesService, TypeOK, rows, bounds
<1>9. CASE UndeployRouter(o)
  <2>1. router' \in PodStates \ {"scaled", "stuck"}
    BY <1>0, <1>9 DEF UndeployRouter, TypeOK
  <2>2. pc' \in [Procs -> Labels]
    BY <1>0, <1>9, LocalsTyped DEF UndeployRouter
  <2> QED BY <1>9, <2>1, <2>2 DEF UndeployRouter, TypeOK, rows, bounds
<1>4. CASE UndeployFront(o)
  <2>1. pc' \in [Procs -> Labels]
    BY <1>0, <1>4, LocalsTyped DEF UndeployFront
  <2> QED BY <1>4, <2>1 DEF UndeployFront, TypeOK, rows, bounds
<1>5. CASE DeleteSecret(o)
  <2>1. pc' \in [Procs -> Labels]
    BY <1>0, <1>5, LocalsTyped DEF DeleteSecret
  <2> QED BY <1>5, <2>1 DEF DeleteSecret, TypeOK, rows, bounds
<1>6. CASE DeleteRow(o)
  <2>1. targets' \in Targets
    BY <1>6 DEF DeleteRow, Targets
  <2> QED BY <1>0, <1>6, <2>1, LocalsTyped DEF DeleteRow, TypeOK, cluster, bounds, Snap, Targets
<1> QED BY <1>1, <1>2, <1>3, <1>4, <1>5, <1>6, <1>7, <1>8, <1>9

LEMMA SyncNextTyped ==
  ASSUME TypeOK, NEW S, NEW more \in Labels, NEW done \in Labels, SyncNext(S, more, done)
  PROVE  pc' \in [Procs -> Labels] /\ pc'[Sync] \in {more, done} /\ (pc'[Sync] = more => S # {} \/ more = done)
<1>1. Goto(Sync, IF S = {} THEN done ELSE more) /\ (IF S = {} THEN done ELSE more) \in Labels
  BY DEF SyncNext
<1>2. pc'[Sync] = IF S = {} THEN done ELSE more
  BY <1>1, TypeParts DEF Goto
<1> QED BY <1>1, <1>2, TypeParts, LocalsTyped

(* A loaded target observed *)
LEMMA ObservedSnap ==
  ASSUME NEW s \in Snap, NEW v \in Served(s.targets), NEW now \in Statuses
  PROVE  /\ [s EXCEPT !.targets[v].status = now] \in Snap
         /\ [s EXCEPT !.targets[v].status = now].row = s.row
         /\ Served([s EXCEPT !.targets[v].status = now].targets) = Served(s.targets)
<1> DEFINE t   == [s.targets[v] EXCEPT !.status = now]
           all == [s.targets EXCEPT ![v] = t]
<1>1. v \in Versions /\ s.targets \in Targets /\ s.targets[v] \in Target
  BY DEF Served, Snap, Targets
<1>2. t \in Target /\ t # None
  BY <1>1, TargetFields
<1>3. [s EXCEPT !.targets[v].status = now] = [s EXCEPT !.targets = all]
  OBVIOUS
<1> HIDE DEF t
<1>4. all \in Targets /\ Served(all) = Served(s.targets)
  BY <1>1, <1>2 DEF Targets, Served
<1> HIDE DEF all
<1>5. [s EXCEPT !.targets = all] \in Snap /\ [s EXCEPT !.targets = all].row = s.row
      /\ [s EXCEPT !.targets = all].targets = all
  BY <1>4 DEF Snap
<1> QED BY <1>3, <1>4, <1>5

LEMMA ScaledDownTyped ==
  ASSUME TypeOK, ScaledDown
  PROVE  pc' \in [Procs -> Labels] /\ todo' \in [Procs -> SUBSET Versions]
<1> DEFINE rest == todo[Sync] \ {Lowest(todo[Sync])}
<1>1. /\ rest \in SUBSET Versions /\ Loop(Sync, rest) /\ SyncNext(rest, "scale", "removeRouter")
      /\ {"scale", "removeRouter"} \subseteq Labels
  BY TypeParts DEF ScaledDown, Labels
<1> HIDE DEF rest
<1> QED BY <1>1, TypeParts, SyncNextTyped, LocalsTyped

LEMMA SyncsTyped ==
  ASSUME TypeOK, Held, Syncs PROVE TypeOK'
<1>0. Sync \in Procs /\ {"observe", "observeRouter", "move", "judge", "noteMove", "scale", "removeRouter"}
        \subseteq Labels
  BY DEF Procs, Labels
<1>1. CASE SyncLists
  <2> DEFINE launched == {v \in Served(targets) : targets[v].launched}
  <2>1. /\ launched \in SUBSET Versions /\ Loop(Sync, launched)
        /\ SyncNext(launched, "observe", "observeRouter") /\ Load(Sync, Here) /\ row # Gone
    BY <1>1, ServedIn DEF SyncLists, Exists
  <2> HIDE DEF launched
  <2>2. pc' \in [Procs -> Labels] /\ snap' \in [Procs -> Snap] /\ todo' \in [Procs -> SUBSET Versions]
    BY <1>0, <2>1, HereTyped, SyncNextTyped, LocalsTyped
  <2> QED BY <1>1, <2>2 DEF SyncLists, TypeOK, rows, cluster, bounds, Snap, Targets
<1>2. CASE ObserveTarget
  <2> DEFINE v    == Lowest(todo[Sync])
             rest == todo[Sync] \ {v}
             now  == StatusFromObservation(pods[v], snap[Sync].targets[v].status)
             new  == [snap[Sync] EXCEPT !.targets[v].status = now]
  <2>1. pc[Sync] = "observe" /\ todo[Sync] # {} /\ todo[Sync] \subseteq Served(snap[Sync].targets)
    BY <1>2 DEF ObserveTarget, Held
  <2>2. v \in Served(snap[Sync].targets) /\ now \in Statuses
    BY <2>1, ServedIn, LowestIn, ObservedTyped
  <2>3. snap[Sync] \in Snap
    BY TypeParts
  <2>4. /\ targets' = [targets EXCEPT ![v] =
                          IF @ = None \/ now = snap[Sync].targets[v].status THEN @
                          ELSE [@ EXCEPT !.status = now]]
        /\ Load(Sync, new) /\ Loop(Sync, rest) /\ SyncNext(rest, "observe", "observeRouter")
    BY <1>2 DEF ObserveTarget
  <2>5. rest \in SUBSET Versions
    BY TypeParts
  <2> HIDE DEF now, rest, v
  <2>6. new \in Snap
    BY <2>2, <2>3, ObservedSnap
  <2> HIDE DEF new
  <2>7. targets' \in Targets
    BY <2>2, <2>4, TypeParts, TargetFields DEF Targets
  <2>8. pc' \in [Procs -> Labels] /\ snap' \in [Procs -> Snap] /\ todo' \in [Procs -> SUBSET Versions]
    BY <1>0, <2>4, <2>5, <2>6, SyncNextTyped, LocalsTyped
  <2> QED BY <1>2, <2>7, <2>8 DEF ObserveTarget, TypeOK, cluster, bounds, Snap, Targets
<1>3. CASE ObserveRouter
  <2> DEFINE up  == router = "ready"
             new == [snap[Sync].row EXCEPT !.routerUp = up]
  <2>1. snap[Sync] \in Snap /\ new \in Row
    BY <1>0, <1>3, HeldRow, RowFields DEF ObserveRouter
  <2>2. row' \in Row \cup {None, Gone}
    BY <1>3, TypeParts, RowFields DEF ObserveRouter
  <2>3. Load(Sync, [snap[Sync] EXCEPT !.row = new]) \/ snap' = snap
    BY <1>3 DEF ObserveRouter
  <2> HIDE DEF new
  <2>4. snap' \in [Procs -> Snap]
    BY <1>0, <2>1, <2>3, SnapRow, LocalsTyped, TypeParts
  <2>5. pc' \in [Procs -> Labels]
    BY <1>0, <1>3, LocalsTyped DEF ObserveRouter
  <2> QED BY <1>3, <2>2, <2>4, <2>5 DEF ObserveRouter, TypeOK, cluster, bounds, Snap, Targets
<1>4. CASE MoveFrontDoor
  <2>1. front' \in Versions \cup {None, Router}
    BY <1>4, DesiredTyped DEF MoveFrontDoor, TypeOK, Column
  <2>2. pc' \in [Procs -> Labels] /\ snap' \in [Procs -> Snap] /\ todo' \in [Procs -> SUBSET Versions]
        /\ ask' \in [Procs -> Ask]
    BY <1>0, <1>4, TypeParts, LocalsTyped DEF MoveFrontDoor
  <2> QED BY <1>4, <2>1, <2>2 DEF MoveFrontDoor, TypeOK, rows, bounds, Snap, Targets
<1>5. CASE RecordMove
  <2> DEFINE v   == ServingColumn(DesiredFront(snap[Sync].targets))
             new == [snap[Sync].row EXCEPT !.serving = v]
             s   == [snap[Sync] EXCEPT !.row = new]
             S   == Retired(s)
  <2>0. v \in Column
    BY DesiredTyped
  <2>1. snap[Sync] \in Snap /\ new \in Row
    BY <1>0, <1>5, <2>0, HeldRow, RowFields DEF RecordMove
  <2>2. row' \in Row \cup {None, Gone}
    BY <1>5, <2>0, TypeParts, RowFields DEF RecordMove
  <2>3. Load(Sync, s) /\ Loop(Sync, S) /\ SyncNext(S, "scale", "removeRouter")
    BY <1>5 DEF RecordMove
  <2>4. S \in SUBSET Versions
    BY ServedIn DEF Retired
  <2> HIDE DEF S
  <2>5. s \in Snap
    BY <2>1, SnapRow
  <2> HIDE DEF s
  <2>6. pc' \in [Procs -> Labels] /\ snap' \in [Procs -> Snap] /\ todo' \in [Procs -> SUBSET Versions]
    BY <1>0, <2>3, <2>4, <2>5, SyncNextTyped, LocalsTyped
  <2> QED BY <1>5, <2>2, <2>6 DEF RecordMove, TypeOK, cluster, bounds, Snap, Targets
<1>6. CASE ScaleDown
  <2>1. pods' \in [Versions -> PodStates]
    BY <1>6, TypeParts, AppliedTyped DEF ScaleDown
  <2>2. pc' \in [Procs -> Labels] /\ todo' \in [Procs -> SUBSET Versions]
    BY <1>6, ScaledDownTyped DEF ScaleDown
  <2> QED BY <1>6, <2>1, <2>2 DEF ScaleDown, TypeOK, rows, bounds
<1>7. CASE SyncJudges
  <2> DEFINE status == RollUpStatus(snap[Sync].row, snap[Sync].targets, snap[Sync].row.status)
  <2>1. status \in Statuses
    BY RollUpTyped
  <2>2. row' = row \/ (Exists /\ row' = [row EXCEPT !.status = status])
    BY <1>7 DEF SyncJudges
  <2> HIDE DEF status
  <2>3. row \in Row \cup {None, Gone} /\ (Exists => row \in Row)
    BY TypeParts
  <2>4. ASSUME row \in Row PROVE [row EXCEPT !.status = status] \in Row
    BY <2>1, <2>4, RowFields
  <2>5. row' \in Row \cup {None, Gone}
    BY <2>2, <2>3, <2>4
  <2> QED BY <1>0, <1>7, <2>5, LocalsTyped DEF SyncJudges, TypeOK, cluster, bounds, Snap, Targets
<1> QED BY <1>0, <1>1, <1>2, <1>3, <1>4, <1>5, <1>6, <1>7, TidiesTyped DEF Syncs

LEMMA FaultsTyped ==
  ASSUME TypeOK, \/ \E p \in Procs : CallFails(p) \/ HousekeepingFails(p)
                 \/ Crash
                 \/ \E v \in Versions : PodFails(v) \/ LoadGivesUp(v)
  PROVE  TypeOK'
<1>0. {"starting", "stuck"} \subseteq PodStates /\ "idle" \in Labels /\ Sync \in Procs
  BY DEF PodStates, Labels, Procs
<1>1. \A k \in {"end", "pods", "load"} : Fault(k) => faults' \in [FaultKinds -> Nat]
  BY CountTyped DEF FaultKinds
<1>2. ASSUME NEW p \in Procs, CallFails(p) PROVE TypeOK'
  <2>1. row' \in Row \cup {None, Gone}
    <3>1. row' = row \/ (Exists /\ row' = [row EXCEPT !.status = "FAILED"])
      BY <1>2 DEF CallFails
    <3>2. row \in Row \cup {None, Gone} /\ (Exists => row \in Row)
      BY TypeParts
    <3>3. ASSUME row \in Row PROVE [row EXCEPT !.status = "FAILED"] \in Row
      BY <3>3, RowFields DEF Statuses
    <3> QED BY <3>1, <3>2, <3>3
  <2>2. faults' \in [FaultKinds -> Nat] /\ strays' \in Strays /\ Drop(p)
    BY <1>1, <1>2, CountTyped DEF CallFails
  <2> QED BY <1>2, <2>1, <2>2, LocalsTyped DEF CallFails, TypeOK, cluster, Snap, Targets
<1>3. ASSUME NEW p \in Procs, HousekeepingFails(p) PROVE TypeOK'
  <2>1. faults' \in [FaultKinds -> Nat]
    BY <1>1, <1>3 DEF HousekeepingFails
  <2>2. pc' \in [Procs -> Labels] /\ snap' \in [Procs -> Snap] /\ todo' \in [Procs -> SUBSET Versions]
        /\ ask' \in [Procs -> Ask]
    BY <1>3, ScaledDownTyped, ReapedTyped, TypeParts DEF HousekeepingFails
  <2> QED BY <1>3, <2>1, <2>2 DEF HousekeepingFails, TypeOK, rows, cluster, Snap, Targets
<1>4. CASE Crash
  <2>1. faults' \in [FaultKinds -> Nat] /\ strays' \in Strays
    BY <1>1, <1>4, CountTyped DEF Crash
  <2>2. pc' \in [Procs -> Labels] /\ snap' \in [Procs -> Snap] /\ todo' \in [Procs -> SUBSET Versions]
        /\ ask' \in [Procs -> Ask]
    BY <1>0, <1>4, NullsTyped DEF Crash
  <2> QED BY <1>4, <2>1, <2>2 DEF Crash, TypeOK, rows, cluster, Snap, Targets
<1>5. ASSUME NEW v \in Versions, PodFails(v) \/ LoadGivesUp(v) PROVE TypeOK'
  <2>1. faults' \in [FaultKinds -> Nat]
    BY <1>1, <1>5 DEF PodFails, LoadGivesUp
  <2>2. pods' \in [Versions -> PodStates]
    BY <1>0, <1>5, TypeParts DEF PodFails, LoadGivesUp
  <2> QED BY <1>5, <2>1, <2>2 DEF PodFails, LoadGivesUp, TypeOK, rows, locals
<1> QED BY <1>2, <1>3, <1>4, <1>5

LEMMA PodsStartTyped == ASSUME TypeOK, PodsStart PROVE TypeOK'
<1>0. "ready" \in PodStates \ {"scaled", "stuck"}
  BY DEF PodStates
<1>1. CASE RouterStarts
  BY <1>0, <1>1 DEF RouterStarts, TypeOK, rows, locals, bounds
<1>2. ASSUME NEW v \in Versions, PodStarts(v) PROVE TypeOK'
  <2>1. pods' \in [Versions -> PodStates]
    BY <1>0, <1>2, TypeParts DEF PodStarts
  <2> QED BY <1>2, <2>1 DEF PodStarts, TypeOK, rows, locals, bounds
<1> QED BY <1>1, <1>2 DEF PodsStart

LEMMA StepTyped == ASSUME TypeOK, Held, [Next]_vars PROVE TypeOK'
<1>1. CASE \E o \in Operators : Request(o) \/ Handles(o)
  BY <1>1, RequestTyped, CommitTyped, TokenTyped, ApplyTyped, TidiesTyped, RemovalTyped
     DEF Handles, Applies, Procs
<1>2. CASE UNCHANGED vars
  BY <1>2 DEF vars, rows, cluster, locals, bounds, TypeOK
<1> QED BY <1>1, <1>2, SyncsTyped, FaultsTyped, PodsStartTyped DEF Next

----------------------------------------------------------------------------
(* What a step leaves to the other processes *)

Others(p) ==
  \A q \in Procs \ {p} :
    pc'[q] = pc[q] /\ snap'[q] = snap[q] /\ todo'[q] = todo[q] /\ ask'[q] = ask[q]

LEMMA LocalsOf ==
  ASSUME TypeOK, NEW p \in Procs
  PROVE  /\ \A at : Goto(p, at) => pc'[p] = at /\ \A q \in Procs \ {p} : pc'[q] = pc[q]
         /\ \A s : Load(p, s) => snap'[p] = s /\ \A q \in Procs \ {p} : snap'[q] = snap[q]
         /\ \A S : Loop(p, S) => todo'[p] = S /\ \A q \in Procs \ {p} : todo'[q] = todo[q]
         /\ Drop(p) => /\ pc'[p] = "idle" /\ snap'[p] = NoSnap /\ todo'[p] = {} /\ ask'[p] = NoAsk
                       /\ Others(p)
<1>1. \A at : Goto(p, at) => pc'[p] = at /\ \A q \in Procs \ {p} : pc'[q] = pc[q]
  BY TypeParts DEF Goto
<1>2. \A s : Load(p, s) => snap'[p] = s /\ \A q \in Procs \ {p} : snap'[q] = snap[q]
  BY TypeParts DEF Load
<1>3. \A S : Loop(p, S) => todo'[p] = S /\ \A q \in Procs \ {p} : todo'[q] = todo[q]
  BY TypeParts DEF Loop
<1>4. Drop(p) => ask'[p] = NoAsk /\ \A q \in Procs \ {p} : ask'[q] = ask[q]
  BY TypeParts DEF Drop
<1> QED BY <1>1, <1>2, <1>3, <1>4 DEF Drop, Others

LEMMA HeldOf ==
  ASSUME TypeOK, Held, NEW p \in Procs, Others(p),
         pc'[p] \notin {"idle", "commit", "apply"} => snap'[p].row # None,
         p # Sync => pc'[p] # "scale", pc'[p] = "service" => todo'[p] # {},
         p = Sync /\ pc'[p] = "observe" => todo'[p] # {} /\ todo'[p] \subseteq Served(snap'[p].targets)
  PROVE  Held'
<1>1. \A q \in Procs : pc'[q] \notin {"idle", "commit", "apply"} => snap'[q].row # None
  BY DEF Held, Others
<1>2. /\ \A o \in Operators : pc'[o] # "scale"
      /\ \A q \in Procs : pc'[q] = "service" => todo'[q] # {}
  BY ProcessAssumption DEF Held, Others, Procs
<1>3. (pc[Sync] = "observe" => todo[Sync] # {} /\ todo[Sync] \subseteq Served(snap[Sync].targets))'
  <2>1. CASE p = Sync
    BY <2>1 DEF Served
  <2>2. CASE p # Sync
    BY <2>2 DEF Held, Others, Procs, Served
  <2> QED BY <2>1, <2>2
<1> QED BY <1>1, <1>2, <1>3 DEF Held

LEMMA BeginMoves ==
  ASSUME TypeOK, NEW o \in Operators, NEW a, NEW at, NEW S, Begin(o, a, at, S)
  PROVE  /\ Others(o) /\ MayStart(o) /\ UNCHANGED <<rows, cluster, faults, strays>>
         /\ pc'[o] = at /\ snap'[o] = Here /\ todo'[o] = S /\ ask'[o] = a
<1>1. Load(o, Here) /\ Goto(o, at) /\ Loop(o, S) /\ ask' = [ask EXCEPT ![o] = a] /\ o \in Procs
  BY DEF Begin, Procs
<1>2. ask'[o] = a /\ \A q \in Procs \ {o} : ask'[q] = ask[q]
  BY <1>1, TypeParts
<1>3. pc'[o] = at /\ snap'[o] = Here /\ todo'[o] = S
  BY <1>1, LocalsOf
<1>4. Others(o)
  BY <1>1, <1>2, LocalsOf DEF Others
<1> QED BY <1>2, <1>3, <1>4 DEF Begin

(* What a request finds and reads when it begins *)
LEMMA RequestMoves ==
  ASSUME TypeOK, NEW o \in Operators, Request(o)
  PROVE  /\ Others(o) /\ MayStart(o) /\ UNCHANGED <<rows, cluster, faults, strays>>
         /\ row # Gone /\ snap'[o] = Here
         /\ \/ pc'[o] = "commit" /\ ask'[o].version \in Versions
            \/ /\ pc'[o] = "retire" /\ Exists
               /\ ask'[o].version \in Served(targets) /\ targets[ask'[o].version].weight = 0
            \/ /\ pc'[o] = "undeploy" /\ Exists
               /\ todo'[o] = {v \in Served(targets) : targets[v].launched}
<1>1. CASE DeployModel(o)
  <2>1. PICK v \in Versions :
          /\ row # Gone
          /\ Begin(o, [op |-> "deploy", version |-> v, share |-> TOTAL_WEIGHT], "commit", {})
    BY <1>1 DEF DeployModel
  <2> DEFINE a == [op |-> "deploy", version |-> v, share |-> TOTAL_WEIGHT]
  <2>2. Begin(o, a, "commit", {}) /\ a.version = v
    BY <2>1
  <2> HIDE DEF a
  <2> QED BY <2>1, <2>2, BeginMoves
<1>2. CASE Rollout(o)
  <2>1. PICK v \in Versions, sh \in Shares :
          /\ Exists
          /\ Begin(o, [op |-> "rollout", version |-> v, share |-> sh], "commit", {})
    BY <1>2 DEF Rollout
  <2> DEFINE a == [op |-> "rollout", version |-> v, share |-> sh]
  <2>2. Begin(o, a, "commit", {}) /\ row # Gone /\ a.version = v
    BY <2>1 DEF Exists
  <2> HIDE DEF a
  <2> QED BY <2>2, BeginMoves
<1>3. CASE Retire(o)
  <2>1. PICK v \in Versions :
          /\ Exists /\ targets[v] # None
          /\ targets[v].weight = 0 /\ row.serving # v
          /\ Begin(o, [op |-> "retire", version |-> v, share |-> 0], "retire", {})
    BY <1>3 DEF Retire
  <2> DEFINE a == [op |-> "retire", version |-> v, share |-> 0]
  <2>2. Begin(o, a, "retire", {}) /\ a.version = v /\ row # Gone
    BY <2>1 DEF Exists
  <2> HIDE DEF a
  <2>3. ask'[o] = a
    BY <2>2, BeginMoves
  <2>4. ask'[o].version \in Served(targets) /\ targets[ask'[o].version].weight = 0
    BY <2>1, <2>2, <2>3 DEF Served
  <2> QED BY <2>1, <2>2, <2>4, BeginMoves
<1>4. CASE Undeploy(o)
  <2> DEFINE S == {v \in Served(targets) : targets[v].launched}
  <2>1. Begin(o, NoAsk, "undeploy", S) /\ Exists /\ row # Gone
    BY <1>4 DEF Undeploy, Exists
  <2> HIDE DEF S
  <2>2. todo'[o] = S /\ Others(o) /\ MayStart(o) /\ pc'[o] = "undeploy" /\ snap'[o] = Here
        /\ UNCHANGED <<rows, cluster, faults, strays>>
    BY <2>1, BeginMoves
  <2> QED BY <2>1, <2>2 DEF S
<1> QED BY <1>1, <1>2, <1>3, <1>4 DEF Request

Keeps(p) == /\ Others(p) /\ pc[p] # "idle" /\ pc'[p] \notin {"scale", "observe", "commit"}
            /\ pc'[p] \notin {"idle", "commit", "apply"} => snap'[p].row # None
            /\ pc'[p] = "service" => todo'[p] # {}

LEMMA GotoKeeps ==
  ASSUME TypeOK, Held, NEW p \in Procs, NEW at, Goto(p, at), snap' = snap, ask' = ask,
         todo' = todo \/ (\E S : Loop(p, S)),
         pc[p] # "idle", at \notin {"scale", "observe", "commit", "service"},
         pc[p] \notin {"idle", "commit", "apply"} \/ at \in {"idle", "commit", "apply"}
  PROVE  Keeps(p) /\ pc'[p] = at
<1>1. pc'[p] = at /\ Others(p)
  BY LocalsOf DEF Others
<1> QED BY <1>1 DEF Keeps, Held

LEMMA DropKeeps ==
  ASSUME TypeOK, NEW p \in Procs, Drop(p), pc[p] # "idle"
  PROVE  Keeps(p) /\ pc'[p] = "idle"
BY LocalsOf DEF Keeps

LEMMA LoadKeeps ==
  ASSUME TypeOK, NEW p \in Procs, NEW at, NEW s, Goto(p, at), Load(p, s), ask' = ask, s.row # None,
         todo' = todo \/ (\E S : Loop(p, S)),
         pc[p] # "idle", at \notin {"scale", "observe", "commit", "service"}
  PROVE  Keeps(p) /\ pc'[p] = at /\ snap'[p] = s
<1>1. pc'[p] = at /\ snap'[p] = s /\ Others(p)
  BY LocalsOf DEF Others
<1> QED BY <1>1 DEF Keeps

LEMMA TidiesKeeps ==
  ASSUME TypeOK, Held, NEW p \in Procs, Tidies(p) PROVE Keeps(p)
<1>0. ASSUME Reaped(p), pc[p] \in {"reap", "deleteService"} PROVE Keeps(p)
  <2>1. CASE p = Sync
    BY <1>0, <2>1, GotoKeeps DEF Reaped
  <2>2. CASE p # Sync
    BY <1>0, <2>2, DropKeeps DEF Reaped
  <2> QED BY <2>1, <2>2
<1>1. CASE RemoveRouter(p)
  BY <1>1, GotoKeeps DEF RemoveRouter
<1>2. CASE ForgetRouter(p)
  <2> DEFINE new == [snap[p].row EXCEPT !.router = FALSE]
  <2>1. snap[p] \in Snap /\ new \in Row
    BY <1>2, HeldRow, RowFields DEF ForgetRouter
  <2>2. Load(p, [snap[p] EXCEPT !.row = new]) /\ Goto(p, "reap") /\ pc[p] = "forgetRouter" /\ UNCHANGED <<ask, todo>>
    BY <1>2 DEF ForgetRouter
  <2> HIDE DEF new
  <2>3. [snap[p] EXCEPT !.row = new].row # None
    BY <2>1, RowFields DEF Snap
  <2> QED BY <2>2, <2>3, LoadKeeps
<1>3. CASE ReapLists(p)
  BY <1>0, <1>3, GotoKeeps DEF ReapLists
<1>4. CASE ReapDeletes(p)
  BY <1>4, GotoKeeps DEF ReapDeletes
<1>5. CASE ReapDeletesService(p)
  <2>1. CASE Reaped(p)
    BY <1>0, <1>5, <2>1 DEF ReapDeletesService
  <2>2. CASE ~Reaped(p)
    BY <1>5, <2>2, GotoKeeps DEF ReapDeletesService
  <2> QED BY <2>1, <2>2
<1> QED BY <1>1, <1>2, <1>3, <1>4, <1>5 DEF Tidies

LEMMA HandlesKeeps ==
  ASSUME TypeOK, Held, NEW o \in Operators, Handles(o) PROVE Keeps(o)
<1>0. o \in Procs /\ o # Sync
  BY ProcessAssumption DEF Procs
<1>1. CASE CommitFails(o) \/ RemoveTarget(o) \/ DeleteRow(o)
  BY <1>0, <1>1, DropKeeps DEF CommitFails, RemoveTarget, DeleteRow
<1>2. CASE CommitDeploy(o) \/ CommitRollout(o)
  BY <1>0, <1>2, GotoKeeps DEF CommitDeploy, CommitRollout
<1>3. CASE ApplyReads(o)
  <2>1. CASE Exists
    <3>1. Load(o, Here) /\ Loop(o, Served(targets)) /\ Goto(o, "token") /\ ask' = ask /\ pc[o] = "apply"
      BY <1>3, <2>1 DEF ApplyReads
    <3>2. Here.row # None
      BY <2>1 DEF Here, Exists
    <3> QED BY <1>0, <3>1, <3>2, LoadKeeps
  <2>2. CASE ~Exists
    BY <1>0, <1>3, <2>2, DropKeeps DEF ApplyReads
  <2> QED BY <2>1, <2>2
<1>4. CASE EnsureServingToken(o)
  <2>1. CASE Drop(o)
    BY <1>0, <1>4, <2>1, DropKeeps DEF EnsureServingToken
  <2>2. CASE ~Drop(o)
    <3>1. /\ Goto(o, "targets") \/ Goto(o, "secret")
          /\ pc[o] = "token" /\ UNCHANGED <<ask, snap, todo>>
      BY <1>4, <2>2 DEF EnsureServingToken
    <3> QED BY <1>0, <3>1, GotoKeeps
  <2> QED BY <2>1, <2>2
<1>5. CASE ApplySecret(o) \/ ApplyTargetService(o) \/ ApplyRouter(o)
  BY <1>0, <1>5, GotoKeeps DEF ApplySecret, ApplyTargetService, ApplyRouter
<1>13. CASE ApplyTarget(o)
  <2>1. Goto(o, "service") /\ UNCHANGED <<ask, snap, todo>> /\ pc[o] = "targets" /\ todo[o] # {}
    BY <1>13 DEF ApplyTarget
  <2>2. pc'[o] = "service" /\ Others(o)
    BY <1>0, <2>1, LocalsOf DEF Others
  <2> QED BY <1>0, <2>1, <2>2 DEF Keeps, Held
<1>6. CASE RecordTargetLaunch(o)
  BY <1>0, <1>6, GotoKeeps DEF RecordTargetLaunch
<1>7. CASE RecordRouter(o)
  <2> DEFINE new == [snap[o].row EXCEPT !.router = TRUE]
  <2>1. snap[o] \in Snap /\ new \in Row
    BY <1>0, <1>7, HeldRow, RowFields DEF RecordRouter
  <2>2. Load(o, [snap[o] EXCEPT !.row = new]) /\ Goto(o, "front") /\ pc[o] = "noteRouter" /\ UNCHANGED <<ask, todo>>
    BY <1>7 DEF RecordRouter
  <2> HIDE DEF new
  <2>3. [snap[o] EXCEPT !.row = new].row # None
    BY <2>1, RowFields DEF Snap
  <2> QED BY <1>0, <2>2, <2>3, LoadKeeps
<1>8. CASE ApplyService(o) \/ RecordLaunch(o)
  BY <1>0, <1>8, GotoKeeps DEF ApplyService, RecordLaunch
<1>9. CASE RecordServingVersion(o)
  <2> DEFINE v == ServingColumn(DesiredFront(snap[o].targets))
             new == [snap[o].row EXCEPT !.k8s = TRUE, !.serving = v]
  <2>0. v \in Column
    BY DesiredTyped
  <2>1. snap[o] \in Snap /\ new \in Row
    BY <1>0, <1>9, <2>0, HeldRow, RowFields DEF RecordServingVersion
  <2>2. Load(o, [snap[o] EXCEPT !.row = new]) /\ Goto(o, "judge") /\ pc[o] = "noteServing" /\ UNCHANGED <<ask, todo>>
    BY <1>9 DEF RecordServingVersion
  <2> HIDE DEF new
  <2>3. [snap[o] EXCEPT !.row = new].row # None
    BY <2>1, RowFields DEF Snap
  <2> QED BY <1>0, <2>2, <2>3, LoadKeeps
<1>10. CASE ApplyJudges(o)
  BY <1>0, <1>10, GotoKeeps, DropKeeps DEF ApplyJudges
<1>11. CASE RetireDeletes(o) \/ RetireDeletesService(o) \/ UndeployFront(o) \/ DeleteSecret(o)
  BY <1>0, <1>11, GotoKeeps DEF RetireDeletes, RetireDeletesService, UndeployFront, DeleteSecret
<1>12. CASE UndeployDeletes(o) \/ UndeployDeletesService(o) \/ UndeployRouter(o)
  BY <1>0, <1>12, GotoKeeps DEF UndeployDeletes, UndeployDeletesService, UndeployRouter
<1> QED BY <1>0, <1>1, <1>2, <1>3, <1>4, <1>5, <1>6, <1>7, <1>8, <1>9, <1>10, <1>11, <1>12, <1>13,
           TidiesKeeps
        DEF Handles, Applies

LEMMA SyncKeeps ==
  ASSUME TypeOK, Held, Syncs
  PROVE  /\ Others(Sync) /\ Held'
         /\ pc[Sync] # "idle" \/ MayStart(Sync)
<1>0. Sync \in Procs
  BY DEF Procs
<1>1. ASSUME Keeps(Sync) PROVE Others(Sync) /\ Held' /\ pc[Sync] # "idle"
  BY <1>0, <1>1, HeldOf DEF Keeps
<1>2. CASE SyncLists
  <2> DEFINE launched == {v \in Served(targets) : targets[v].launched}
  <2>1. /\ Loop(Sync, launched) /\ SyncNext(launched, "observe", "observeRouter")
        /\ Load(Sync, Here) /\ ask' = ask /\ MayStart(Sync)
    BY <1>2 DEF SyncLists
  <2>2. Here.row # None /\ launched \subseteq Served(Here.targets)
    BY <1>2 DEF SyncLists, Exists, Here
  <2> HIDE DEF launched
  <2>3. /\ pc'[Sync] = (IF launched = {} THEN "observeRouter" ELSE "observe")
        /\ todo'[Sync] = launched /\ snap'[Sync] = Here /\ Others(Sync)
    BY <1>0, <2>1, LocalsOf DEF SyncNext, Others
  <2>4. Held'
    BY <1>0, <2>2, <2>3, HeldOf
  <2> QED BY <2>1, <2>3, <2>4
<1>3. CASE ObserveTarget
  <2> DEFINE v    == Lowest(todo[Sync])
             rest == todo[Sync] \ {v}
             now  == StatusFromObservation(pods[v], snap[Sync].targets[v].status)
             new  == [snap[Sync] EXCEPT !.targets[v].status = now]
  <2>1. pc[Sync] = "observe" /\ todo[Sync] # {} /\ todo[Sync] \subseteq Served(snap[Sync].targets)
    BY <1>3 DEF ObserveTarget, Held
  <2>2. v \in Served(snap[Sync].targets) /\ now \in Statuses
    BY <2>1, ServedIn, LowestIn, ObservedTyped
  <2>3. snap[Sync] \in Snap /\ snap[Sync].row # None
    BY <1>0, <2>1, TypeParts DEF Held
  <2>4. Load(Sync, new) /\ Loop(Sync, rest) /\ SyncNext(rest, "observe", "observeRouter") /\ ask' = ask
    BY <1>3 DEF ObserveTarget
  <2>5. rest \subseteq Served(snap[Sync].targets)
    BY <2>1
  <2> HIDE DEF now, rest, v
  <2>6. new.row # None /\ Served(new.targets) = Served(snap[Sync].targets)
    BY <2>2, <2>3, ObservedSnap
  <2> HIDE DEF new
  <2>7. /\ pc'[Sync] = (IF rest = {} THEN "observeRouter" ELSE "observe")
        /\ todo'[Sync] = rest /\ snap'[Sync] = new /\ Others(Sync)
    BY <1>0, <2>4, LocalsOf DEF SyncNext, Others
  <2>8. Held'
    BY <1>0, <2>5, <2>6, <2>7, HeldOf
  <2> QED BY <2>1, <2>7, <2>8
<1>4. CASE ObserveRouter
  <2> DEFINE new == [snap[Sync].row EXCEPT !.routerUp = (router = "ready")]
  <2>1. snap[Sync] \in Snap /\ new \in Row
    BY <1>0, <1>4, HeldRow, RowFields DEF ObserveRouter
  <2>2. /\ Load(Sync, [snap[Sync] EXCEPT !.row = new]) \/ snap' = snap
        /\ Goto(Sync, "move") /\ UNCHANGED <<ask, todo>> /\ pc[Sync] = "observeRouter"
    BY <1>4 DEF ObserveRouter
  <2> HIDE DEF new
  <2>3. [snap[Sync] EXCEPT !.row = new].row # None
    BY <2>1, RowFields DEF Snap
  <2> QED BY <1>0, <1>1, <2>2, <2>3, LoadKeeps, GotoKeeps
<1>5. CASE MoveFrontDoor
  BY <1>0, <1>1, <1>5, DropKeeps, GotoKeeps DEF MoveFrontDoor
<1>6. CASE RecordMove
  <2> DEFINE v   == ServingColumn(DesiredFront(snap[Sync].targets))
             new == [snap[Sync].row EXCEPT !.serving = v]
             s   == [snap[Sync] EXCEPT !.row = new]
             S   == Retired(s)
  <2>0. v \in Column
    BY DesiredTyped
  <2>1. snap[Sync] \in Snap /\ new \in Row
    BY <1>0, <1>6, <2>0, HeldRow, RowFields DEF RecordMove
  <2>2. /\ Load(Sync, s) /\ Loop(Sync, S) /\ SyncNext(S, "scale", "removeRouter")
        /\ ask' = ask /\ pc[Sync] = "noteMove"
    BY <1>6 DEF RecordMove
  <2> HIDE DEF S
  <2>3. s.row # None
    BY <2>1, RowFields DEF Snap
  <2> HIDE DEF s
  <2>4. /\ pc'[Sync] = (IF S = {} THEN "removeRouter" ELSE "scale")
        /\ snap'[Sync] = s /\ Others(Sync)
    BY <1>0, <2>2, LocalsOf DEF SyncNext, Others
  <2>5. Held'
    BY <1>0, <2>3, <2>4, HeldOf
  <2> QED BY <2>2, <2>4, <2>5
<1>7. CASE ScaleDown
  <2> DEFINE rest == todo[Sync] \ {Lowest(todo[Sync])}
  <2>1. /\ Loop(Sync, rest) /\ SyncNext(rest, "scale", "removeRouter")
        /\ UNCHANGED <<ask, snap>> /\ pc[Sync] = "scale"
    BY <1>7 DEF ScaleDown, ScaledDown
  <2> HIDE DEF rest
  <2>2. pc'[Sync] = (IF rest = {} THEN "removeRouter" ELSE "scale") /\ Others(Sync)
    BY <1>0, <2>1, LocalsOf DEF SyncNext, Others
  <2>3. Held'
    BY <1>0, <2>1, <2>2, HeldOf DEF Held
  <2> QED BY <2>1, <2>2, <2>3
<1>8. CASE SyncJudges
  BY <1>0, <1>1, <1>8, DropKeeps DEF SyncJudges
<1> QED BY <1>0, <1>1, <1>2, <1>3, <1>4, <1>5, <1>6, <1>7, <1>8, TidiesKeeps DEF Syncs

LEMMA FaultKeeps ==
  ASSUME TypeOK, Held, NEW p \in Procs, CallFails(p) \/ HousekeepingFails(p)
  PROVE  Others(p) /\ Held' /\ pc[p] # "idle" /\ pc'[p] # "commit"
<1>1. ASSUME Keeps(p) PROVE Others(p) /\ Held' /\ pc[p] # "idle" /\ pc'[p] # "commit"
  BY <1>1, HeldOf DEF Keeps
<1>2. CASE CallFails(p)
  BY <1>1, <1>2, DropKeeps DEF CallFails
<1>3. CASE pc[p] = "reap" /\ Reaped(p)
  <2>1. CASE p = Sync
    BY <1>1, <1>3, <2>1, GotoKeeps DEF Reaped
  <2>2. CASE p # Sync
    BY <1>1, <1>3, <2>2, DropKeeps DEF Reaped
  <2> QED BY <2>1, <2>2
<1>4. CASE pc[p] = "scale" /\ ScaledDown /\ UNCHANGED <<snap, ask>>
  <2> DEFINE rest == todo[Sync] \ {Lowest(todo[Sync])}
  <2>0. p = Sync
    BY <1>4 DEF Held, Procs
  <2>1. Loop(Sync, rest) /\ SyncNext(rest, "scale", "removeRouter")
    BY <1>4 DEF ScaledDown
  <2> HIDE DEF rest
  <2>2. pc'[p] = (IF rest = {} THEN "removeRouter" ELSE "scale") /\ Others(p)
    BY <1>4, <2>0, <2>1, LocalsOf DEF SyncNext, Others
  <2>3. Held'
    BY <1>4, <2>0, <2>2, HeldOf DEF Held
  <2> QED BY <1>4, <2>2, <2>3
<1> QED BY <1>2, <1>3, <1>4 DEF HousekeepingFails

LEMMA StepHeld == ASSUME TypeOK, Held, [Next]_vars PROVE Held'
<1>1. ASSUME NEW o \in Operators, Request(o) \/ Handles(o) PROVE Held'
  <2>0. o \in Procs /\ o # Sync
    BY ProcessAssumption DEF Procs
  <2>1. CASE Handles(o)
    BY <2>0, <2>1, HandlesKeeps, HeldOf DEF Keeps
  <2>2. CASE Request(o)
    <3>1. Others(o) /\ snap'[o] = Here /\ pc'[o] \notin {"scale", "service"}
          /\ (pc'[o] # "commit" => Exists)
      BY <2>2, RequestMoves
    <3>2. pc'[o] # "commit" => Here.row # None
      BY <3>1 DEF Exists, Here
    <3> QED BY <2>0, <3>1, <3>2, HeldOf
  <2> QED BY <1>1, <2>1, <2>2
<1>2. CASE Crash
  BY <1>2 DEF Crash, Held, Procs
<1>3. CASE UNCHANGED locals
  BY <1>3 DEF locals, Held, Served
<1>4. UNCHANGED vars \/ PodsStart \/ (\E v \in Versions : PodFails(v) \/ LoadGivesUp(v)) => UNCHANGED locals
  BY DEF vars, PodsStart, RouterStarts, PodStarts, PodFails, LoadGivesUp, locals
<1> QED BY <1>1, <1>2, <1>3, <1>4, SyncKeeps, FaultKeeps DEF Next

LEMMA TypedAndHeld == Spec => [](TypeOK /\ Held)
<1>1. TypeOK /\ Held /\ [Next]_vars => TypeOK' /\ Held'
  BY StepTyped, StepHeld
<1> QED BY <1>1, InitTyped, PTL DEF Spec

(* Every variable stays in its type, however requests, passes and faults   *)
(* interleave: no pass observes a target it has not listed, and no column  *)
(* gets a value it cannot hold.                                            *)
THEOREM TypeCorrect == Spec => []TypeOK
BY TypedAndHeld, PTL

----------------------------------------------------------------------------
(* The token *)

RowStays == row' = row \/ (row \in Row /\ row' \in Row)

LEMMA RowStaysOf ==
  ASSUME TypeOK
  PROVE  /\ \A s \in Statuses : Exists /\ row' = [row EXCEPT !.status = s] => RowStays
         /\ \A f \in Column : Exists /\ row' = [row EXCEPT !.serving = f] => RowStays
         /\ \A up \in BOOLEAN : Exists /\ row' = [row EXCEPT !.routerUp = up] => RowStays
         /\ Exists /\ row' = [row EXCEPT !.router = TRUE] => RowStays
         /\ Exists /\ row' = [row EXCEPT !.k8s = TRUE] => RowStays
         /\ Exists /\ row' = [row EXCEPT !.router = FALSE, !.routerUp = FALSE] => RowStays
<1>1. CASE Exists
  <2>1. row \in Row
    BY <1>1, TypeParts
  <2> QED BY <2>1, RowFields DEF RowStays
<1> QED BY <1>1

(* A row is only created by a commit and only removed by an undeploy *)
LEMMA TidiesRow == ASSUME TypeOK, NEW p \in Procs, Tidies(p) PROVE RowStays
BY RowStaysOf DEF Tidies, RemoveRouter, ForgetRouter, ReapLists, ReapDeletes, ReapDeletesService,
                  rows, RowStays

LEMMA HandlesRow ==
  ASSUME TypeOK, Held, NEW o \in Operators, Handles(o), ~CommitDeploy(o), ~DeleteRow(o) PROVE RowStays
<1>1. CASE \/ CommitFails(o) \/ CommitRollout(o) \/ ApplyReads(o) \/ EnsureServingToken(o)
           \/ ApplySecret(o) \/ ApplyTarget(o) \/ ApplyTargetService(o) \/ RecordTargetLaunch(o)
           \/ ApplyRouter(o) \/ ApplyService(o)
  BY <1>1 DEF CommitFails, CommitRollout, ApplyReads, EnsureServingToken, ApplySecret, ApplyTarget,
              ApplyTargetService, RecordTargetLaunch, ApplyRouter, ApplyService, rows, RowStays
<1>2. CASE RecordRouter(o) \/ RecordLaunch(o)
  BY <1>2, RowStaysOf DEF RecordRouter, RecordLaunch, RowStays
<1>3. CASE RecordServingVersion(o)
  <2> DEFINE f == ServingColumn(DesiredFront(snap[o].targets))
  <2>1. f \in Column
    BY DesiredTyped
  <2>2. row' = row \/ (Exists /\ row' = [row EXCEPT !.serving = f])
    BY <1>3 DEF RecordServingVersion
  <2> HIDE DEF f
  <2> QED BY <2>1, <2>2, RowStaysOf DEF RowStays
<1>4. CASE ApplyJudges(o)
  <2> DEFINE now == RollUpStatus(row, targets, snap[o].row.status)
  <2>1. now \in Statuses
    BY RollUpTyped
  <2>2. row' = row \/ (Exists /\ row' = [row EXCEPT !.status = now])
    BY <1>4 DEF ApplyJudges
  <2> HIDE DEF now
  <2> QED BY <2>1, <2>2, RowStaysOf DEF RowStays
<1>5. CASE \/ RetireDeletes(o) \/ RetireDeletesService(o) \/ RemoveTarget(o)
           \/ UndeployDeletes(o) \/ UndeployDeletesService(o) \/ UndeployRouter(o)
           \/ UndeployFront(o) \/ DeleteSecret(o)
  BY <1>5 DEF RetireDeletes, RetireDeletesService, RemoveTarget, UndeployDeletes, UndeployDeletesService,
              UndeployRouter, UndeployFront, DeleteSecret, rows, RowStays
<1> QED BY TidiesRow, <1>1, <1>2, <1>3, <1>4, <1>5 DEF Handles, Applies, Procs

LEMMA SyncsRow == ASSUME TypeOK, Held, Syncs PROVE RowStays
<1>1. CASE SyncLists \/ ObserveTarget \/ MoveFrontDoor \/ ScaleDown
  BY <1>1 DEF SyncLists, ObserveTarget, MoveFrontDoor, ScaleDown, rows, RowStays
<1>2. CASE ObserveRouter
  BY <1>2, RowStaysOf DEF ObserveRouter, RowStays
<1>3. CASE RecordMove
  <2> DEFINE f == ServingColumn(DesiredFront(snap[Sync].targets))
  <2>1. f \in Column
    BY DesiredTyped
  <2>2. row' = row \/ (Exists /\ row' = [row EXCEPT !.serving = f])
    BY <1>3 DEF RecordMove
  <2> HIDE DEF f
  <2> QED BY <2>1, <2>2, RowStaysOf DEF RowStays
<1>4. CASE SyncJudges
  <2> DEFINE now == RollUpStatus(snap[Sync].row, snap[Sync].targets, snap[Sync].row.status)
  <2>1. now \in Statuses
    BY RollUpTyped
  <2>2. row' = row \/ (Exists /\ row' = [row EXCEPT !.status = now])
    BY <1>4 DEF SyncJudges
  <2> HIDE DEF now
  <2> QED BY <2>1, <2>2, RowStaysOf DEF RowStays
<1> QED BY TidiesRow, <1>1, <1>2, <1>3, <1>4 DEF Syncs, Procs

LEMMA FaultRow == ASSUME TypeOK, NEW p \in Procs, CallFails(p) \/ HousekeepingFails(p) PROVE RowStays
<1>1. row' = row \/ (Exists /\ row' = [row EXCEPT !.status = "FAILED"])
  BY DEF CallFails, HousekeepingFails, rows
<1>2. "FAILED" \in Statuses
  BY DEF Statuses
<1> QED BY <1>1, <1>2, RowStaysOf DEF RowStays

LEMMA StepRow ==
  ASSUME TypeOK, Held, [Next]_vars
  PROVE  RowStays \/ \E o \in Operators : CommitDeploy(o) \/ DeleteRow(o)
<1>1. ASSUME Crash \/ PodsStart \/ UNCHANGED vars \/ \E v \in Versions : PodFails(v) \/ LoadGivesUp(v)
      PROVE RowStays
  BY <1>1 DEF Crash, PodsStart, RouterStarts, PodStarts, PodFails, LoadGivesUp, vars, rows, RowStays
<1>2. ASSUME NEW o \in Operators, Request(o) PROVE RowStays
  BY <1>2, RequestMoves DEF rows, RowStays
<1> QED BY <1>1, <1>2, HandlesRow, SyncsRow, FaultRow DEF Next

LEMMA StepToken ==
  ASSUME TypeOK, Held, OneToken, [Next]_vars PROVE OneToken'
<1>0. row' = None => row = None
  BY StepRow, RowFields, NullsTyped, NullAssumption DEF RowStays, CommitDeploy, DeleteRow
<1>1. Exists' => Exists \/ row = None
  BY StepRow, RowFields DEF RowStays, CommitDeploy, DeleteRow, Exists
<1>2. ASSUME NEW o \in Operators, EnsureServingToken(o) PROVE OneToken'
  BY <1>2 DEF EnsureServingToken, OneToken, Exists, rows, cluster
<1>3. ASSUME NEW o \in Operators, ApplySecret(o) \/ DeleteSecret(o) PROVE OneToken'
  BY <1>3 DEF ApplySecret, DeleteSecret, OneToken, Exists, rows
<1>4. ASSUME NEW o \in Operators, DeleteRow(o) PROVE OneToken'
  BY <1>4, NullAssumption DEF DeleteRow, OneToken, Exists, cluster
<1>5. ASSUME UNCHANGED <<token, minted, secret>> PROVE OneToken'
  BY <1>0, <1>1, <1>5 DEF OneToken, Exists
<1>6. ASSUME NEW p \in Procs, Tidies(p) PROVE UNCHANGED <<token, minted, secret>>
  BY <1>6 DEF Tidies, RemoveRouter, ForgetRouter, ReapLists, ReapDeletes, ReapDeletesService,
              rows, cluster
<1>7. ASSUME NEW o \in Operators, Handles(o) PROVE OneToken'
  <2>1. CASE \/ CommitFails(o) \/ CommitDeploy(o) \/ CommitRollout(o) \/ ApplyReads(o) \/ ApplyTarget(o)
             \/ ApplyTargetService(o) \/ RecordTargetLaunch(o) \/ ApplyRouter(o) \/ ApplyService(o)
    BY <1>5, <2>1 DEF CommitFails, CommitDeploy, CommitRollout, ApplyReads, ApplyTarget,
                      ApplyTargetService, RecordTargetLaunch, ApplyRouter, ApplyService, rows, cluster
  <2>2. CASE RecordRouter(o) \/ RecordLaunch(o) \/ RecordServingVersion(o) \/ ApplyJudges(o)
    BY <1>5, <2>2 DEF RecordRouter, RecordLaunch, RecordServingVersion, ApplyJudges, cluster
  <2>3. CASE \/ RetireDeletes(o) \/ RetireDeletesService(o) \/ RemoveTarget(o)
             \/ UndeployDeletes(o) \/ UndeployDeletesService(o) \/ UndeployRouter(o)
             \/ UndeployFront(o)
    BY <1>5, <2>3 DEF RetireDeletes, RetireDeletesService, RemoveTarget, UndeployDeletes,
                      UndeployDeletesService, UndeployRouter, UndeployFront, rows, cluster
  <2> QED BY <1>2, <1>3, <1>4, <1>5, <1>6, <1>7, <2>1, <2>2, <2>3 DEF Handles, Applies, Procs
<1>8. ASSUME Syncs PROVE OneToken'
  <2>1. CASE \/ SyncLists \/ ObserveTarget \/ ObserveRouter \/ MoveFrontDoor \/ RecordMove
             \/ ScaleDown \/ SyncJudges
    BY <1>5, <2>1 DEF SyncLists, ObserveTarget, ObserveRouter, MoveFrontDoor, RecordMove, ScaleDown,
                      SyncJudges, rows, cluster
  <2> QED BY <1>5, <1>6, <1>8, <2>1 DEF Syncs, Procs
<1>9. ASSUME NEW o \in Operators, Request(o) PROVE OneToken'
  BY <1>5, <1>9, RequestMoves DEF rows, cluster
<1>10. ASSUME \/ \E p \in Procs : CallFails(p) \/ HousekeepingFails(p)
              \/ Crash \/ PodsStart \/ UNCHANGED vars
              \/ \E v \in Versions : PodFails(v) \/ LoadGivesUp(v)
       PROVE OneToken'
  BY <1>5, <1>10 DEF CallFails, HousekeepingFails, Crash, PodsStart, RouterStarts, PodStarts, PodFails,
                     LoadGivesUp, vars, rows, cluster
<1> QED BY <1>7, <1>8, <1>9, <1>10 DEF Next

(* However requests, passes, failed calls and restarts interleave, no Pod  *)
(* is given a token the API refuses: a deployment has one token in its     *)
(* life, minted while its row exists, and the Secret holds that or none.   *)
THEOREM SecretAlwaysLive == Spec => []SecretIsLive
<1>1. Init => OneToken
  BY DEF Init, OneToken, Exists
<1>2. TypeOK /\ Held /\ OneToken /\ [Next]_vars => OneToken'
  BY StepToken
<1>3. OneToken => SecretIsLive
  BY DEF OneToken, SecretIsLive
<1> QED BY <1>1, <1>2, <1>3, TypedAndHeld, PTL DEF Spec

----------------------------------------------------------------------------
(* Sums of weights. Total is defined by recursion on the versions; that    *)
(* there is such a function, and that the order in which it takes them     *)
(* makes no difference, is shown by looking at a smallest set for which    *)
(* it would not be so.                                                     *)

Step(split, g, S) == IF S = {} THEN 0
                     ELSE LET v == CHOOSE v \in S : TRUE IN split[v] + g[S \ {v}]

Partial(split, n) == {S \in SUBSET DOMAIN split : Cardinality(S) <= n}

IsSum(split, f) == f = [S \in SUBSET DOMAIN split |-> Step(split, f, S)]

LEMMA Smaller ==
  ASSUME NEW D, IsFiniteSet(D), NEW S \in SUBSET D, NEW v \in S
  PROVE  /\ IsFiniteSet(S) /\ Cardinality(S) \in Nat /\ Cardinality(S) > 0
         /\ Cardinality(S \ {v}) = Cardinality(S) - 1 /\ Cardinality(S) <= Cardinality(D)
<1>1. IsFiniteSet(S) /\ Cardinality(S) <= Cardinality(D)
  BY FS_Subset
<1>2. Cardinality(S \ {v}) = Cardinality(S) - 1 /\ Cardinality(S) \in Nat
  BY <1>1, FS_RemoveElement, FS_CardinalityType
<1>3. Cardinality(S \ {v}) \in Nat
  BY <1>1, FS_RemoveElement, FS_CardinalityType
<1> QED BY <1>1, <1>2, <1>3

LEMMA PartialSum ==
  ASSUME NEW split, IsFiniteSet(DOMAIN split), NEW n \in Nat
  PROVE  \E g : g = [S \in Partial(split, n) |-> Step(split, g, S)]
<1> DEFINE Sum(g, m) == g = [S \in Partial(split, m) |-> Step(split, g, S)]
           Bad == {m \in Nat : ~\E g : Sum(g, m)}
<1> SUFFICES ASSUME Bad # {} PROVE FALSE
  OBVIOUS
<1>1. PICK m \in Bad : \A k \in Bad : m <= k
  BY LeastNat
<1>2. CASE m = 0
  <2> DEFINE g == [S \in Partial(split, 0) |-> 0]
  <2>1. \A S \in Partial(split, 0) : S = {}
    BY FS_Subset, FS_EmptySet, FS_CardinalityType DEF Partial
  <2>2. Sum(g, 0)
    BY <2>1 DEF Step
  <2> QED BY <1>2, <2>2
<1>3. CASE m # 0
  <2>1. m - 1 \in Nat /\ m - 1 \notin Bad
    BY <1>1, <1>3
  <2>2. PICK g : Sum(g, m - 1)
    BY <2>1
  <2> DEFINE h == [S \in Partial(split, m) |-> Step(split, g, S)]
  <2>3. \A S \in Partial(split, m - 1) : S \in Partial(split, m) /\ h[S] = g[S]
    <3>1. \A S \in Partial(split, m - 1) : S \in Partial(split, m)
      BY <1>1, FS_Subset, FS_CardinalityType DEF Partial
    <3>2. \A S \in Partial(split, m - 1) : g[S] = Step(split, g, S)
      BY <2>2
    <3> QED BY <3>1, <3>2
  <2>4. \A S \in Partial(split, m) : Step(split, h, S) = Step(split, g, S)
    <3> SUFFICES ASSUME NEW S \in Partial(split, m), S # {} PROVE Step(split, h, S) = Step(split, g, S)
      BY DEF Step
    <3> DEFINE v == CHOOSE v \in S : TRUE
    <3>1. v \in S
      OBVIOUS
    <3> HIDE DEF v
    <3>2. S \ {v} \in Partial(split, m - 1)
      BY <3>1, <1>1, Smaller DEF Partial
    <3>3. h[S \ {v}] = g[S \ {v}]
      BY <2>3, <3>2
    <3> HIDE DEF h
    <3> QED BY <3>3 DEF Step, v
  <2>5. Sum(h, m)
    BY <2>4
  <2> QED BY <1>1, <2>5
<1> QED BY <1>2, <1>3

LEMMA SumExists ==
  ASSUME NEW split, IsFiniteSet(DOMAIN split)
  PROVE  \E f : IsSum(split, f)
<1>1. Cardinality(DOMAIN split) \in Nat
  BY FS_CardinalityType
<1>2. Partial(split, Cardinality(DOMAIN split)) = SUBSET DOMAIN split
  BY FS_Subset DEF Partial
<1>3. PICK g : g = [S \in Partial(split, Cardinality(DOMAIN split)) |-> Step(split, g, S)]
  BY <1>1, PartialSum
<1>4. IsSum(split, g)
  BY <1>2, <1>3 DEF IsSum
<1> QED BY <1>4

SumOf(split) == CHOOSE f : IsSum(split, f)

LEMMA TotalIs ==
  ASSUME NEW split PROVE Total(split) = SumOf(split)[DOMAIN split]
BY DEF Total, SumOf, IsSum, Step

LEMMA SumIs ==
  ASSUME NEW split, IsFiniteSet(DOMAIN split), NEW S \in SUBSET DOMAIN split
  PROVE  SumOf(split)[S] = Step(split, SumOf(split), S)
<1>1. IsSum(split, SumOf(split))
  BY SumExists DEF SumOf
<1> HIDE DEF SumOf
<1> QED BY <1>1 DEF IsSum

(* Weights are naturals over finitely many versions *)
Weights(split) == /\ IsFiniteSet(DOMAIN split) /\ split = [v \in DOMAIN split |-> split[v]]
                  /\ \A v \in DOMAIN split : split[v] \in Nat

LEMMA SumNat ==
  ASSUME NEW split, Weights(split), NEW S \in SUBSET DOMAIN split
  PROVE  SumOf(split)[S] \in Nat
<1> DEFINE f == SumOf(split)
           Bad == {n \in Nat : \E U \in SUBSET DOMAIN split : Cardinality(U) = n /\ f[U] \notin Nat}
<1>0. \A U \in SUBSET DOMAIN split : f[U] = Step(split, f, U)
  BY SumIs DEF Weights
<1> HIDE DEF f
<1>1. Cardinality(S) \in Nat
  BY FS_Subset, FS_CardinalityType DEF Weights
<1> SUFFICES ASSUME Bad # {} PROVE FALSE
  BY <1>1 DEF f
<1>2. PICK m \in Bad : \A k \in Bad : m <= k
  BY LeastNat
<1>3. PICK U \in SUBSET DOMAIN split : Cardinality(U) = m /\ f[U] \notin Nat
  BY <1>2
<1> DEFINE v == CHOOSE v \in U : TRUE
<1>4. U # {}
  BY <1>0, <1>3 DEF Step
<1>5. v \in U
  BY <1>4
<1> HIDE DEF v
<1>6. f[U \ {v}] \in Nat
  <2>1. Cardinality(U \ {v}) = m - 1 /\ m - 1 \in Nat /\ m - 1 \notin Bad
    BY <1>2, <1>3, <1>5, Smaller DEF Weights
  <2> QED BY <2>1
<1>7. f[U] = split[v] + f[U \ {v}]
  BY <1>0, <1>4 DEF Step, v
<1> QED BY <1>3, <1>5, <1>6, <1>7 DEF Weights

(* The order makes no difference *)
LEMMA SumTakes ==
  ASSUME NEW split, Weights(split), NEW S \in SUBSET DOMAIN split, NEW v \in S
  PROVE  SumOf(split)[S] = split[v] + SumOf(split)[S \ {v}]
<1> DEFINE f == SumOf(split)
           Bad == {n \in Nat : \E U \in SUBSET DOMAIN split : \E w \in U :
                     Cardinality(U) = n /\ f[U] # split[w] + f[U \ {w}]}
<1>0. \A U \in SUBSET DOMAIN split : f[U] = Step(split, f, U) /\ f[U] \in Nat
  BY SumIs, SumNat DEF Weights
<1> HIDE DEF f
<1>1. Cardinality(S) \in Nat
  BY FS_Subset, FS_CardinalityType DEF Weights
<1> SUFFICES ASSUME Bad # {} PROVE FALSE
  BY <1>1 DEF f
<1>2. PICK m \in Bad : \A k \in Bad : m <= k
  BY LeastNat
<1>2a. PICK U \in SUBSET DOMAIN split : \E w \in U : Cardinality(U) = m /\ f[U] # split[w] + f[U \ {w}]
  BY <1>2
<1>3. PICK w \in U : Cardinality(U) = m /\ f[U] # split[w] + f[U \ {w}]
  BY <1>2a
<1> DEFINE u == CHOOSE u \in U : TRUE
<1>4. u \in U
  BY <1>3
<1> HIDE DEF u
<1>5. f[U] = split[u] + f[U \ {u}]
  BY <1>0, <1>3 DEF Step, u
<1>6. u # w
  BY <1>3, <1>5
<1>7. m - 1 \in Nat /\ m - 1 \notin Bad /\ Cardinality(U \ {u}) = m - 1 /\ Cardinality(U \ {w}) = m - 1
  <2>1. Cardinality(U \ {u}) = m - 1 /\ m > 0
    BY <1>3, <1>4, Smaller DEF Weights
  <2>2. Cardinality(U \ {w}) = m - 1
    BY <1>3, Smaller DEF Weights
  <2>3. m \in Nat /\ ~(m <= m - 1)
    BY <1>2
  <2> HIDE DEF Bad
  <2> QED BY <1>2, <2>1, <2>2, <2>3
<1>8. f[U \ {u}] = split[w] + f[(U \ {u}) \ {w}]
  BY <1>3, <1>6, <1>7
<1>9. f[U \ {w}] = split[u] + f[(U \ {w}) \ {u}]
  BY <1>3, <1>4, <1>6, <1>7
<1>10. (U \ {u}) \ {w} = (U \ {w}) \ {u}
  OBVIOUS
<1>11. split[u] \in Nat /\ split[w] \in Nat /\ f[(U \ {u}) \ {w}] \in Nat
  BY <1>0, <1>3, <1>4 DEF Weights
<1>12. f[U] = split[w] + f[U \ {w}]
  <2> DEFINE z == f[(U \ {u}) \ {w}]
  <2>1. f[U \ {u}] = split[w] + z /\ f[U \ {w}] = split[u] + z
    BY <1>8, <1>9, <1>10
  <2> HIDE DEF z
  <2>2. \A x, y, n \in Nat : x + (y + n) = y + (x + n)
    OBVIOUS
  <2> QED BY <1>5, <1>11, <2>1, <2>2 DEF z
<1> QED BY <1>3, <1>12

(* A sum depends on the weights in the set alone *)
LEMMA SumAgrees ==
  ASSUME NEW one, Weights(one), NEW two, Weights(two),
         NEW S, S \subseteq DOMAIN one, S \subseteq DOMAIN two, \A v \in S : one[v] = two[v]
  PROVE  SumOf(one)[S] = SumOf(two)[S]
<1> DEFINE f == SumOf(one)
           g == SumOf(two)
           Bad == {n \in Nat : \E U \in SUBSET S : Cardinality(U) = n /\ f[U] # g[U]}
<1>0. \A U \in SUBSET S : f[U] = Step(one, f, U) /\ g[U] = Step(two, g, U)
  BY SumIs DEF Weights
<1> HIDE DEF f, g
<1>1. IsFiniteSet(S) /\ Cardinality(S) \in Nat
  BY FS_Subset, FS_CardinalityType DEF Weights
<1> SUFFICES ASSUME Bad # {} PROVE FALSE
  BY <1>1 DEF f, g
<1>2. PICK m \in Bad : \A k \in Bad : m <= k
  BY LeastNat
<1>3. PICK U \in SUBSET S : Cardinality(U) = m /\ f[U] # g[U]
  BY <1>2
<1>4. U # {}
  BY <1>0, <1>3 DEF Step
<1> DEFINE v == CHOOSE v \in U : TRUE
<1>5. v \in U
  BY <1>4
<1> HIDE DEF v
<1>6. f[U \ {v}] = g[U \ {v}]
  <2>1. Cardinality(U \ {v}) = m - 1 /\ m - 1 \in Nat /\ m - 1 \notin Bad
    BY <1>1, <1>2, <1>3, <1>5, Smaller
  <2> QED BY <2>1
<1>7. f[U] = one[v] + f[U \ {v}] /\ g[U] = two[v] + g[U \ {v}]
  BY <1>0, <1>4 DEF Step, v
<1> QED BY <1>3, <1>5, <1>6, <1>7

(* The total is any one weight and the total of the rest *)
LEMMA TotalTakes ==
  ASSUME NEW split, Weights(split), NEW v \in DOMAIN split
  PROVE  /\ Total(split) = split[v] + Total([w \in DOMAIN split \ {v} |-> split[w]])
         /\ Weights([w \in DOMAIN split \ {v} |-> split[w]])
<1> DEFINE rest == [w \in DOMAIN split \ {v} |-> split[w]]
<1>1. Weights(rest) /\ DOMAIN rest = DOMAIN split \ {v}
  BY FS_RemoveElement DEF Weights
<1>2. SumOf(split)[DOMAIN split \ {v}] = SumOf(rest)[DOMAIN split \ {v}]
  <2>1. \A w \in DOMAIN split \ {v} : split[w] = rest[w]
    OBVIOUS
  <2> HIDE DEF rest
  <2> QED BY <1>1, <2>1, SumAgrees
<1>3. Total(rest) = SumOf(rest)[DOMAIN split \ {v}]
  BY <1>1, TotalIs
<1>4. Total(split) = split[v] + SumOf(split)[DOMAIN split \ {v}]
  <2>1. DOMAIN split \in SUBSET DOMAIN split
    OBVIOUS
  <2> QED BY <2>1, TotalIs, SumTakes
<1> QED BY <1>1, <1>2, <1>3, <1>4

(* No weight, no total *)
LEMMA TotalZero ==
  ASSUME NEW split, Weights(split), \A v \in DOMAIN split : split[v] = 0
  PROVE  Total(split) = 0
<1> DEFINE f == SumOf(split)
           Bad == {n \in Nat : \E U \in SUBSET DOMAIN split : Cardinality(U) = n /\ f[U] # 0}
<1>0. \A U \in SUBSET DOMAIN split : f[U] = Step(split, f, U)
  BY SumIs DEF Weights
<1> HIDE DEF f
<1>1. Cardinality(DOMAIN split) \in Nat
  BY FS_CardinalityType DEF Weights
<1> SUFFICES ASSUME Bad # {} PROVE FALSE
  BY <1>1, TotalIs DEF f
<1>2. PICK m \in Bad : \A k \in Bad : m <= k
  BY LeastNat
<1>3. PICK U \in SUBSET DOMAIN split : Cardinality(U) = m /\ f[U] # 0
  BY <1>2
<1>4. U # {}
  BY <1>0, <1>3 DEF Step
<1> DEFINE v == CHOOSE v \in U : TRUE
<1>5. v \in U
  BY <1>4
<1> HIDE DEF v
<1>6. f[U \ {v}] = 0
  <2>1. Cardinality(U \ {v}) = m - 1 /\ m - 1 \in Nat /\ m - 1 \notin Bad
    BY <1>2, <1>3, <1>5, Smaller DEF Weights
  <2> QED BY <2>1
<1>7. f[U] = split[v] + f[U \ {v}]
  BY <1>0, <1>4 DEF Step, v
<1> QED BY <1>3, <1>5, <1>6, <1>7

----------------------------------------------------------------------------
(* What a rollout leaves to the others, shared out by largest remainder *)

(* What holds of a set when it holds of it less any one element, holds of  *)
(* every part of a finite set                                              *)
LEMMA EverySubset ==
  ASSUME NEW D, IsFiniteSet(D), NEW Good,
         \A S \in SUBSET D : (\A v \in S : S \ {v} \in Good) => S \in Good
  PROVE  SUBSET D \subseteq Good
<1> SUFFICES ASSUME NEW S \in SUBSET D, S \notin Good PROVE FALSE
  OBVIOUS
<1> DEFINE Bad == {n \in Nat : \E U \in SUBSET D : Cardinality(U) = n /\ U \notin Good}
<1>1. Cardinality(S) \in Bad
  BY FS_Subset, FS_CardinalityType
<1>2. PICK m \in Bad : \A k \in Bad : m <= k
  BY <1>1, LeastNat
<1>3. PICK U \in SUBSET D : Cardinality(U) = m /\ U \notin Good
  BY <1>2
<1>4. ASSUME NEW v \in U PROVE U \ {v} \in Good
  <2>1. Cardinality(U \ {v}) = m - 1 /\ m - 1 \in Nat
    BY <1>3, Smaller
  <2>2. m - 1 \notin Bad
    <3>1. ~(m <= m - 1)
      BY <1>2
    <3> HIDE DEF Bad
    <3> QED BY <1>2, <3>1
  <2> QED BY <2>1, <2>2
<1> QED BY <1>3, <1>4

(* Sums of sums, and of multiples *)
LEMMA SumCombines ==
  ASSUME NEW whole, Weights(whole), NEW part, Weights(part), NEW rest, Weights(rest),
         NEW k \in Nat, DOMAIN part = DOMAIN whole, DOMAIN rest = DOMAIN whole,
         \A v \in DOMAIN whole : whole[v] = k * part[v] + rest[v]
  PROVE  SumOf(whole)[DOMAIN whole] = k * SumOf(part)[DOMAIN whole] + SumOf(rest)[DOMAIN whole]
<1> DEFINE D == DOMAIN whole
           w == SumOf(whole)
           p == SumOf(part)
           r == SumOf(rest)
           Good == {S \in SUBSET D : w[S] = k * p[S] + r[S]}
<1>1. \A S \in SUBSET D : w[S] \in Nat /\ p[S] \in Nat /\ r[S] \in Nat
  BY SumNat
<1>2. \A S \in SUBSET D : S = {} => w[S] = 0 /\ p[S] = 0 /\ r[S] = 0
  BY SumIs DEF Step, Weights
<1>3. \A S \in SUBSET D : \A v \in S :
        /\ w[S] = whole[v] + w[S \ {v}]
        /\ p[S] = part[v] + p[S \ {v}]
        /\ r[S] = rest[v] + r[S \ {v}]
  <2>1. \A S \in SUBSET DOMAIN whole : \A v \in S : w[S] = whole[v] + w[S \ {v}]
    BY SumTakes
  <2>2. \A S \in SUBSET DOMAIN part : \A v \in S : p[S] = part[v] + p[S \ {v}]
    BY SumTakes
  <2>3. \A S \in SUBSET DOMAIN rest : \A v \in S : r[S] = rest[v] + r[S \ {v}]
    BY SumTakes
  <2> HIDE DEF w, p, r
  <2> QED BY <2>1, <2>2, <2>3
<1> HIDE DEF w, p, r
<1>4. ASSUME NEW S \in SUBSET D, \A v \in S : S \ {v} \in Good PROVE S \in Good
  <2>1. CASE S = {}
    BY <1>2, <2>1
  <2>2. CASE S # {}
    <3>1. PICK v \in S : S \ {v} \in Good
      BY <1>4, <2>2
    <3>2. /\ w[S] = whole[v] + w[S \ {v}] /\ p[S] = part[v] + p[S \ {v}]
          /\ r[S] = rest[v] + r[S \ {v}]
      BY <1>3
    <3>3. w[S \ {v}] = k * p[S \ {v}] + r[S \ {v}] /\ whole[v] = k * part[v] + rest[v]
      BY <3>1
    <3> DEFINE a == part[v]
               b == rest[v]
               x == p[S \ {v}]
               y == r[S \ {v}]
    <3>4. a \in Nat /\ b \in Nat /\ x \in Nat /\ y \in Nat
      BY <1>1 DEF Weights
    <3>5. w[S] = (k * a + b) + (k * x + y) /\ p[S] = a + x /\ r[S] = b + y
      BY <3>2, <3>3
    <3> HIDE DEF a, b, x, y
    <3>6. (k * a + b) + (k * x + y) = k * (a + x) + (b + y)
      BY <3>4
    <3>7. w[S] = k * p[S] + r[S]
      BY <3>5, <3>6
    <3> QED BY <3>7
  <2> QED BY <2>1, <2>2
<1>5. IsFiniteSet(D)
  BY DEF Weights
<1>6. SUBSET D \subseteq Good
  <2> HIDE DEF Good, D
  <2> QED BY <1>4, <1>5, EverySubset
<1>7. D \in Good
  BY <1>6
<1> QED BY <1>7 DEF w, p, r

(* A sum of equals, and one of ones *)
LEMMA SumCounts ==
  ASSUME NEW split, Weights(split), NEW c \in Nat, NEW B \in SUBSET DOMAIN split,
         \A v \in DOMAIN split : split[v] = IF v \in B THEN c ELSE 0
  PROVE  SumOf(split)[DOMAIN split] = c * Cardinality(B)
<1> DEFINE D == DOMAIN split
           s == SumOf(split)
           Good == {S \in SUBSET D : s[S] = c * Cardinality(S \cap B)}
<1>0. IsFiniteSet(D)
  BY DEF Weights
<1>1. \A S \in SUBSET D : S = {} => s[S] = 0
  BY SumIs DEF Step, Weights
<1>2. \A S \in SUBSET D : \A v \in S : s[S] = split[v] + s[S \ {v}]
  BY SumTakes
<1> HIDE DEF s
<1>3. ASSUME NEW S \in SUBSET D, \A v \in S : S \ {v} \in Good PROVE S \in Good
  <2>1. CASE S = {}
    <3>1. S \cap B = {} /\ Cardinality({}) = 0
      BY <2>1, FS_EmptySet
    <3>2. s[S] = 0
      BY <1>1, <2>1
    <3>3. Cardinality(S \cap B) = 0 /\ c * 0 = 0
      BY <3>1
    <3> QED BY <3>2, <3>3
  <2>2. CASE S # {}
    <3>1. PICK v \in S : S \ {v} \in Good
      BY <1>3, <2>2
    <3>2. s[S] = split[v] + c * Cardinality((S \ {v}) \cap B)
      BY <1>2, <3>1
    <3>3. CASE v \in B
      <4>1. (S \ {v}) \cap B = (S \cap B) \ {v} /\ v \in S \cap B
        BY <3>3
      <4>2. IsFiniteSet(S \cap B)
        BY <1>0, FS_Subset
      <4> DEFINE n == Cardinality(S \cap B)
      <4>3. Cardinality((S \cap B) \ {v}) = n - 1 /\ n \in Nat
        BY <4>1, <4>2, Smaller
      <4>4. s[S] = c + c * (n - 1)
        BY <3>2, <3>3, <4>1, <4>3
      <4>5. s[S] = c * n
        <5> HIDE DEF n
        <5> QED BY <4>3, <4>4
      <4> QED BY <4>5
    <3>4. CASE v \notin B
      <4>1. (S \ {v}) \cap B = S \cap B
        BY <3>4
      <4>2. Cardinality(S \cap B) \in Nat
        BY <1>0, FS_Subset, FS_CardinalityType
      <4>3. c * Cardinality(S \cap B) \in Nat
        <5> DEFINE n == Cardinality(S \cap B)
        <5> HIDE DEF n
        <5> QED BY <4>2 DEF n
      <4>4. s[S] = 0 + c * Cardinality(S \cap B)
        BY <3>2, <3>4, <4>1
      <4>5. s[S] = c * Cardinality(S \cap B)
        BY <4>3, <4>4
      <4> QED BY <4>5
    <3> QED BY <3>3, <3>4
  <2> QED BY <2>1, <2>2
<1>4. SUBSET D \subseteq Good
  <2> HIDE DEF Good, D
  <2> QED BY <1>0, <1>3, EverySubset
<1>5. D \in Good /\ D \cap B = B
  BY <1>4
<1> QED BY <1>5 DEF s

(* Weights below a bound add up to less than the bound for each *)
LEMMA SumBounded ==
  ASSUME NEW split, Weights(split), DOMAIN split # {}, NEW bound \in Nat,
         \A v \in DOMAIN split : split[v] < bound
  PROVE  SumOf(split)[DOMAIN split] < bound * Cardinality(DOMAIN split)
<1> DEFINE D == DOMAIN split
           s == SumOf(split)
           Good == {S \in SUBSET D : s[S] + Cardinality(S) <= bound * Cardinality(S)}
<1>0. IsFiniteSet(D)
  BY DEF Weights
<1>1. \A S \in SUBSET D : s[S] \in Nat /\ (S = {} => s[S] = 0)
  BY SumIs, SumNat DEF Step, Weights
<1>2. \A S \in SUBSET D : \A v \in S : s[S] = split[v] + s[S \ {v}]
  BY SumTakes
<1> HIDE DEF s
<1>3. ASSUME NEW S \in SUBSET D, \A v \in S : S \ {v} \in Good PROVE S \in Good
  <2>1. CASE S = {}
    <3>1. Cardinality(S) = 0 /\ s[S] = 0
      BY <1>1, <2>1, FS_EmptySet
    <3> QED BY <3>1
  <2>2. CASE S # {}
    <3>1. PICK v \in S : S \ {v} \in Good
      BY <1>3, <2>2
    <3> DEFINE n == Cardinality(S)
               a == split[v]
               t == s[S \ {v}]
    <3>2. Cardinality(S \ {v}) = n - 1 /\ n \in Nat /\ n > 0
      BY <1>0, FS_Subset, Smaller
    <3>3. a \in Nat /\ a + 1 <= bound /\ t \in Nat
      BY <1>1 DEF Weights
    <3>4. s[S] = a + t /\ t + (n - 1) <= bound * (n - 1)
      BY <1>2, <3>1, <3>2
    <3>5. s[S] + n <= bound * n
      <4> HIDE DEF n, a, t
      <4> QED BY <3>2, <3>3, <3>4
    <3> QED BY <3>5
  <2> QED BY <2>1, <2>2
<1>4. SUBSET D \subseteq Good
  <2> HIDE DEF Good, D
  <2> QED BY <1>0, <1>3, EverySubset
<1>5. s[D] + Cardinality(D) <= bound * Cardinality(D)
  BY <1>4
<1>6. Cardinality(D) \in Nat /\ Cardinality(D) > 0
  BY <1>0, Smaller
<1>7. s[D] \in Nat
  BY <1>1
<1>8. s[D] < bound * Cardinality(D)
  <2> DEFINE n == Cardinality(D)
             x == bound * n
             y == s[D]
  <2>1. y + n <= x /\ n \in Nat /\ n > 0 /\ y \in Nat
    BY <1>5, <1>6, <1>7
  <2>2. x \in Nat
    <3> HIDE DEF n
    <3> QED BY <2>1
  <2>3. y < x
    <3> HIDE DEF n, x, y
    <3> QED BY <2>1, <2>2
  <2> QED BY <2>3
<1> QED BY <1>8 DEF s

(* The order in which the remainder is given away is strict and total *)
LEMMA BeforeOrders ==
  ASSUME NEW others, NEW remaining, DOMAIN others \subseteq Nat,
         \A u \in DOMAIN others : Portion(others, u, remaining) % Parts(others) \in Nat
  PROVE  /\ \A v \in DOMAIN others : ~Before(others, remaining, v, v)
         /\ \A v, w \in DOMAIN others :
              v # w => (Before(others, remaining, v, w) <=> ~Before(others, remaining, w, v))
         /\ \A u, v, w \in DOMAIN others :
              Before(others, remaining, u, v) /\ Before(others, remaining, v, w)
              => Before(others, remaining, u, w)
<1> DEFINE f(u) == Portion(others, u, remaining) % Parts(others)
<1>1. \A v, w : Before(others, remaining, v, w) <=> f(v) > f(w) \/ (f(v) = f(w) /\ v < w)
  BY DEF Before
<1>2. \A u \in DOMAIN others : f(u) \in Nat /\ u \in Nat
  OBVIOUS
<1> HIDE DEF f
<1> QED BY <1>1, <1>2

(* Someone is first *)
LEMMA SomeoneFirst ==
  ASSUME NEW others, NEW remaining, NEW bound \in Nat, DOMAIN others \subseteq Nat,
         \A u \in DOMAIN others : /\ Portion(others, u, remaining) % Parts(others) \in Nat
                                  /\ Portion(others, u, remaining) % Parts(others) < bound,
         NEW S \in SUBSET DOMAIN others, S # {}
  PROVE  \E v \in S : \A w \in S \ {v} : Before(others, remaining, v, w)
<1> DEFINE f(u) == Portion(others, u, remaining) % Parts(others)
           Gaps == {bound - f(u) : u \in S}
<1>1. \A v, w : Before(others, remaining, v, w) <=> f(v) > f(w) \/ (f(v) = f(w) /\ v < w)
  BY DEF Before
<1>2. \A u \in S : f(u) \in Nat /\ f(u) < bound /\ u \in Nat
  OBVIOUS
<1> HIDE DEF f
<1>3. PICK x \in S : \A u \in S : f(u) <= f(x)
  <2>1. Gaps \subseteq Nat /\ Gaps # {}
    BY <1>2
  <2>2. PICK k \in Gaps : \A l \in Gaps : k <= l
    BY <2>1, LeastNat
  <2>3. PICK x \in S : k = bound - f(x)
    BY <2>2
  <2>4. ASSUME NEW u \in S PROVE f(u) <= f(x)
    <3>1. bound - f(x) <= bound - f(u)
      BY <2>2, <2>3
    <3> HIDE DEF Gaps
    <3> QED BY <1>2, <2>3, <3>1
  <2> QED BY <2>4
<1> DEFINE T == {u \in S : f(u) = f(x)}
<1>4. PICK v \in T : \A u \in T : v <= u
  <2>1. T \subseteq Nat /\ T # {}
    BY <1>2
  <2> HIDE DEF T
  <2> QED BY <2>1, LeastNat
<1>5. ASSUME NEW w \in S \ {v} PROVE Before(others, remaining, v, w)
  <2>1. v \in S /\ v \in Nat /\ w \in Nat /\ f(v) \in Nat /\ f(w) \in Nat /\ f(w) <= f(v)
    BY <1>2, <1>3, <1>4
  <2>2. f(w) = f(v) => v <= w
    BY <1>4
  <2> HIDE DEF T
  <2> QED BY <1>1, <2>1, <2>2
<1> QED BY <1>4, <1>5

(* As many as are to be served have fewer than that many ahead of them *)
LEMMA ServedFirst ==
  ASSUME NEW others, NEW remaining, NEW bound \in Nat, DOMAIN others \subseteq Nat,
         IsFiniteSet(DOMAIN others),
         \A u \in DOMAIN others : /\ Portion(others, u, remaining) % Parts(others) \in Nat
                                  /\ Portion(others, u, remaining) % Parts(others) < bound,
         NEW k \in Nat, k <= Cardinality(DOMAIN others)
  PROVE  Cardinality({v \in DOMAIN others :
           Cardinality({w \in DOMAIN others : Before(others, remaining, w, v)}) < k}) = k
<1> DEFINE D == DOMAIN others
           B(w, v) == Before(others, remaining, w, v)
           Ahead(S, v) == {w \in S : B(w, v)}
           First(S, n) == {v \in S : Cardinality(Ahead(S, v)) < n}
           Good == {S \in SUBSET D : \A n \in Nat : n <= Cardinality(S) => Cardinality(First(S, n)) = n}
<1>1. /\ \A v \in D : ~B(v, v)
      /\ \A v, w \in D : v # w => (B(v, w) <=> ~B(w, v))
  BY BeforeOrders
<1>2. \A S \in SUBSET D : S # {} => \E v \in S : \A w \in S \ {v} : B(v, w)
  BY SomeoneFirst
<1>3. \A S \in SUBSET D : IsFiniteSet(S) /\ Cardinality(S) \in Nat
  BY FS_Subset, FS_CardinalityType
<1> HIDE DEF B
<1>4. ASSUME NEW S \in SUBSET D, NEW v \in S, \A w \in S \ {v} : B(v, w), S \ {v} \in Good,
             NEW n \in Nat, n <= Cardinality(S)
      PROVE  Cardinality(First(S, n)) = n
  <2> DEFINE R == S \ {v}
  <2>1. Cardinality(R) = Cardinality(S) - 1 /\ Cardinality(S) \in Nat
    BY <1>3, Smaller
  <2>2. Ahead(S, v) = {}
    BY <1>1, <1>4
  <2>3. ASSUME NEW w \in R
        PROVE  /\ Cardinality(Ahead(S, w)) = Cardinality(Ahead(R, w)) + 1
               /\ Cardinality(Ahead(R, w)) \in Nat
    <3>1. v \in Ahead(S, w) /\ Ahead(R, w) = Ahead(S, w) \ {v}
      BY <1>4
    <3>2. Ahead(S, w) \in SUBSET D /\ Ahead(R, w) \in SUBSET D
      OBVIOUS
    <3> HIDE DEF Ahead, R
    <3>3. IsFiniteSet(Ahead(S, w)) /\ Cardinality(Ahead(R, w)) \in Nat
      BY <1>3, <3>2
    <3>4. Cardinality(Ahead(S, w) \ {v}) = Cardinality(Ahead(S, w)) - 1 /\ Cardinality(Ahead(S, w)) \in Nat
      BY <3>1, <3>3, FS_RemoveElement, FS_CardinalityType
    <3> QED BY <3>1, <3>3, <3>4
  <2>4. CASE n = 0
    <3>1. \A w \in S : Cardinality(Ahead(S, w)) \in Nat
      BY <1>3
    <3>2. First(S, n) = {}
      BY <2>4, <3>1
    <3> HIDE DEF First
    <3> QED BY <2>4, <3>2, FS_EmptySet
  <2>5. CASE n # 0
    <3>1. First(S, n) = First(R, n - 1) \cup {v}
      <4>1. Cardinality(Ahead(S, v)) = 0
        BY <2>2, FS_EmptySet
      <4>2. \A w \in R : Cardinality(Ahead(S, w)) < n <=> Cardinality(Ahead(R, w)) < n - 1
        BY <2>3
      <4> HIDE DEF Ahead
      <4> QED BY <2>5, <4>1, <4>2
    <3>2. n - 1 \in Nat /\ n - 1 <= Cardinality(R)
      BY <2>1, <2>5, <1>4
    <3>3. Cardinality(First(R, n - 1)) = n - 1
      <4> HIDE DEF First
      <4> QED BY <1>4, <3>2
    <3>4. First(R, n - 1) \in SUBSET D /\ v \notin First(R, n - 1)
      OBVIOUS
    <3>5. Cardinality(First(R, n - 1) \cup {v}) = Cardinality(First(R, n - 1)) + 1
      <4> HIDE DEF First
      <4> QED BY <1>3, <3>4, FS_AddElement
    <3> HIDE DEF First
    <3> QED BY <3>1, <3>3, <3>5
  <2> QED BY <2>4, <2>5
<1>5. ASSUME NEW S \in SUBSET D, \A v \in S : S \ {v} \in Good PROVE S \in Good
  <2>1. CASE S = {}
    <3>1. \A n \in Nat : First(S, n) = {}
      BY <2>1
    <3> HIDE DEF First
    <3>2. \A n \in Nat : n <= Cardinality(S) => Cardinality(First(S, n)) = n
      BY <2>1, <3>1, FS_EmptySet
    <3> QED BY <3>2
  <2>2. CASE S # {}
    <3>1. PICK v \in S : \A w \in S \ {v} : B(v, w)
      BY <1>2, <2>2
    <3>2. S \ {v} \in Good
      BY <1>5
    <3>3. \A n \in Nat : n <= Cardinality(S) => Cardinality(First(S, n)) = n
      <4> HIDE DEF Good, First
      <4> QED BY <1>4, <3>1, <3>2
    <3> QED BY <3>3
  <2> QED BY <2>1, <2>2
<1>6. SUBSET D \subseteq Good
  <2>1. IsFiniteSet(D)
    OBVIOUS
  <2> HIDE DEF Good, D
  <2> QED BY <1>5, <2>1, EverySubset
<1>7. Cardinality(First(D, k)) = k
  <2>1. D \in Good
    BY <1>6
  <2> HIDE DEF First
  <2> QED BY <2>1
<1> QED BY <1>7 DEF B

Floors(others, remaining) ==
  [v \in DOMAIN others |-> Portion(others, v, remaining) \div Parts(others)]
Fractions(others, remaining) ==
  [v \in DOMAIN others |-> Portion(others, v, remaining) % Parts(others)]

(* What there is to share is what rounding down gives and the fractions    *)
LEMMA SharesDivide ==
  ASSUME NEW others, Weights(others), DOMAIN others # {}, NEW remaining \in Nat
  PROVE  LET D     == DOMAIN others
             P     == Parts(others)
             floor == Floors(others, remaining)
             frac  == Fractions(others, remaining)
         IN /\ P \in Nat /\ P > 0
            /\ Weights(floor) /\ DOMAIN floor = D /\ Weights(frac) /\ DOMAIN frac = D
            /\ \A v \in D : frac[v] < P
            /\ remaining * P = P * SumOf(floor)[D] + SumOf(frac)[D]
<1> DEFINE D == DOMAIN others
           P == Parts(others)
           share == [v \in D |-> Portion(others, v, remaining)]
           floor == Floors(others, remaining)
           frac  == Fractions(others, remaining)
           n == Cardinality(D)
<1>0. IsFiniteSet(D) /\ n \in Nat /\ n > 0
  BY Smaller DEF Weights
<1>1. Total(others) \in Nat /\ Total(others) = SumOf(others)[D]
  BY TotalIs, SumNat
<1>2. P \in Nat /\ P > 0
  BY <1>0, <1>1 DEF Parts
<1>3. \A v \in D : Portion(others, v, remaining) \in Nat
  <2>1. \A v \in D : others[v] \in Nat
    BY DEF Weights
  <2>2. \A v \in D : others[v] * remaining \in Nat
    BY <2>1
  <2> QED BY <2>2 DEF Portion
<1>4. Weights(share) /\ DOMAIN share = D
  BY <1>0, <1>3 DEF Weights
<1>5. SumOf(share)[D] = remaining * P
  <2>1. CASE Total(others) > 0
    <3> DEFINE zero == [v \in D |-> 0]
    <3>1. Weights(zero) /\ DOMAIN zero = D
      BY <1>0 DEF Weights
    <3>2. SumOf(zero)[D] = 0
      <4>1. Total(zero) = 0
        <5>1. \A v \in DOMAIN zero : zero[v] = 0
          OBVIOUS
        <5> HIDE DEF zero
        <5> QED BY <3>1, <5>1, TotalZero
      <4> HIDE DEF zero
      <4> QED BY <3>1, <4>1, TotalIs
    <3>3. \A v \in D : share[v] = remaining * others[v] + zero[v]
      <4>1. \A v \in D : others[v] \in Nat /\ share[v] = others[v] * remaining /\ zero[v] = 0
        BY <2>1 DEF Portion, Weights
      <4> HIDE DEF share, zero
      <4> QED BY <4>1
    <3>4. SumOf(share)[D] = remaining * SumOf(others)[D] + SumOf(zero)[D]
      <4> HIDE DEF share, zero
      <4> QED BY <1>4, <3>1, <3>3, SumCombines
    <3>5. P = Total(others)
      BY <2>1 DEF Parts
    <3>6. remaining * P \in Nat
      <4> HIDE DEF P
      <4> QED BY <1>2
    <3> HIDE DEF P, share, zero
    <3> QED BY <1>1, <3>2, <3>4, <3>5, <3>6
  <2>2. CASE ~(Total(others) > 0)
    <3>1. \A v \in D : share[v] = IF v \in D THEN remaining ELSE 0
      BY <2>2 DEF Portion
    <3>2. P = n
      BY <2>2 DEF Parts
    <3> HIDE DEF share, P
    <3>3. SumOf(share)[D] = remaining * n
      BY <1>4, <3>1, SumCounts
    <3> QED BY <3>2, <3>3
  <2> QED BY <2>1, <2>2
<1>6. \A v \in D : /\ floor[v] \in Nat /\ frac[v] \in Nat /\ frac[v] < P
                   /\ share[v] = P * floor[v] + frac[v]
  <2>1. \A x \in Nat : \A y \in Nat : y > 0 =>
          /\ x \div y \in Nat /\ x % y \in Nat /\ x % y < y
          /\ x = y * (x \div y) + (x % y)
    OBVIOUS
  <2>2. \A v \in D : /\ share[v] = Portion(others, v, remaining)
                    /\ floor[v] = Portion(others, v, remaining) \div P
                    /\ frac[v] = Portion(others, v, remaining) % P
    BY DEF Floors, Fractions
  <2> SUFFICES ASSUME NEW v \in D
               PROVE  /\ floor[v] \in Nat /\ frac[v] \in Nat /\ frac[v] < P
                      /\ share[v] = P * floor[v] + frac[v]
    OBVIOUS
  <2> DEFINE x == Portion(others, v, remaining)
  <2>3. /\ x \in Nat /\ share[v] = x
        /\ floor[v] = x \div P /\ frac[v] = x % P
    BY <1>3, <2>2
  <2> HIDE DEF P, share, floor, frac, x
  <2>4. /\ x \div P \in Nat /\ x % P \in Nat /\ x % P < P
        /\ x = P * (x \div P) + (x % P)
    BY <1>2, <2>1, <2>3
  <2> QED BY <2>3, <2>4
<1>7. Weights(floor) /\ DOMAIN floor = D /\ Weights(frac) /\ DOMAIN frac = D
  <2>1. /\ DOMAIN floor = D /\ floor = [v \in D |-> floor[v]]
        /\ DOMAIN frac = D /\ frac = [v \in D |-> frac[v]]
    BY DEF Floors, Fractions
  <2> HIDE DEF floor, frac
  <2> QED BY <1>0, <1>6, <2>1 DEF Weights
<1>8. remaining * P = P * SumOf(floor)[D] + SumOf(frac)[D]
  <2> HIDE DEF share, floor, frac, P
  <2>1. \A v \in DOMAIN share : share[v] = P * floor[v] + frac[v]
    BY <1>4, <1>6
  <2>2. SumOf(share)[DOMAIN share]
        = P * SumOf(floor)[DOMAIN share] + SumOf(frac)[DOMAIN share]
    BY <1>2, <1>4, <1>7, <2>1, SumCombines
  <2> QED BY <1>4, <1>5, <2>2
<1> QED BY <1>2, <1>6, <1>7, <1>8

(* The largest remainders give back exactly what rounding down took: what  *)
(* the others receive adds up to what the rollout left them                *)
LEMMA RoundedIsWhole ==
  ASSUME NEW others, Weights(others), DOMAIN others # {}, DOMAIN others \subseteq Nat,
         NEW remaining \in Nat
  PROVE  /\ Weights(Rounded(others, remaining))
         /\ DOMAIN Rounded(others, remaining) = DOMAIN others
         /\ Total(Rounded(others, remaining)) = remaining
<1> DEFINE D == DOMAIN others
           P == Parts(others)
           floor == Floors(others, remaining)
           frac  == Fractions(others, remaining)
           F == SumOf(floor)[D]
           G == SumOf(frac)[D]
           n == Cardinality(D)
           k == remaining - F
<1>0. IsFiniteSet(D) /\ n \in Nat /\ n > 0
  BY Smaller DEF Weights
<1>1. /\ P \in Nat /\ P > 0
      /\ Weights(floor) /\ DOMAIN floor = D /\ Weights(frac) /\ DOMAIN frac = D
      /\ \A v \in D : frac[v] < P
      /\ remaining * P = P * F + G
  BY SharesDivide
<1>9. G < P * n /\ G \in Nat /\ F \in Nat
  <2> HIDE DEF frac, floor, P
  <2>1. G < P * n
    BY <1>1, SumBounded
  <2> QED BY <1>1, <2>1, SumNat
<1>10. k \in Nat /\ k <= n
  <2>1. \A a, b, c, d, e \in Nat :
          d * a = a * b + c /\ c < a * e /\ a > 0 => d - b >= 0 /\ d - b <= e
    <3> SUFFICES ASSUME NEW a \in Nat, NEW b \in Nat, NEW c \in Nat, NEW d \in Nat, NEW e \in Nat,
                        d * a = a * b + c, c < a * e, a > 0
                 PROVE  d - b >= 0 /\ d - b <= e
      OBVIOUS
    <3>1. a * (d - b) = c
      OBVIOUS
    <3>2. ~(d - b < 0)
      <4>1. SUFFICES ASSUME d - b < 0 PROVE FALSE
        OBVIOUS
      <4>2. a * (d - b) < 0
        BY <4>1
      <4> QED BY <3>1, <4>2
    <3>3. ~(d - b > e)
      <4>1. SUFFICES ASSUME d - b > e PROVE FALSE
        OBVIOUS
      <4>2. a * (d - b) > a * e
        BY <4>1
      <4> QED BY <3>1, <4>2
    <3> QED BY <3>2, <3>3
  <2> HIDE DEF F, G, P, n
  <2> QED BY <1>0, <1>1, <1>9, <2>1
<1> DEFINE Lucky == {v \in D : Cardinality({w \in D : Before(others, remaining, w, v)}) < k}
           bonus == [v \in D |-> IF v \in Lucky THEN 1 ELSE 0]
           all == Rounded(others, remaining)
<1>11. Cardinality(Lucky) = k
  <2>1. \A v \in D : /\ Portion(others, v, remaining) % Parts(others) \in Nat
                     /\ Portion(others, v, remaining) % Parts(others) < P
    BY <1>1 DEF Fractions, Weights
  <2> HIDE DEF P, k, n
  <2>2. k <= n /\ k \in Nat
    BY <1>10
  <2> QED BY <1>0, <1>1, <2>1, <2>2, ServedFirst DEF n
<1>12. Weights(bonus) /\ DOMAIN bonus = D /\ SumOf(bonus)[D] = k
  <2>1. Weights(bonus) /\ DOMAIN bonus = D /\ Lucky \in SUBSET D
    BY <1>0 DEF Weights
  <2>2. \A v \in D : bonus[v] = IF v \in Lucky THEN 1 ELSE 0
    OBVIOUS
  <2>3. SumOf(bonus)[D] = 1 * Cardinality(Lucky)
    <3> HIDE DEF bonus, Lucky
    <3> QED BY <2>1, <2>2, SumCounts
  <2> HIDE DEF bonus, Lucky, k
  <2> QED BY <1>10, <1>11, <2>1, <2>3
<1>13. Total(floor) = F
  BY <1>1, TotalIs
<1>14. all = [v \in D |-> floor[v] + bonus[v]]
  <2>1. all = [v \in D |-> floor[v] +
                 (IF Cardinality({w \in D : Before(others, remaining, w, v)}) < k THEN 1 ELSE 0)]
    BY <1>13 DEF Rounded, Floors
  <2> HIDE DEF floor, k, all
  <2> QED BY <2>1
<1>15. Weights(all) /\ DOMAIN all = D
  <2>1. \A v \in D : floor[v] \in Nat /\ bonus[v] \in Nat
    BY <1>1 DEF Weights
  <2> HIDE DEF floor, bonus, all
  <2> QED BY <1>0, <1>14, <2>1 DEF Weights
<1>16. SumOf(all)[D] = 1 * F + k
  <2>1. \A v \in D : all[v] = 1 * floor[v] + bonus[v]
    <3>1. \A v \in D : floor[v] \in Nat /\ bonus[v] \in Nat
      BY <1>1 DEF Weights
    <3> HIDE DEF floor, bonus, all
    <3> QED BY <1>14, <3>1
  <2> HIDE DEF floor, bonus, all, k
  <2>2. SumOf(all)[DOMAIN all] = 1 * SumOf(floor)[DOMAIN all] + SumOf(bonus)[DOMAIN all]
    BY <1>1, <1>12, <1>15, <2>1, SumCombines
  <2> QED BY <1>12, <1>15, <2>2
<1>17. SumOf(all)[D] = remaining
  <2> HIDE DEF all, F
  <2> QED BY <1>9, <1>10, <1>16
<1> HIDE DEF all
<1> QED BY <1>15, <1>17, TotalIs DEF all

(* A rollout is never refused for its arithmetic: whatever the weights     *)
(* were, the named version gets what was asked and the others share the    *)
(* rest so that the whole is 100 percent                                   *)
THEOREM RolloutAlwaysWhole ==
  ASSUME NEW split, Weights(split), DOMAIN split \subseteq Nat,
         NEW version, NEW weight \in 0 .. TOTAL_WEIGHT
  PROVE  /\ ValidWeights(ApplyRollout(split, version, weight))
         /\ DOMAIN split \ {version} # {} => ApplyRollout(split, version, weight)[version] = weight
<1> DEFINE others == [v \in DOMAIN split \ {version} |-> split[v]]
           next == Rounded(others, TOTAL_WEIGHT - weight)
           new == ApplyRollout(split, version, weight)
<1>0. TOTAL_WEIGHT = 100 /\ weight \in Nat /\ TOTAL_WEIGHT - weight \in Nat
  BY DEF TOTAL_WEIGHT
<1>1. Weights(others) /\ DOMAIN others = DOMAIN split \ {version}
  BY FS_Subset DEF Weights
<1>2. /\ Weights(new) /\ version \in DOMAIN new /\ Total(new) = TOTAL_WEIGHT
      /\ DOMAIN others # {} => new[version] = weight
  <2>1. CASE DOMAIN others = {}
    <3>1. new = [v \in {version} |-> TOTAL_WEIGHT]
      BY <2>1 DEF ApplyRollout
    <3> HIDE DEF new
    <3>2. Weights(new) /\ DOMAIN new = {version} /\ new[version] = TOTAL_WEIGHT
      BY <1>0, <3>1, FS_Singleton DEF Weights
    <3> DEFINE rest == [w \in DOMAIN new \ {version} |-> new[w]]
    <3>3. Total(new) = new[version] + Total(rest) /\ Weights(rest)
      BY <3>2, TotalTakes
    <3>4. \A w \in DOMAIN rest : rest[w] = 0
      BY <3>2
    <3> HIDE DEF rest
    <3>5. Total(rest) = 0
      BY <3>3, <3>4, TotalZero
    <3> QED BY <1>0, <2>1, <3>2, <3>3, <3>5
  <2>2. CASE DOMAIN others # {}
    <3>1. Weights(next) /\ DOMAIN next = DOMAIN others /\ Total(next) = TOTAL_WEIGHT - weight
      <4>1. DOMAIN others \subseteq Nat
        OBVIOUS
      <4> HIDE DEF others
      <4> QED BY <1>0, <1>1, <2>2, <4>1, RoundedIsWhole
    <3>2. new = [v \in DOMAIN others \cup {version} |-> IF v = version THEN weight ELSE next[v]]
      BY <2>2 DEF ApplyRollout
    <3> HIDE DEF new, next
    <3>3. DOMAIN new = DOMAIN others \cup {version} /\ new[version] = weight
      BY <3>2
    <3>4. Weights(new)
      <4>1. IsFiniteSet(DOMAIN others \cup {version})
        BY <1>1, FS_AddElement DEF Weights
      <4>2. \A v \in DOMAIN others : new[v] = next[v] /\ next[v] \in Nat
        BY <1>1, <3>1, <3>2 DEF Weights
      <4> HIDE DEF others
      <4> QED BY <1>0, <3>2, <3>3, <4>1, <4>2 DEF Weights
    <3>5. [w \in DOMAIN new \ {version} |-> new[w]] = next
      <4>1. DOMAIN new \ {version} = DOMAIN next
        BY <1>1, <3>1, <3>3
      <4>2. next = [w \in DOMAIN next |-> next[w]]
        BY <3>1 DEF Weights
      <4>3. \A w \in DOMAIN next : new[w] = next[w]
        BY <1>1, <3>1, <3>2
      <4> QED BY <4>1, <4>2, <4>3
    <3>6. Total(new) = weight + (TOTAL_WEIGHT - weight)
      BY <3>1, <3>3, <3>4, <3>5, TotalTakes
    <3> QED BY <1>0, <3>3, <3>4, <3>6
  <2> QED BY <2>1, <2>2
<1> HIDE DEF new
<1>3. ASSUME NEW v \in DOMAIN new PROVE new[v] \in 0 .. TOTAL_WEIGHT
  <2> DEFINE rest == [w \in DOMAIN new \ {v} |-> new[w]]
  <2>1. Total(new) = new[v] + Total(rest) /\ Weights(rest)
    BY <1>2, TotalTakes
  <2> HIDE DEF rest
  <2>2. Total(rest) \in Nat
    BY <2>1, TotalIs, SumNat
  <2>3. new[v] \in Nat
    BY <1>2 DEF Weights
  <2> QED BY <1>0, <1>2, <2>1, <2>2, <2>3
<1>4. TakingTraffic(new) # {}
  <2>1. SUFFICES ASSUME TakingTraffic(new) = {} PROVE FALSE
    OBVIOUS
  <2>2. \A v \in DOMAIN new : new[v] = 0
    BY <1>0, <1>3, <2>1 DEF TakingTraffic
  <2> QED BY <1>0, <1>2, <2>2, TotalZero
<1> QED BY <1>1, <1>2, <1>3, <1>4 DEF ValidWeights, new

(* What has no weight has no fraction either, and there are enough others  *)
(* with a fraction to take all that is left over                           *)
LEMMA IdleGetsNothing ==
  ASSUME NEW others, Weights(others), NEW remaining \in Nat, Total(others) > 0,
         NEW v \in DOMAIN others, others[v] = 0
  PROVE  Rounded(others, remaining)[v] = 0
<1> DEFINE D == DOMAIN others
           P == Parts(others)
           floor == Floors(others, remaining)
           frac  == Fractions(others, remaining)
           F == SumOf(floor)[D]
           G == SumOf(frac)[D]
           Some  == {w \in D : frac[w] > 0}
           ahead == {w \in D : Before(others, remaining, w, v)}
           c == Cardinality(Some)
<1>1. /\ P \in Nat /\ P > 0
      /\ Weights(floor) /\ DOMAIN floor = D /\ Weights(frac) /\ DOMAIN frac = D
      /\ \A w \in D : frac[w] < P
      /\ remaining * P = P * F + G
  BY SharesDivide
<1>2. floor[v] = 0 /\ frac[v] = 0
  <2>1. Portion(others, v, remaining) = 0
    BY DEF Portion
  <2>2. \A y \in Nat : y > 0 => 0 \div y = 0 /\ 0 % y = 0
    OBVIOUS
  <2>3. floor[v] = 0 \div P /\ frac[v] = 0 % P
    BY <2>1 DEF Floors, Fractions
  <2> HIDE DEF P, floor, frac
  <2> QED BY <1>1, <2>2, <2>3
<1>3. c \in Nat /\ Cardinality(ahead) \in Nat /\ c <= Cardinality(ahead)
  <2>1. \A w \in D : frac[w] = Portion(others, w, remaining) % Parts(others)
    BY DEF Fractions
  <2>2. ASSUME NEW w \in Some PROVE w \in ahead
    BY <1>2, <2>1, <2>2 DEF Before
  <2>3. IsFiniteSet(D) /\ Some \subseteq ahead /\ ahead \subseteq D
    BY <2>2 DEF Weights
  <2> HIDE DEF Some, ahead, D
  <2> QED BY <2>3, FS_Subset, FS_CardinalityType
<1>4. G <= P * c
  <2> DEFINE bound == [w \in D |-> IF w \in Some THEN P ELSE 0]
             slack == [w \in D |-> bound[w] - frac[w]]
  <2>1. \A w \in D : /\ bound[w] \in Nat /\ frac[w] \in Nat /\ frac[w] <= bound[w]
                     /\ slack[w] = bound[w] - frac[w]
    <3>1. \A w \in D : frac[w] \in Nat /\ frac[w] < P
      BY <1>1 DEF Weights
    <3>2. \A w \in D : /\ bound[w] = IF w \in Some THEN P ELSE 0
                       /\ slack[w] = bound[w] - frac[w]
      OBVIOUS
    <3> HIDE DEF P, frac, bound, slack
    <3> QED BY <1>1, <3>1, <3>2
  <2>2. IsFiniteSet(D)
    BY DEF Weights
  <2>3. Weights(bound) /\ DOMAIN bound = D
    BY <2>1, <2>2 DEF Weights
  <2>4. Weights(slack) /\ DOMAIN slack = D
    <3>1. DOMAIN slack = D /\ slack = [w \in D |-> slack[w]]
      OBVIOUS
    <3> HIDE DEF slack, frac, bound
    <3> QED BY <2>1, <2>2, <3>1 DEF Weights
  <2>5. SumOf(bound)[D] = P * c
    <3>1. \A w \in D : bound[w] = IF w \in Some THEN P ELSE 0
      OBVIOUS
    <3>2. Some \in SUBSET D
      OBVIOUS
    <3> HIDE DEF bound, Some, P
    <3> QED BY <1>1, <2>3, <3>1, <3>2, SumCounts DEF c
  <2>6. SumOf(bound)[D] = 1 * G + SumOf(slack)[D]
    <3>1. \A w \in DOMAIN bound : bound[w] = 1 * frac[w] + slack[w]
      <4> HIDE DEF bound, slack, frac
      <4> QED BY <2>1, <2>3
    <3> HIDE DEF bound, slack, frac
    <3>2. SumOf(bound)[DOMAIN bound] = 1 * SumOf(frac)[DOMAIN bound] + SumOf(slack)[DOMAIN bound]
      BY <1>1, <2>3, <2>4, <3>1, SumCombines
    <3> QED BY <2>3, <3>2
  <2>7. G \in Nat /\ SumOf(slack)[D] \in Nat
    <3> HIDE DEF slack, frac
    <3> QED BY <1>1, <2>4, SumNat
  <2> HIDE DEF bound, slack, G, P, c
  <2> QED BY <1>1, <2>5, <2>6, <2>7
<1>5. F \in Nat /\ G \in Nat
  <2> HIDE DEF floor, frac
  <2> QED BY <1>1, SumNat
<1>6. remaining - F <= c
  <2>1. ASSUME NEW a \in Nat, NEW b \in Nat, NEW g \in Nat, NEW r \in Nat, NEW e \in Nat,
               r * a = a * b + g, g <= a * e, a > 0
        PROVE  r - b <= e
    <3>1. a * (r - b) = g
      BY <2>1
    <3>2. SUFFICES ASSUME r - b > e PROVE FALSE
      BY <2>1
    <3>3. a * (r - b) > a * e
      BY <2>1, <3>2
    <3> QED BY <2>1, <3>1, <3>3
  <2> HIDE DEF F, G, P, c
  <2> QED BY <1>1, <1>3, <1>4, <1>5, <2>1
<1>7. Rounded(others, remaining)[v]
      = floor[v] + (IF Cardinality(ahead) < remaining - F THEN 1 ELSE 0)
  <2>1. Total(floor) = F
    BY <1>1, TotalIs
  <2> QED BY <2>1 DEF Rounded, Floors
<1> HIDE DEF F, c, floor, ahead
<1> QED BY <1>2, <1>3, <1>5, <1>6, <1>7

(* A rollout gives no traffic to a third version that had none, as long as *)
(* some other version has: shares are "in proportion to what they already  *)
(* have", and rounding up does not reach a version that has nothing.       *)
THEOREM RolloutSparesIdle ==
  ASSUME NEW split, Weights(split), NEW version, NEW weight \in 0 .. TOTAL_WEIGHT,
         NEW v \in DOMAIN split \ {version}, split[v] = 0,
         \E w \in DOMAIN split \ {version} : split[w] > 0
  PROVE  ApplyRollout(split, version, weight)[v] = 0
<1> DEFINE others == [u \in DOMAIN split \ {version} |-> split[u]]
<1>1. Weights(others) /\ DOMAIN others = DOMAIN split \ {version}
  BY FS_Subset DEF Weights
<1>2. v \in DOMAIN others /\ others[v] = 0 /\ \E w \in DOMAIN others : others[w] > 0
  OBVIOUS
<1>3. ApplyRollout(split, version, weight)[v] = Rounded(others, TOTAL_WEIGHT - weight)[v]
  BY DEF ApplyRollout
<1>4. TOTAL_WEIGHT - weight \in Nat
  BY DEF TOTAL_WEIGHT
<1> HIDE DEF others
<1>5. PICK w \in DOMAIN others : others[w] > 0
  BY <1>2
<1>6. Total(others) > 0
  <2> DEFINE less == [u \in DOMAIN others \ {w} |-> others[u]]
  <2>1. Total(others) = others[w] + Total(less) /\ Weights(less)
    BY <1>1, TotalTakes
  <2> HIDE DEF less
  <2>2. Total(less) \in Nat
    BY <2>1, TotalIs, SumNat
  <2>3. others[w] \in Nat
    BY <1>1 DEF Weights
  <2> QED BY <1>5, <2>1, <2>2, <2>3
<1> QED BY <1>1, <1>2, <1>3, <1>4, <1>6, IdleGetsNothing

LEMMA StepNamed == ASSUME TypeOK, Held, Named, [Next]_vars PROVE Named'
<1>1. ASSUME NEW o \in Operators, Request(o) \/ Handles(o) PROVE Named'
  <2>1. Others(o) /\ (pc'[o] = "commit" => ask'[o].version \in Versions)
    BY <1>1, RequestMoves, HandlesKeeps DEF Keeps
  <2> QED BY <2>1 DEF Named, Others, Procs
<1>2. CASE Syncs
  BY <1>2, SyncKeeps, ProcessAssumption DEF Named, Others, Procs
<1>3. ASSUME NEW p \in Procs, CallFails(p) \/ HousekeepingFails(p) PROVE Named'
  BY <1>3, FaultKeeps DEF Named, Others, Procs
<1>4. CASE Crash
  BY <1>4 DEF Crash, Named, Procs
<1>5. UNCHANGED vars \/ PodsStart \/ (\E v \in Versions : PodFails(v) \/ LoadGivesUp(v)) => UNCHANGED locals
  BY DEF vars, PodsStart, RouterStarts, PodStarts, PodFails, LoadGivesUp, locals
<1>6. CASE UNCHANGED locals
  BY <1>6 DEF locals, Named
<1> QED BY <1>1, <1>2, <1>3, <1>4, <1>5, <1>6 DEF Next

LEMMA RolloutOf == ASSUME TypeOK, Held, Named PROVE RolloutAccepted
<1> SUFFICES ASSUME NEW o \in Operators, pc[o] = "commit", ask[o].op = "rollout"
             PROVE  ValidWeights(RolledOut(o))
  BY DEF RolloutAccepted
<1> DEFINE t    == snap[o].targets
           ver  == ask[o].version
           now  == [v \in Served(t) \cup {ver} |-> IF t[v] = None THEN 0 ELSE t[v].weight]
<1>1. o \in Procs /\ t \in Targets /\ ver \in Versions /\ ask[o].share \in 0 .. TOTAL_WEIGHT
  BY TypeParts DEF Named, Procs, Snap, Ask
<1> HIDE DEF t, ver
<1>2. Served(t) \cup {ver} \subseteq Versions
  BY <1>1, ServedIn
<1>3. Weights(now) /\ DOMAIN now \subseteq Nat
  <2>1. \A v \in Versions : t[v] # None => t[v].weight \in 0 .. TOTAL_WEIGHT
    BY <1>1, TargetFields DEF Targets
  <2>2. IsFiniteSet(Served(t) \cup {ver}) /\ Versions \subseteq Nat
    BY <1>2, VersionsAssumption, FS_Subset
  <2>3. \A v \in DOMAIN now : now[v] \in Nat
    BY <1>2, <2>1 DEF TOTAL_WEIGHT
  <2>4. DOMAIN now = Served(t) \cup {ver} /\ now = [v \in DOMAIN now |-> now[v]]
    OBVIOUS
  <2> HIDE DEF now
  <2> QED BY <1>2, <2>2, <2>3, <2>4 DEF Weights
<1>4. RolledOut(o) = ApplyRollout(now, ver, ask[o].share)
  BY DEF RolledOut, t, ver
<1> HIDE DEF now
<1> QED BY <1>1, <1>3, <1>4, RolloutAlwaysWhole

(* The check rollout makes of its own result never fails, whatever the     *)
(* requests and passes it overlaps left in the rows it read: the message   *)
(* "Reachable only through a bug in `applyRollout`" is never sent.         *)
THEOREM RolloutNeverRefused == Spec => []RolloutAccepted
<1>1. Init => Named
  BY DEF Init, Named, Procs
<1>2. TypeOK /\ Held /\ Named /\ [Next]_vars => TypeOK' /\ Held' /\ Named'
  BY StepTyped, StepHeld, StepNamed
<1>3. TypeOK /\ Held /\ Named => RolloutAccepted
  BY RolloutOf
<1> QED BY <1>1, <1>2, <1>3, InitTyped, PTL DEF Spec

----------------------------------------------------------------------------
(* The split, when each request and each pass ends before the next begins *)

LEMMA SplitWeights ==
  ASSUME NEW t \in Targets
  PROVE  /\ Weights(Split(t)) /\ DOMAIN Split(t) = Served(t)
         /\ \A v \in Served(t) : Split(t)[v] = t[v].weight /\ Split(t)[v] \in 0 .. TOTAL_WEIGHT
         /\ Split(t) = [v \in Served(t) |-> t[v].weight]
<1>1. \A v \in Served(t) : t[v].weight \in 0 .. TOTAL_WEIGHT
  BY TargetFields DEF Targets, Served
<1>2. IsFiniteSet(Served(t))
  BY VersionsAssumption, ServedIn, FS_Subset
<1> QED BY <1>1, <1>2 DEF Split, Weights, TOTAL_WEIGHT

LEMMA SameSplit ==
  ASSUME NEW t, NEW u,
         \A v \in Versions : (u[v] = None <=> t[v] = None) /\ (t[v] # None => u[v].weight = t[v].weight)
  PROVE  Split(u) = Split(t) /\ Served(u) = Served(t)
<1>1. Served(u) = Served(t) /\ \A v \in Served(t) : u[v].weight = t[v].weight
  BY DEF Served
<1> QED BY <1>1 DEF Split

(* deployModel leaves everything to one version *)
LEMMA OneHot ==
  ASSUME NEW D, IsFiniteSet(D), NEW v \in D
  PROVE  ValidWeights([w \in D |-> IF w = v THEN TOTAL_WEIGHT ELSE 0])
<1> DEFINE split == [w \in D |-> IF w = v THEN TOTAL_WEIGHT ELSE 0]
           rest  == [w \in D \ {v} |-> split[w]]
<1>1. Weights(split)
  BY DEF Weights, TOTAL_WEIGHT
<1>2. \A w \in DOMAIN rest : rest[w] = 0
  OBVIOUS
<1>3. Total(split) = split[v] + Total(rest) /\ Weights(rest)
  <2>1. DOMAIN split = D
    OBVIOUS
  <2> HIDE DEF split
  <2> QED BY <1>1, <2>1, TotalTakes
<1>4. Total(rest) = 0
  <2> HIDE DEF rest
  <2> QED BY <1>2, <1>3, TotalZero
<1>5. Total(split) = TOTAL_WEIGHT
  BY <1>3, <1>4 DEF TOTAL_WEIGHT
<1>6. v \in TakingTraffic(split)
  BY DEF TakingTraffic, TOTAL_WEIGHT
<1>7. DOMAIN split # {} /\ \A w \in DOMAIN split : split[w] \in 0 .. TOTAL_WEIGHT
  BY DEF TOTAL_WEIGHT
<1> QED BY <1>5, <1>6, <1>7 DEF ValidWeights

(* A version without a share can be left out *)
LEMMA WithoutIdle ==
  ASSUME NEW split, Weights(split), ValidWeights(split), NEW v \in DOMAIN split, split[v] = 0
  PROVE  ValidWeights([w \in DOMAIN split \ {v} |-> split[w]])
<1> DEFINE rest == [w \in DOMAIN split \ {v} |-> split[w]]
<1>1. Total(split) = Total(rest)
  <2>1. Total(split) = 0 + Total(rest) /\ Weights(rest)
    BY TotalTakes
  <2>2. Total(rest) \in Nat
    <3>1. DOMAIN rest \in SUBSET DOMAIN rest
      OBVIOUS
    <3> HIDE DEF rest
    <3> QED BY <2>1, <3>1, TotalIs, SumNat
  <2> HIDE DEF rest
  <2> QED BY <2>1, <2>2
<1>2. TakingTraffic(rest) = TakingTraffic(split)
  BY DEF TakingTraffic
<1>3. TakingTraffic(rest) # {} /\ Total(rest) = TOTAL_WEIGHT
  BY <1>1, <1>2 DEF ValidWeights
<1>4. DOMAIN rest # {}
  BY <1>3 DEF TakingTraffic
<1>5. \A w \in DOMAIN rest : rest[w] \in 0 .. TOTAL_WEIGHT
  BY DEF ValidWeights
<1> QED BY <1>3, <1>4, <1>5 DEF ValidWeights

Mapping(f) == f = [v \in DOMAIN f |-> f[v]]

LEMMA RolledOutDomain ==
  ASSUME NEW split, NEW version, NEW weight
  PROVE  /\ DOMAIN ApplyRollout(split, version, weight) = DOMAIN split \cup {version}
         /\ Mapping(ApplyRollout(split, version, weight))
BY DEF ApplyRollout, Mapping

(* What the steps do to the split *)
WholeStays == Split(targets)' = Split(targets) /\ Served(targets)' = Served(targets)

LEMMA WholeKept ==
  ASSUME TypeOK, Whole, RowStays, WholeStays PROVE Whole'
<1>1. Exists' <=> Exists
  BY RowFields DEF RowStays, Exists
<1> QED BY <1>1 DEF Whole, WholeSplit, WholeStays

LEMMA CommitWhole ==
  ASSUME TypeOK, TypeOK', CalmInv, NEW o \in Operators, CommitDeploy(o) \/ CommitRollout(o)
  PROVE  Whole' /\ Exists'
<1> DEFINE ver == ask[o].version
<1>0. /\ o \in Procs /\ ver \in Versions /\ snap[o].row = row /\ snap[o].targets = targets
      /\ targets \in Targets /\ targets' \in Targets
  <2>1. pc[o] = "commit"
    BY DEF CommitDeploy, CommitRollout
  <2>2. targets' \in Targets
    BY DEF TypeOK, Targets
  <2> QED BY <2>1, <2>2, TypeParts DEF CalmInv, Fresh, Reading, Procs
<1> HIDE DEF ver
<1>1. CASE CommitDeploy(o)
  <2>1. \A v \in Versions : targets'[v] = IF v = ver THEN Weighed(targets[v], TOTAL_WEIGHT)
                                          ELSE IF targets[v] # None THEN Weighed(targets[v], 0) ELSE None
    BY <1>0, <1>1 DEF CommitDeploy, ver
  <2>2. \A v \in Versions : \A w \in {0, TOTAL_WEIGHT} :
          Weighed(targets[v], w) # None /\ Weighed(targets[v], w).weight = w
    <3> SUFFICES ASSUME NEW v \in Versions, NEW w \in {0, TOTAL_WEIGHT}
                 PROVE  Weighed(targets[v], w) # None /\ Weighed(targets[v], w).weight = w
      OBVIOUS
    <3>1. w \in 0 .. TOTAL_WEIGHT /\ targets[v] \in Target \cup {None}
      BY <1>0 DEF TOTAL_WEIGHT, Targets
    <3>2. Weighed(targets[v], w) # None
      BY <3>1, WeighedTyped, TargetFields
    <3>3. Weighed(targets[v], w).weight = w
      BY <3>1 DEF Weighed, NewTarget, Target
    <3> QED BY <3>2, <3>3
  <2>3. Served(targets') = Served(targets) \cup {ver}
    BY <1>0, <2>1, <2>2 DEF Served
  <2>4. \A v \in Served(targets') : targets'[v].weight = IF v = ver THEN TOTAL_WEIGHT ELSE 0
    BY <2>1, <2>2 DEF Served
  <2> DEFINE D == Served(targets')
  <2>5. Split(targets') = [v \in D |-> IF v = ver THEN TOTAL_WEIGHT ELSE 0]
    BY <2>4 DEF Split
  <2>6. IsFiniteSet(D) /\ ver \in D
    BY <2>3, ServedIn, VersionsAssumption, FS_Subset
  <2> HIDE DEF D
  <2>7. ValidWeights(Split(targets'))
    BY <2>5, <2>6, OneHot
  <2>8. row' # None /\ row' # Gone
    BY <1>1, RowFields, NullsTyped DEF CommitDeploy
  <2> QED BY <2>7, <2>8 DEF Whole, WholeSplit, Exists
<1>2. CASE CommitRollout(o)
  <2> DEFINE t    == snap[o].targets
             now  == [v \in Served(t) \cup {ver} |-> IF t[v] = None THEN 0 ELSE t[v].weight]
             next == ApplyRollout(now, ver, ask[o].share)
  <2>1. /\ next = RolledOut(o) /\ DOMAIN next = Served(targets) \cup {ver}
        /\ Mapping(next)
    <3>1. next = RolledOut(o)
      BY DEF RolledOut, ver
    <3>2. DOMAIN now = Served(targets) \cup {ver}
      BY <1>0
    <3> HIDE DEF now
    <3>3. DOMAIN next = DOMAIN now \cup {ver} /\ Mapping(next)
      BY RolledOutDomain
    <3> HIDE DEF next
    <3> QED BY <3>1, <3>2, <3>3
  <2> HIDE DEF next
  <2>2. /\ ValidWeights(next) /\ Exists /\ row' = row
        /\ targets' = [v \in Versions |->
             IF v \in DOMAIN next /\ (targets[v] # None \/ snap[o].targets[v] = None)
             THEN Weighed(targets[v], next[v]) ELSE targets[v]]
    BY <1>2, <2>1 DEF CommitRollout
  <2>3. \A v \in Versions : targets'[v] = IF v \in DOMAIN next THEN Weighed(targets[v], next[v]) ELSE None
    BY <1>0, <2>1, <2>2 DEF Served
  <2>4. \A v \in DOMAIN next : Weighed(targets[v], next[v]) # None
                               /\ Weighed(targets[v], next[v]).weight = next[v]
    <3> SUFFICES ASSUME NEW v \in DOMAIN next
                 PROVE  Weighed(targets[v], next[v]) # None /\ Weighed(targets[v], next[v]).weight = next[v]
      OBVIOUS
    <3> DEFINE w == next[v]
    <3>1. w \in 0 .. TOTAL_WEIGHT /\ targets[v] \in Target \cup {None}
      BY <1>0, <2>1, <2>2, ServedIn DEF ValidWeights, Targets
    <3> HIDE DEF w
    <3>2. Weighed(targets[v], w) # None
      BY <3>1, WeighedTyped, TargetFields
    <3>3. Weighed(targets[v], w).weight = w
      BY <3>1 DEF Weighed, NewTarget, Target
    <3> QED BY <3>2, <3>3 DEF w
  <2>5. Served(targets') = DOMAIN next
    BY <1>0, <2>1, <2>3, <2>4, ServedIn DEF Served
  <2>6. \A v \in DOMAIN next : targets'[v].weight = next[v]
    BY <1>0, <2>1, <2>3, <2>4, ServedIn
  <2>7. Split(targets') = next
    BY <2>1, <2>5, <2>6 DEF Split, Mapping
  <2> QED BY <2>2, <2>7 DEF Whole, WholeSplit, Exists
<1> QED BY <1>1, <1>2

LEMMA RemoveTargetWhole ==
  ASSUME TypeOK, CalmInv, NEW o \in Operators, RemoveTarget(o) PROVE Whole'
<1> DEFINE ver == ask[o].version
<1>1. /\ Exists /\ ver \in Served(targets) /\ targets[ver].weight = 0 /\ row' = row
      /\ targets' = [targets EXCEPT ![ver] = None] /\ targets \in Targets
  BY TypeParts DEF RemoveTarget, CalmInv, Fresh, Procs, rows
<1> HIDE DEF ver
<1>2. Served(targets') = Served(targets) \ {ver}
  BY <1>1 DEF Served, Targets
<1>3. \A v \in Served(targets') : targets'[v] = targets[v]
  BY <1>1, <1>2, ServedIn DEF Targets
<1> DEFINE split == Split(targets)
           rest  == [v \in DOMAIN split \ {ver} |-> split[v]]
<1>4. Weights(split) /\ ValidWeights(split) /\ ver \in DOMAIN split /\ split[ver] = 0
  BY <1>1, SplitWeights DEF CalmInv, Whole, WholeSplit
<1>5. Split(targets') = rest
  BY <1>1, <1>2, <1>3, SplitWeights DEF Split
<1> HIDE DEF split
<1>6. ValidWeights(rest)
  BY <1>4, WithoutIdle
<1> QED BY <1>1, <1>5, <1>6 DEF Whole, WholeSplit, Exists

LEMMA CalmOf ==
  ASSUME CalmInv, NEW p \in Procs, Others(p),
         pc[p] # "idle" \/ \A q \in Procs : pc[q] = "idle",
         Whole', Fresh(p)'
  PROVE  CalmInv'
<1>1. \A q \in Procs \ {p} : pc[q] = "idle" /\ pc'[q] = "idle"
  BY DEF CalmInv, Alone, Others
<1>2. Alone'
  BY <1>1 DEF Alone
<1>3. \A q \in Procs : Fresh(q)'
  BY <1>1 DEF Fresh, Reading
<1> QED BY <1>2, <1>3 DEF CalmInv

(* Past its commit, or its loading of the rows, a process needs no more *)
LEMMA FreshOf ==
  ASSUME TypeOK, NEW p \in Procs, Fresh(p), RowStays, pc[p] \notin {"idle", "commit"},
         \/ pc'[p] \notin Reading
         \/ /\ UNCHANGED <<row, targets, snap, ask>> /\ pc'[p] # "commit"
            /\ pc'[p] \in Reading => pc[p] \in Reading
            /\ pc'[p] \in {"retire", "retireService", "removeTarget"} =>
                 pc[p] \in {"retire", "retireService", "removeTarget"}
  PROVE  Fresh(p)'
<1>1. Exists' /\ row' # Gone
  BY RowFields DEF Fresh, RowStays, Exists
<1>2. CASE pc'[p] \notin Reading
  BY <1>1, <1>2 DEF Fresh, Reading
<1>3. CASE /\ UNCHANGED <<row, targets, snap, ask>> /\ pc'[p] # "commit"
           /\ pc'[p] \in Reading => pc[p] \in Reading
           /\ pc'[p] \in {"retire", "retireService", "removeTarget"} =>
                 pc[p] \in {"retire", "retireService", "removeTarget"}
  <2>1. pc'[p] \in Reading => snap'[p].row = row' /\ snap'[p].targets = targets'
    BY <1>3 DEF Fresh
  <2>2. pc'[p] \in {"retire", "retireService", "removeTarget"} =>
          ask'[p].version \in Served(targets') /\ targets'[ask'[p].version].weight = 0
    BY <1>3 DEF Fresh
  <2> QED BY <1>1, <1>3, <2>1, <2>2 DEF Fresh
<1> QED BY <1>2, <1>3

LEMMA TargetsKeepWhole ==
  ASSUME TypeOK
  PROVE  /\ UNCHANGED targets => WholeStays
         /\ \A v \in Versions, r \in Target :
              /\ targets[v] # None /\ r.weight = targets[v].weight
              /\ targets' = [targets EXCEPT ![v] = r]
              => WholeStays
<1>1. UNCHANGED targets => WholeStays
  BY DEF WholeStays
<1>2. ASSUME NEW v \in Versions, NEW r \in Target, targets[v] # None, r.weight = targets[v].weight,
             targets' = [targets EXCEPT ![v] = r]
      PROVE  WholeStays
  <2>1. r # None /\ targets \in Targets
    BY TargetFields, TypeParts
  <2>2. \A w \in Versions : /\ targets'[w] = None <=> targets[w] = None
                            /\ targets[w] # None => targets'[w].weight = targets[w].weight
    BY <1>2, <2>1 DEF Targets
  <2>3. Split(targets') = Split(targets) /\ Served(targets') = Served(targets)
    BY <2>2, SameSplit
  <2> QED BY <2>3 DEF WholeStays
<1> QED BY <1>1, <1>2

LEMMA RequestCalm ==
  ASSUME ~Overlap, TypeOK, CalmInv, NEW o \in Operators, Request(o) PROVE CalmInv'
<1>1. /\ Others(o) /\ MayStart(o) /\ UNCHANGED <<row, targets>> /\ row # Gone /\ snap'[o] = Here
      /\ o \in Procs
  BY RequestMoves DEF rows, Procs
<1>2. Whole'
  BY <1>1, WholeKept, TargetsKeepWhole DEF CalmInv, RowStays
<1>3. Here.row = row /\ Here.targets = targets
  BY DEF Here
<1>4. /\ pc'[o] \in {"commit", "retire", "undeploy"} /\ (pc'[o] # "commit" => Exists)
      /\ pc'[o] = "commit" => ask'[o].version \in Versions
      /\ pc'[o] = "retire" => /\ ask'[o].version \in Served(targets')
                              /\ targets'[ask'[o].version].weight = 0
  BY <1>1, RequestMoves
<1>5. Fresh(o)'
  BY <1>1, <1>3, <1>4 DEF Fresh, Exists
<1> QED BY <1>1, <1>2, <1>5, CalmOf DEF MayStart

LEMMA CalmStays ==
  ASSUME TypeOK, CalmInv, NEW p \in Procs, Others(p), RowStays, WholeStays,
         pc[p] \notin {"idle", "commit"},
         \/ pc'[p] \notin Reading
         \/ /\ UNCHANGED <<row, targets, snap, ask>> /\ pc'[p] # "commit"
            /\ pc'[p] \in Reading => pc[p] \in Reading
            /\ pc'[p] \in {"retire", "retireService", "removeTarget"} =>
                 pc[p] \in {"retire", "retireService", "removeTarget"}
  PROVE  CalmInv'
<1>1. Fresh(p)'
  BY FreshOf DEF CalmInv
<1>2. Whole'
  BY WholeKept DEF CalmInv
<1> QED BY <1>1, <1>2, CalmOf

(* Where the steps that read nothing again come from and go to *)
LEMMA ReapedMoves ==
  ASSUME TypeOK, NEW p \in Procs, Reaped(p)
  PROVE  pc'[p] = IF p = Sync THEN "judge" ELSE "idle"
<1>1. CASE p = Sync
  <2>1. Goto(p, "judge")
    BY <1>1 DEF Reaped
  <2> QED BY <1>1, <2>1, LocalsOf
<1>2. CASE p # Sync
  BY <1>2, LocalsOf DEF Reaped
<1> QED BY <1>1, <1>2

LEMMA TidiesMoves ==
  ASSUME TypeOK, NEW p \in Procs, Tidies(p)
  PROVE  /\ pc[p] \in {"removeRouter", "forgetRouter", "reap", "delete", "deleteService"}
         /\ pc'[p] \in {"forgetRouter", "reap", "delete", "deleteService", "judge", "idle"}
         /\ UNCHANGED targets
<1>1. CASE RemoveRouter(p)
  <2>1. (Goto(p, "forgetRouter") \/ Goto(p, "reap")) /\ pc[p] = "removeRouter" /\ UNCHANGED targets
    BY <1>1 DEF RemoveRouter, rows
  <2> QED BY <2>1, LocalsOf
<1>2. CASE ForgetRouter(p)
  <2>1. Goto(p, "reap") /\ pc[p] = "forgetRouter" /\ UNCHANGED targets
    BY <1>2 DEF ForgetRouter
  <2> QED BY <2>1, LocalsOf
<1>3. CASE ReapLists(p)
  <2>1. (Goto(p, "delete") \/ Reaped(p)) /\ pc[p] = "reap" /\ UNCHANGED targets
    BY <1>3 DEF ReapLists, rows
  <2> QED BY <2>1, LocalsOf, ReapedMoves
<1>4. CASE ReapDeletes(p)
  <2>1. Goto(p, "deleteService") /\ pc[p] = "delete" /\ UNCHANGED targets
    BY <1>4 DEF ReapDeletes, rows
  <2> QED BY <2>1, LocalsOf
<1>5. CASE ReapDeletesService(p)
  <2>1. (Goto(p, "delete") \/ Reaped(p)) /\ pc[p] = "deleteService" /\ UNCHANGED targets
    BY <1>5 DEF ReapDeletesService, rows
  <2> QED BY <2>1, LocalsOf, ReapedMoves
<1> QED BY <1>1, <1>2, <1>3, <1>4, <1>5 DEF Tidies

LEMMA AppliesMoves ==
  ASSUME TypeOK, NEW o \in Procs, Applies(o)
  PROVE  /\ pc[o] \in {"apply", "token", "secret", "targets", "service", "launch", "router", "noteRouter",
                       "front", "noteFront", "noteServing", "judge"}
         /\ pc'[o] \notin Reading /\ pc'[o] # "commit"
         /\ ~RecordTargetLaunch(o) => UNCHANGED targets
<1> DEFINE From(at) == pc[o] = at /\ (~RecordTargetLaunch(o) => UNCHANGED targets)
           To == {"idle", "token", "secret", "targets", "service", "launch", "router", "noteRouter", "front",
                  "noteFront", "noteServing", "judge", "removeRouter"}
           Moves == Drop(o) \/ \E at \in To : Goto(o, at)
<1>1. CASE ApplyReads(o) \/ EnsureServingToken(o) \/ ApplySecret(o)
  <2>1. Moves /\ (From("apply") \/ From("token") \/ From("secret"))
    BY <1>1 DEF ApplyReads, EnsureServingToken, ApplySecret, rows
  <2> QED BY <2>1, LocalsOf DEF Reading
<1>2. CASE ApplyTarget(o) \/ ApplyTargetService(o) \/ RecordTargetLaunch(o) \/ ApplyRouter(o)
  <2>1. Moves /\ (From("targets") \/ From("service") \/ From("launch") \/ From("router"))
    BY <1>2 DEF ApplyTarget, ApplyTargetService, RecordTargetLaunch, ApplyRouter, rows
  <2> QED BY <2>1, LocalsOf DEF Reading
<1>3. CASE RecordRouter(o) \/ ApplyService(o) \/ RecordLaunch(o)
  <2>1. Moves /\ (From("noteRouter") \/ From("front") \/ From("noteFront"))
    BY <1>3 DEF RecordRouter, ApplyService, RecordLaunch, rows
  <2> QED BY <2>1, LocalsOf DEF Reading
<1>4. CASE RecordServingVersion(o) \/ ApplyJudges(o)
  <2>1. Moves /\ (From("noteServing") \/ From("judge"))
    BY <1>4 DEF RecordServingVersion, ApplyJudges
  <2> QED BY <2>1, LocalsOf DEF Reading
<1> QED BY <1>1, <1>2, <1>3, <1>4 DEF Applies

LEMMA LaunchWhole ==
  ASSUME TypeOK, NEW o \in Procs, RecordTargetLaunch(o) PROVE WholeStays
<1> DEFINE v == Lowest(todo[o])
           r == [targets[v] EXCEPT !.launched = TRUE]
<1>1. targets' = [targets EXCEPT ![v] = IF targets[v] = None THEN targets[v] ELSE r]
  BY TypeParts DEF RecordTargetLaunch
<1>2. targets \in Targets
  BY TypeParts
<1>3. CASE v \in Versions /\ targets[v] # None
  <2>1. targets[v] \in Target
    BY <1>2, <1>3 DEF Targets
  <2>2. r \in Target /\ r.weight = targets[v].weight
    BY <2>1 DEF Target
  <2> HIDE DEF v, r
  <2>3. targets' = [targets EXCEPT ![v] = r]
    BY <1>1, <1>3
  <2> QED BY <1>3, <2>2, <2>3, TargetsKeepWhole
<1>4. CASE ~(v \in Versions /\ targets[v] # None)
  <2> HIDE DEF v, r
  <2>1. targets' = targets
    BY <1>1, <1>2, <1>4 DEF Targets
  <2> QED BY <2>1, TargetsKeepWhole
<1> QED BY <1>3, <1>4

LEMMA ObserveWhole ==
  ASSUME TypeOK, ObserveTarget PROVE WholeStays
<1> DEFINE v   == Lowest(todo[Sync])
           old == snap[Sync].targets[v].status
           now == StatusFromObservation(pods[v], old)
           r   == [targets[v] EXCEPT !.status = now]
<1>1. targets' = [targets EXCEPT ![v] = IF targets[v] = None \/ now = old THEN targets[v] ELSE r]
  BY TypeParts DEF ObserveTarget
<1>2. targets \in Targets /\ now \in Statuses
  BY TypeParts, ObservedTyped
<1> HIDE DEF now, old
<1>3. CASE v \in Versions /\ targets[v] # None /\ now # old
  <2>1. targets[v] \in Target
    BY <1>2, <1>3 DEF Targets
  <2>2. r \in Target /\ r.weight = targets[v].weight
    BY <1>2, <2>1 DEF Target
  <2> HIDE DEF v, r
  <2>3. targets' = [targets EXCEPT ![v] = r]
    BY <1>1, <1>3
  <2> QED BY <1>3, <2>2, <2>3, TargetsKeepWhole
<1>4. CASE ~(v \in Versions /\ targets[v] # None /\ now # old)
  <2> HIDE DEF v, r
  <2>1. targets' = targets
    BY <1>1, <1>2, <1>4 DEF Targets
  <2> QED BY <2>1, TargetsKeepWhole
<1> QED BY <1>3, <1>4

LEMMA HandlesCalm ==
  ASSUME TypeOK, TypeOK', Held, CalmInv, NEW o \in Operators, Handles(o) PROVE CalmInv'
<1>0. o \in Procs /\ Others(o) /\ pc[o] # "idle" /\ Fresh(o) /\ Whole
  BY HandlesKeeps DEF Procs, Keeps, CalmInv
<1>1. CASE CommitFails(o)
  <2>1. pc'[o] = "idle" /\ UNCHANGED <<row, targets>>
    BY <1>0, <1>1, LocalsOf DEF CommitFails, rows
  <2>2. Whole'
    BY <1>0, <2>1, WholeKept, TargetsKeepWhole DEF RowStays
  <2>3. Fresh(o)'
    BY <2>1 DEF Fresh, Reading
  <2> QED BY <1>0, <2>2, <2>3, CalmOf
<1>2. CASE CommitDeploy(o) \/ CommitRollout(o)
  <2>1. Goto(o, "apply")
    BY <1>2 DEF CommitDeploy, CommitRollout
  <2>2. Whole' /\ Exists' /\ pc'[o] = "apply"
    BY <1>0, <1>2, <2>1, CommitWhole, LocalsOf
  <2>3. Fresh(o)'
    BY <2>2 DEF Fresh, Reading, Exists
  <2> QED BY <1>0, <2>2, <2>3, CalmOf
<1>3. CASE Applies(o)
  <2>1. WholeStays
    BY <1>0, <1>3, AppliesMoves, LaunchWhole, TargetsKeepWhole
  <2>2. RowStays
    <3>1. pc[o] \notin {"commit", "undeployRow"}
      BY <1>0, <1>3, AppliesMoves
    <3> QED BY <3>1, HandlesRow DEF CommitDeploy, DeleteRow
  <2> QED BY <1>0, <1>3, <2>1, <2>2, AppliesMoves, CalmStays
<1>4. CASE Tidies(o)
  <2>1. pc'[o] \notin Reading /\ WholeStays /\ pc[o] \notin {"idle", "commit"}
    BY <1>0, <1>4, TidiesMoves, TargetsKeepWhole DEF Reading
  <2> QED BY <1>0, <1>4, <2>1, TidiesRow, CalmStays
<1>5. CASE \/ RetireDeletes(o) \/ RetireDeletesService(o)
           \/ UndeployDeletes(o) \/ UndeployDeletesService(o) \/ UndeployRouter(o)
           \/ UndeployFront(o) \/ DeleteSecret(o)
  <2>1. /\ UNCHANGED <<row, targets, snap, ask>>
        /\ \/ /\ pc[o] \in {"retire", "retireService"}
              /\ Goto(o, "retireService") \/ Goto(o, "removeTarget")
           \/ /\ pc[o] \in {"undeploy", "undeployService", "undeployFront", "undeploySecret"}
              /\ \/ Goto(o, "undeploy") \/ Goto(o, "undeployService")
                 \/ Goto(o, "undeployFront") \/ Goto(o, "undeploySecret") \/ Goto(o, "undeployRow")
    BY <1>5 DEF RetireDeletes, RetireDeletesService, UndeployDeletes, UndeployDeletesService,
                UndeployRouter, UndeployFront, DeleteSecret, rows
  <2>2. \/ pc[o] \in {"retire", "retireService"} /\ pc'[o] \in {"retireService", "removeTarget"}
        \/ /\ pc[o] \in {"undeploy", "undeployService", "undeployFront", "undeploySecret"}
           /\ pc'[o] \in {"undeploy", "undeployService", "undeployFront", "undeploySecret", "undeployRow"}
    BY <1>0, <2>1, LocalsOf
  <2>3. WholeStays /\ RowStays
    BY <2>1, TargetsKeepWhole DEF RowStays
  <2> QED BY <1>0, <2>1, <2>2, <2>3, CalmStays DEF Reading
<1>6. CASE RemoveTarget(o)
  <2>1. pc'[o] = "idle"
    BY <1>0, <1>6, LocalsOf DEF RemoveTarget
  <2>2. Fresh(o)'
    BY <2>1 DEF Fresh, Reading
  <2> QED BY <1>0, <1>6, <2>2, RemoveTargetWhole, CalmOf
<1>7. CASE DeleteRow(o)
  <2>1. pc'[o] = "idle" /\ row' = Gone /\ targets' = [v \in Versions |-> None]
    BY <1>0, <1>7, LocalsOf DEF DeleteRow
  <2>2. Served(targets') = {} /\ ~Exists'
    BY <2>1 DEF Served, Exists
  <2>3. Fresh(o)' /\ Whole'
    BY <2>1, <2>2 DEF Fresh, Reading, Whole, WholeSplit
  <2> QED BY <1>0, <2>3, CalmOf
<1> QED BY <1>1, <1>2, <1>3, <1>4, <1>5, <1>6, <1>7 DEF Handles

LEMMA SyncsCalm ==
  ASSUME ~Overlap, TypeOK, Held, CalmInv, Syncs PROVE CalmInv'
<1>0. Sync \in Procs /\ Others(Sync) /\ RowStays /\ Fresh(Sync) /\ Whole
  BY SyncKeeps, SyncsRow DEF Procs, CalmInv
<1>1. CASE SyncLists
  <2>1. Exists /\ MayStart(Sync) /\ UNCHANGED <<row, targets>>
    BY <1>1 DEF SyncLists, rows
  <2>2. pc'[Sync] \in {"observe", "observeRouter"}
    <3>1. Goto(Sync, "observe") \/ Goto(Sync, "observeRouter")
      BY <1>1 DEF SyncLists, SyncNext
    <3> QED BY <1>0, <3>1, LocalsOf
  <2>3. Whole'
    BY <1>0, <2>1, WholeKept, TargetsKeepWhole
  <2>4. Fresh(Sync)'
    BY <2>1, <2>2 DEF Fresh, Reading, Exists
  <2> QED BY <1>0, <2>1, <2>3, <2>4, CalmOf DEF MayStart
<1>2. CASE ~SyncLists
  <2> DEFINE To == {"observe", "observeRouter", "move", "judge", "noteMove", "removeRouter", "scale"}
  <2>1. ASSUME \/ ObserveTarget \/ ObserveRouter \/ MoveFrontDoor \/ RecordMove \/ ScaleDown \/ SyncJudges
        PROVE  /\ pc[Sync] \in {"observe", "observeRouter", "move", "noteMove", "scale", "judge"}
               /\ Drop(Sync) \/ \E at \in To : Goto(Sync, at)
               /\ ObserveTarget \/ UNCHANGED targets
    BY <2>1 DEF ObserveTarget, ObserveRouter, MoveFrontDoor, RecordMove, ScaleDown, ScaledDown, SyncJudges,
                SyncNext, rows
  <2>2. /\ pc[Sync] \notin {"idle", "commit"} /\ pc'[Sync] \notin Reading
        /\ ObserveTarget \/ UNCHANGED targets
    BY <1>0, <1>2, <2>1, TidiesMoves, LocalsOf DEF Syncs, Reading
  <2>3. WholeStays
    BY <2>2, ObserveWhole, TargetsKeepWhole
  <2> QED BY <1>0, <2>2, <2>3, CalmStays
<1> QED BY <1>1, <1>2

LEMMA StepCalm ==
  ASSUME ~Overlap, TypeOK, TypeOK', Held, CalmInv, [Next]_vars PROVE CalmInv'
<1>1. ASSUME NEW p \in Procs, CallFails(p) \/ HousekeepingFails(p) PROVE CalmInv'
  <2>0. Others(p) /\ pc[p] # "idle" /\ RowStays /\ WholeStays /\ Fresh(p) /\ Whole
    BY <1>1, FaultKeeps, FaultRow, TargetsKeepWhole DEF CalmInv, CallFails, HousekeepingFails, rows
  <2>1. /\ pc[p] # "commit"
        /\ Drop(p) \/ Reaped(p) \/ (pc[p] = "scale" /\ (Goto(Sync, "scale") \/ Goto(Sync, "removeRouter")))
    BY <1>1 DEF CallFails, HousekeepingFails, ScaledDown, SyncNext
  <2>2. pc[p] = "scale" => p = Sync
    BY DEF Held, Procs
  <2>3. pc'[p] \notin Reading
    BY <2>1, <2>2, LocalsOf, ReapedMoves DEF Reading
  <2> QED BY <2>0, <2>1, <2>3, CalmStays
<1>2. CASE Crash
  <2>1. \A p \in Procs : pc'[p] = "idle"
    BY <1>2 DEF Crash
  <2>2. Alone' /\ \A p \in Procs : Fresh(p)'
    BY <2>1 DEF Alone, Fresh, Reading
  <2>3. Whole'
    BY <1>2, WholeKept, TargetsKeepWhole DEF Crash, rows, RowStays, CalmInv
  <2> QED BY <2>2, <2>3 DEF CalmInv
<1>3. CASE UNCHANGED <<rows, locals>>
  BY <1>3 DEF rows, locals, CalmInv, Alone, Whole, WholeSplit, Exists, Served, Split, Fresh
<1>4. UNCHANGED vars \/ PodsStart \/ (\E v \in Versions : PodFails(v) \/ LoadGivesUp(v)) => UNCHANGED <<rows, locals>>
  BY DEF vars, PodsStart, RouterStarts, PodStarts, PodFails, LoadGivesUp
<1> QED BY <1>1, <1>2, <1>3, <1>4, RequestCalm, HandlesCalm, SyncsCalm DEF Next

LEMMA InitCalm == Init => CalmInv
<1> SUFFICES ASSUME Init PROVE CalmInv
  OBVIOUS
<1>1. Alone /\ \A p \in Procs : Fresh(p)
  BY DEF Init, Alone, Fresh, Reading
<1>2. Whole
  BY DEF Init, Whole, WholeSplit, Exists, Served
<1> QED BY <1>1, <1>2 DEF CalmInv

LEMMA CalmThroughout == ~Overlap => (Spec => [](TypeOK /\ Held /\ CalmInv))
<1> SUFFICES ASSUME ~Overlap PROVE Spec => [](TypeOK /\ Held /\ CalmInv)
  OBVIOUS
<1>1. Init => TypeOK /\ Held /\ CalmInv
  BY InitTyped, InitCalm
<1>2. TypeOK /\ Held /\ CalmInv /\ [Next]_vars => (TypeOK /\ Held /\ CalmInv)'
  BY StepTyped, StepHeld, StepCalm
<1> QED BY <1>1, <1>2, PTL DEF Spec

(* With one request or pass at a time, whatever fails or restarts, the     *)
(* shares of a deployment add up to the whole after every deploy, rollout  *)
(* and retire.                                                             *)
THEOREM SplitAlwaysWhole == ~Overlap => (Spec => []WholeSplit)
<1>1. CalmInv => WholeSplit
  BY DEF CalmInv, Whole
<1> QED BY <1>1, CalmThroughout, PTL

----------------------------------------------------------------------------
(* What is left in the cluster *)

(* Accounted, when p alone is at work *)
OnRow(p) ==
  /\ \A v \in Versions : Left(v) =>
       Launched(v) \/ v \in strays.versions \/ (pc[p] \in {"service", "launch"} /\ v = Lowest(todo[p]))
  /\ router # "absent" => RouterNamed \/ strays.router \/ pc[p] = "noteRouter"
  /\ front # None => FrontNamed \/ strays.front \/ pc[p] = "noteFront"
  /\ row = Gone => secret = 0

OthersIdle(p) == \A q \in Procs \ {p} : pc[q] = "idle"

LEMMA OnRowOf ==
  ASSUME NEW p \in Procs, OthersIdle(p), Accounted PROVE OnRow(p)
BY DEF OthersIdle, Accounted, OnRow

LEMMA OrphanOf ==
  ASSUME NEW p \in Procs, OthersIdle(p), Others(p), OnRow(p)', Covers(p)', Clears(p)'
  PROVE  OrphanInv'
<1>1. \A q \in Procs \ {p} : pc'[q] = "idle"
  BY DEF OthersIdle, Others
<1>2. Accounted'
  BY <1>1 DEF Accounted, OnRow, Left, Launched, RouterNamed, FrontNamed, Exists
<1>3. \A q \in Procs : Covers(q)' /\ Clears(q)'
  BY <1>1 DEF Covers, Clears, Left
<1> QED BY <1>2, <1>3 DEF OrphanInv

(* Where a process has nothing to cover or clear *)
Free == {"idle", "commit", "apply", "front", "noteFront", "noteServing", "judge", "removeRouter", "reap",
         "delete", "deleteService", "retire"}

LEMMA FreeCovers ==
  ASSUME NEW p \in Procs, pc'[p] \in Free PROVE Covers(p)' /\ Clears(p)'
BY DEF Free, Covers, Clears

(* A step that only adds to the rows and takes from the cluster *)
RowAdds     == row' = row \/ row = None \/
               (Exists /\ Exists' /\ row'.router = row.router /\ row'.k8s = row.k8s)
TargetsAdd  == \A v \in Versions : targets[v] # None =>
                 targets'[v] # None /\ (targets[v].launched => targets'[v].launched)
ClusterLess == /\ \A v \in Versions : Left(v)' => Left(v)
               /\ router' # "absent" => router # "absent"
               /\ front' # None => front # None
               /\ secret' = secret \/ secret' = 0

LEMMA OnRowKept ==
  ASSUME NEW p \in Procs, OnRow(p), RowAdds, TargetsAdd, ClusterLess, row' = Gone => row = Gone,
         strays' = strays, pc[p] \notin {"service", "launch", "noteRouter", "noteFront"}
  PROVE  OnRow(p)'
<1>1. \A v \in Versions : Left(v)' => Launched(v)' \/ v \in strays'.versions
  BY DEF OnRow, ClusterLess, TargetsAdd, Launched
<1>2. router' # "absent" => RouterNamed' \/ strays'.router
  BY DEF OnRow, ClusterLess, RowAdds, RouterNamed, Exists
<1>3. front' # None => FrontNamed' \/ strays'.front
  BY DEF OnRow, ClusterLess, RowAdds, FrontNamed, Exists
<1>4. row' = Gone => secret' = 0
  BY DEF OnRow, ClusterLess, RowAdds, Exists
<1> QED BY <1>1, <1>2, <1>3, <1>4 DEF OnRow

LEMMA SameAdds ==
  /\ UNCHANGED row => RowAdds
  /\ UNCHANGED targets => TargetsAdd
  /\ UNCHANGED cluster => ClusterLess
BY DEF RowAdds, TargetsAdd, ClusterLess, Left, cluster

LEMMA RowColumns ==
  ASSUME NEW r \in Row
  PROVE  /\ \A s \in Statuses : LET n == [r EXCEPT !.status = s] IN n.router = r.router /\ n.k8s = r.k8s
         /\ \A f \in Column : LET n == [r EXCEPT !.serving = f] IN n.router = r.router /\ n.k8s = r.k8s
         /\ \A up \in BOOLEAN : LET n == [r EXCEPT !.routerUp = up] IN n.router = r.router /\ n.k8s = r.k8s
         /\ [r EXCEPT !.router = TRUE].router /\ [r EXCEPT !.router = TRUE].k8s = r.k8s
         /\ [r EXCEPT !.k8s = TRUE].k8s /\ [r EXCEPT !.k8s = TRUE].router = r.router
         /\ [r EXCEPT !.router = FALSE, !.routerUp = FALSE].k8s = r.k8s
BY DEF Row

LEMMA RowAddsOf ==
  ASSUME TypeOK, Exists
  PROVE  /\ \A s \in Statuses : row' = [row EXCEPT !.status = s] => RowAdds
         /\ \A f \in Column : row' = [row EXCEPT !.serving = f] => RowAdds
         /\ \A up \in BOOLEAN : row' = [row EXCEPT !.routerUp = up] => RowAdds
<1>1. row \in Row
  BY TypeParts
<1>2. ASSUME row' \in Row, row'.router = row.router, row'.k8s = row.k8s PROVE RowAdds
  <2>1. row' # None /\ row' # Gone
    BY <1>2, RowFields
  <2> QED BY <1>2, <2>1 DEF RowAdds, Exists
<1>3. ASSUME NEW s \in Statuses, row' = [row EXCEPT !.status = s] PROVE RowAdds
  <2>1. row'.router = row.router /\ row'.k8s = row.k8s
    BY <1>1, <1>3, RowColumns
  <2>2. row' \in Row
    BY <1>1, <1>3, RowFields
  <2> QED BY <1>2, <2>1, <2>2
<1>4. ASSUME NEW f \in Column, row' = [row EXCEPT !.serving = f] PROVE RowAdds
  <2>1. row'.router = row.router /\ row'.k8s = row.k8s
    BY <1>1, <1>4, RowColumns
  <2>2. row' \in Row
    BY <1>1, <1>4, RowFields
  <2> QED BY <1>2, <2>1, <2>2
<1>5. ASSUME NEW up \in BOOLEAN, row' = [row EXCEPT !.routerUp = up] PROVE RowAdds
  <2>1. row'.router = row.router /\ row'.k8s = row.k8s
    BY <1>1, <1>5, RowColumns
  <2>2. row' \in Row
    BY <1>1, <1>5, RowFields
  <2> QED BY <1>2, <2>1, <2>2
<1> QED BY <1>3, <1>4, <1>5

(* The version a loop is at *)
LEMMA FirstOf ==
  ASSUME TypeOK, NEW p \in Procs, todo[p] # {} PROVE Lowest(todo[p]) \in todo[p] /\ todo[p] \subseteq Versions
BY TypeParts, LowestIn

LEMMA PodsLess ==
  ASSUME TypeOK, NEW v, pods' = [pods EXCEPT ![v] = "absent"] \/ pods' = pods,
         services' \subseteq services
  PROVE  \A w \in Versions : Left(w)' => Left(w)
BY TypeParts DEF Left

(* The columns of what was left unrecorded *)
LEMMA StraysColumns ==
  ASSUME TypeOK
  PROVE  /\ \A S : LET n == [strays EXCEPT !.versions = S]
                  IN n.versions = S /\ n.router = strays.router /\ n.front = strays.front
         /\ \A b : LET n == [strays EXCEPT !.router = b]
                  IN n.versions = strays.versions /\ n.router = b /\ n.front = strays.front
         /\ \A b : LET n == [strays EXCEPT !.front = b]
                  IN n.versions = strays.versions /\ n.router = strays.router /\ n.front = b
BY TypeParts DEF Strays

LEMMA RequestOrphan ==
  ASSUME TypeOK, CalmInv, NEW o \in Operators, Request(o), ~Overlap, Accounted
  PROVE  OrphanInv'
<1>0. /\ o \in Procs /\ Others(o) /\ MayStart(o) /\ UNCHANGED <<row, targets, cluster, strays>>
      /\ pc'[o] \in {"commit", "retire", "undeploy"}
      /\ pc'[o] = "undeploy" => todo'[o] = {v \in Served(targets) : targets[v].launched}
  BY RequestMoves DEF rows, Procs
<1>1. OthersIdle(o) /\ OnRow(o) /\ pc[o] = "idle"
  BY <1>0, OnRowOf DEF MayStart, OthersIdle
<1>2. OnRow(o)'
  BY <1>0, <1>1, OnRowKept, SameAdds
<1>3. Covers(o)' /\ Clears(o)'
  <2>1. CASE pc'[o] # "undeploy"
    BY <1>0, <2>1, FreeCovers DEF Free
  <2>2. CASE pc'[o] = "undeploy"
    <3>1. \A v \in Versions : Left(v)' => v \in todo'[o] \cup strays'.versions
      BY <1>0, <1>1, <2>2 DEF OnRow, Left, Launched, Served, cluster
    <3> QED BY <2>2, <3>1 DEF Covers, Clears
  <2> QED BY <2>1, <2>2
<1> QED BY <1>0, <1>1, <1>2, <1>3, OrphanOf

(* One step of an apply *)
LEMMA AppliesOrphan ==
  ASSUME TypeOK, Held, NEW o \in Operators, Applies(o), Fresh(o), OthersIdle(o), OnRow(o), Covers(o)
  PROVE  OrphanInv'
<1>0. o \in Procs /\ Others(o) /\ Exists /\ row \in Row /\ row # Gone
  BY HandlesKeeps, AppliesMoves, TypeParts DEF Handles, Keeps, Procs, Fresh
<1> SUFFICES OnRow(o)' /\ Covers(o)' /\ Clears(o)'
  BY <1>0, OrphanOf
<1>1. CASE ApplyReads(o)
  <2>1. pc[o] = "apply" /\ pc'[o] = "token" /\ snap'[o] = Here /\ todo'[o] = Served(targets)
        /\ UNCHANGED <<row, targets, cluster, strays>>
    BY <1>0, <1>1, LocalsOf DEF ApplyReads, rows, bounds
  <2>2. OnRow(o)'
    BY <1>0, <2>1, OnRowKept, SameAdds
  <2>3. todo'[o] \subseteq Served(targets') /\ snap'[o].row = row'
    BY <2>1 DEF Here
  <2> QED BY <2>1, <2>2, <2>3 DEF Covers, Clears
<1>2. CASE EnsureServingToken(o)
  <2>1. /\ pc[o] = "token" /\ pc'[o] \in {"secret", "targets"}
        /\ UNCHANGED <<row, targets, cluster, snap, todo, strays>>
    BY <1>0, <1>2, LocalsOf DEF EnsureServingToken, rows, bounds
  <2>2. OnRow(o)'
    BY <1>0, <2>1, OnRowKept, SameAdds
  <2> QED BY <2>1, <2>2 DEF Covers, Clears
<1>3. CASE ApplySecret(o)
  <2>1. /\ pc[o] = "secret" /\ pc'[o] = "targets"
        /\ UNCHANGED <<row, targets, pods, services, router, front, snap, todo, strays>>
    BY <1>0, <1>3, LocalsOf DEF ApplySecret, rows, bounds
  <2>2. OnRow(o)'
    BY <1>0, <2>1 DEF OnRow, Left, Launched, RouterNamed, FrontNamed, Exists
  <2> QED BY <2>1, <2>2 DEF Covers, Clears
<1>4. CASE ApplyTarget(o) \/ ApplyTargetService(o)
  <2> DEFINE v == Lowest(todo[o])
  <2>1. /\ \/ pc[o] = "targets" /\ pc'[o] = "service"
           \/ pc[o] = "service" /\ pc'[o] = "launch"
        /\ todo[o] # {}
        /\ UNCHANGED <<row, targets, router, front, secret, snap, todo, strays>>
    BY <1>0, <1>4, LocalsOf DEF ApplyTarget, ApplyTargetService, rows, bounds, Held
  <2>2. v \in todo[o] /\ v \in Versions
    BY <1>0, <2>1, FirstOf
  <2>3. \A w \in Versions : Left(w)' => w = v \/ Left(w)
    BY <1>4, TypeParts DEF ApplyTarget, ApplyTargetService, Left
  <2>4. OnRow(o)'
    BY <1>0, <2>1, <2>3 DEF OnRow, Launched, RouterNamed, FrontNamed, Exists
  <2> QED BY <2>1, <2>4 DEF Covers, Clears
<1>5. CASE RecordTargetLaunch(o)
  <2> DEFINE v == Lowest(todo[o])
             rest == todo[o] \ {v}
             r == [targets[v] EXCEPT !.launched = TRUE]
             S == IF targets[v] = None THEN strays.versions ELSE strays.versions \ {v}
  <2>1. /\ pc[o] = "launch" /\ pc'[o] \in {"router", "targets"} /\ todo'[o] = rest
        /\ UNCHANGED <<row, cluster, snap>>
        /\ targets' = [targets EXCEPT ![v] = IF targets[v] = None THEN targets[v] ELSE r]
        /\ strays' = [strays EXCEPT !.versions = S]
    <3>1. Goto(o, "router") \/ Goto(o, "targets")
      BY <1>5 DEF RecordTargetLaunch
    <3> QED BY <1>0, <1>5, <3>1, TypeParts, LocalsOf DEF RecordTargetLaunch
  <2>2. v \in todo[o] /\ v \in Versions /\ targets[v] # None /\ targets \in Targets
    BY <1>0, <2>1, FirstOf, TypeParts DEF Covers, Served
  <2>3. targets[v] \in Target
    BY <2>2 DEF Targets
  <2>4. r \in Target /\ r.launched /\ r # None
    BY <2>3, TargetFields DEF Target
  <2>a. S = strays.versions \ {v}
    BY <2>2
  <2> HIDE DEF r, S
  <2>5. targets' = [targets EXCEPT ![v] = r]
    BY <2>1, <2>2
  <2>6. targets'[v] = r /\ \A w \in Versions \ {v} : targets'[w] = targets[w]
    BY <2>2, <2>5 DEF Targets
  <2>b. strays'.versions = S /\ strays'.router = strays.router /\ strays'.front = strays.front
    BY <2>1, StraysColumns
  <2>7. OnRow(o)'
    <3>1. \A w \in Versions : Left(w)' => Launched(w)' \/ w \in strays'.versions
      BY <2>1, <2>4, <2>6, <2>a, <2>b DEF OnRow, Left, Launched, cluster
    <3> QED BY <2>1, <2>b, <3>1 DEF OnRow, RouterNamed, FrontNamed, Exists, cluster
  <2>8. rest \subseteq Served(targets')
    BY <2>1, <2>6 DEF Covers, Served
  <2>9. snap'[o].row.router => row'.router
    BY <2>1 DEF Covers
  <2> QED BY <2>1, <2>7, <2>8, <2>9 DEF Covers, Clears
<1>6. CASE ApplyRouter(o)
  <2>1. /\ pc[o] = "router" /\ UNCHANGED <<row, targets, pods, services, front, secret, snap, todo, strays>>
        /\ pc'[o] = "noteRouter" \/ (pc'[o] = "front" /\ router' = router)
    BY <1>0, <1>6, LocalsOf DEF ApplyRouter, rows, bounds
  <2>2. OnRow(o)'
    BY <1>0, <2>1 DEF OnRow, Left, Launched, RouterNamed, FrontNamed, Exists
  <2> QED BY <2>1, <2>2 DEF Covers, Clears
<1>7. CASE RecordRouter(o)
  <2>1. /\ pc[o] = "noteRouter" /\ pc'[o] = "front" /\ UNCHANGED <<targets, cluster>>
        /\ row' = IF ~snap[o].row.router THEN [row EXCEPT !.router = TRUE] ELSE row
        /\ strays'.versions = strays.versions /\ strays'.front = strays.front
    BY <1>0, <1>7, LocalsOf, StraysColumns DEF RecordRouter
  <2>2. Exists' /\ row'.router /\ row'.k8s = row.k8s /\ row' # Gone
    <3>1. row' \in Row /\ row'.router /\ row'.k8s = row.k8s
      BY <1>0, <2>1, RowFields, RowColumns DEF Covers
    <3>2. row' # None /\ row' # Gone
      BY <3>1, RowFields
    <3> QED BY <3>1, <3>2 DEF Exists
  <2>3. OnRow(o)'
    BY <1>0, <2>1, <2>2 DEF OnRow, Left, Launched, RouterNamed, FrontNamed, cluster
  <2> QED BY <2>1, <2>3 DEF Covers, Clears
<1>8. CASE ApplyService(o)
  <2>1. /\ pc[o] = "front" /\ UNCHANGED <<row, targets, pods, services, router, secret, strays>>
        /\ pc'[o] = "noteFront" \/ (pc'[o] = "judge" /\ front' = front)
    BY <1>0, <1>8, LocalsOf DEF ApplyService, rows, bounds
  <2>2. OnRow(o)'
    BY <1>0, <2>1 DEF OnRow, Left, Launched, RouterNamed, FrontNamed, Exists
  <2> QED BY <2>1, <2>2 DEF Covers, Clears
<1>9. CASE RecordLaunch(o)
  <2>1. /\ pc[o] = "noteFront" /\ pc'[o] = "noteServing" /\ UNCHANGED <<targets, cluster>>
        /\ row' = [row EXCEPT !.k8s = TRUE]
        /\ strays'.versions = strays.versions /\ strays'.router = strays.router
    BY <1>0, <1>9, LocalsOf, StraysColumns DEF RecordLaunch
  <2>2. Exists' /\ row'.k8s /\ row'.router = row.router /\ row' # Gone
    <3>1. row' \in Row /\ row'.k8s /\ row'.router = row.router
      BY <1>0, <2>1, RowFields, RowColumns
    <3>2. row' # None /\ row' # Gone
      BY <3>1, RowFields
    <3> QED BY <3>1, <3>2 DEF Exists
  <2>3. OnRow(o)'
    BY <1>0, <2>1, <2>2 DEF OnRow, Left, Launched, RouterNamed, FrontNamed, cluster
  <2> QED BY <2>1, <2>3 DEF Covers, Clears
<1>10. CASE RecordServingVersion(o) \/ ApplyJudges(o)
  <2> DEFINE f == ServingColumn(DesiredFront(snap[o].targets))
             now == RollUpStatus(row, targets, snap[o].row.status)
  <2>1. f \in Column /\ now \in Statuses
    BY DesiredTyped, RollUpTyped
  <2>2. /\ pc[o] \in {"noteServing", "judge"} /\ pc'[o] \in {"judge", "removeRouter"}
        /\ UNCHANGED <<targets, cluster, strays>>
        /\ row' = [row EXCEPT !.serving = f] \/ row' = [row EXCEPT !.status = now]
    BY <1>0, <1>10, LocalsOf DEF RecordServingVersion, ApplyJudges, bounds
  <2> HIDE DEF f, now
  <2>3. RowAdds /\ row' # Gone
    BY <1>0, <2>1, <2>2, RowAddsOf, RowFields
  <2>4. OnRow(o)'
    BY <1>0, <2>2, <2>3, OnRowKept, SameAdds
  <2> QED BY <1>0, <2>2, <2>4, FreeCovers DEF Free
<1> QED BY <1>1, <1>2, <1>3, <1>4, <1>5, <1>6, <1>7, <1>8, <1>9, <1>10 DEF Applies

LEMMA TidiesOrphan ==
  ASSUME TypeOK, Held, NEW p \in Procs, Tidies(p), Fresh(p), OthersIdle(p), OnRow(p), Covers(p)
  PROVE  OrphanInv'
<1>0. Others(p) /\ Exists /\ row \in Row /\ row # Gone
  BY TidiesKeeps, TidiesMoves, TypeParts DEF Keeps, Fresh
<1>a. strays' = strays
  BY DEF Tidies, RemoveRouter, ForgetRouter, ReapLists, ReapDeletes, ReapDeletesService, bounds
<1> SUFFICES OnRow(p)' /\ Covers(p)' /\ Clears(p)'
  BY <1>0, OrphanOf
<1>1. CASE RemoveRouter(p)
  <2>1. /\ pc[p] = "removeRouter" /\ UNCHANGED <<row, targets, pods, services, front, secret>>
        /\ \/ pc'[p] = "forgetRouter" /\ router' = "absent"
           \/ pc'[p] = "reap" /\ router' = router
    BY <1>1, LocalsOf DEF RemoveRouter, rows
  <2>2. OnRow(p)'
    BY <1>a, <2>1, OnRowKept, SameAdds DEF ClusterLess, Left
  <2> QED BY <2>1, <2>2 DEF Covers, Clears
<1>2. CASE ForgetRouter(p)
  <2>1. /\ pc[p] = "forgetRouter" /\ pc'[p] = "reap" /\ router = "absent" /\ UNCHANGED <<targets, cluster>>
        /\ row' = [row EXCEPT !.router = FALSE, !.routerUp = FALSE]
    BY <1>0, <1>2, LocalsOf DEF ForgetRouter, Covers
  <2>2. row' \in Row /\ row'.k8s = row.k8s
    BY <1>0, <2>1, RowFields, RowColumns
  <2>3. Exists' /\ row' # Gone
    BY <2>2, RowFields DEF Exists
  <2>4. OnRow(p)'
    BY <1>0, <1>a, <2>1, <2>2, <2>3 DEF OnRow, Left, Launched, RouterNamed, FrontNamed, cluster
  <2> QED BY <2>1, <2>4 DEF Covers, Clears
<1>3. CASE ReapLists(p) \/ ReapDeletes(p) \/ ReapDeletesService(p)
  <2>1. /\ pc[p] \in {"reap", "delete", "deleteService"} /\ pc'[p] \in Free
        /\ UNCHANGED <<row, targets, router, front, secret>> /\ services' \subseteq services
        /\ \/ UNCHANGED pods \/ pods' = [pods EXCEPT ![Lowest(todo[p])] = "absent"]
    <3>1. CASE ReapLists(p)
      BY <3>1, LocalsOf, ReapedMoves DEF ReapLists, rows, cluster, Free
    <3>2. CASE ReapDeletes(p)
      BY <3>2, LocalsOf DEF ReapDeletes, rows, Free
    <3>3. CASE ReapDeletesService(p)
      BY <3>3, LocalsOf, ReapedMoves DEF ReapDeletesService, rows, Free
    <3> QED BY <1>3, <3>1, <3>2, <3>3
  <2>2. ClusterLess
    BY <2>1, PodsLess DEF ClusterLess
  <2>3. OnRow(p)'
    BY <1>a, <2>1, <2>2, OnRowKept, SameAdds
  <2> QED BY <2>1, <2>3, FreeCovers
<1> QED BY <1>1, <1>2, <1>3 DEF Tidies

LEMMA CommitsOrphan ==
  ASSUME TypeOK, TypeOK', Held, CalmInv, NEW o \in Operators, OthersIdle(o), OnRow(o),
         CommitFails(o) \/ CommitDeploy(o) \/ CommitRollout(o)
  PROVE  OrphanInv'
<1>0. o \in Procs /\ Others(o)
  BY HandlesKeeps DEF Handles, Keeps, Procs
<1>1. pc[o] = "commit" /\ pc'[o] \in Free /\ UNCHANGED <<cluster, strays>>
  BY <1>0, LocalsOf DEF CommitFails, CommitDeploy, CommitRollout, bounds, Free
<1>2. RowAdds /\ row' # Gone
  <2>1. row # Gone
    BY <1>0, <1>1 DEF CalmInv, Fresh
  <2>2. NewRow # Gone
    BY NullsTyped, RowFields
  <2> QED BY <2>1, <2>2 DEF CommitFails, CommitDeploy, CommitRollout, rows, RowAdds
<1>3. TargetsAdd
  <2>1. ASSUME NEW v \in Versions, NEW w \in 0 .. TOTAL_WEIGHT, targets[v] # None
        PROVE  Weighed(targets[v], w) # None /\ Weighed(targets[v], w).launched = targets[v].launched
    <3>1. targets[v] \in Target
      BY <2>1, TypeParts DEF Targets
    <3>2. Weighed(targets[v], w) = [targets[v] EXCEPT !.weight = w]
      BY <2>1 DEF Weighed
    <3>3. [targets[v] EXCEPT !.weight = w].launched = targets[v].launched
      BY <3>1 DEF Target
    <3>4. [targets[v] EXCEPT !.weight = w] # None
      <4>1. [targets[v] EXCEPT !.weight = w] \in Target
        BY <3>1, TargetFields
      <4> QED BY <4>1, TargetFields
    <3> QED BY <3>2, <3>3, <3>4
  <2>2. 0 \in 0 .. TOTAL_WEIGHT /\ TOTAL_WEIGHT \in 0 .. TOTAL_WEIGHT
    BY DEF TOTAL_WEIGHT
  <2>3. CASE CommitFails(o)
    BY <2>3 DEF CommitFails, rows, TargetsAdd
  <2>4. CASE CommitDeploy(o)
    BY <2>1, <2>2, <2>4 DEF CommitDeploy, TargetsAdd
  <2>5. CASE CommitRollout(o)
    <3> DEFINE next == RolledOut(o)
    <3>1. ValidWeights(next)
      BY <2>5 DEF CommitRollout
    <3>2. targets' = [v \in Versions |->
            IF v \in DOMAIN next /\ (targets[v] # None \/ snap[o].targets[v] = None)
            THEN Weighed(targets[v], next[v]) ELSE targets[v]]
      BY <2>5 DEF CommitRollout
    <3> HIDE DEF next
    <3>3. \A v \in DOMAIN next : next[v] \in 0 .. TOTAL_WEIGHT
      BY <3>1 DEF ValidWeights
    <3> QED BY <2>1, <3>2, <3>3 DEF TargetsAdd
  <2> QED BY <2>3, <2>4, <2>5
<1>4. OnRow(o)'
  BY <1>0, <1>1, <1>2, <1>3, OnRowKept, SameAdds
<1> QED BY <1>0, <1>1, <1>4, FreeCovers, OrphanOf

LEMMA RemovalOrphan ==
  ASSUME TypeOK, Held, NEW o \in Operators, OthersIdle(o), OnRow(o), Fresh(o), Clears(o),
         \/ RetireDeletes(o) \/ RetireDeletesService(o) \/ RemoveTarget(o)
         \/ UndeployDeletes(o) \/ UndeployDeletesService(o) \/ UndeployRouter(o)
         \/ UndeployFront(o) \/ DeleteSecret(o) \/ DeleteRow(o)
  PROVE  OrphanInv'
<1>0. o \in Procs /\ Others(o) /\ pods \in [Versions -> PodStates] /\ strays' = strays
  BY HandlesKeeps, TypeParts
     DEF Handles, Keeps, Procs, RetireDeletes, RetireDeletesService, RemoveTarget, UndeployDeletes,
         UndeployDeletesService, UndeployRouter, UndeployFront, DeleteSecret, DeleteRow, bounds
<1>a. Exists /\ row # Gone /\ snap[o].row = row /\ snap[o].targets = targets
  BY DEF Fresh, Reading, RetireDeletes, RetireDeletesService, RemoveTarget, UndeployDeletes,
         UndeployDeletesService, UndeployRouter, UndeployFront, DeleteSecret, DeleteRow
<1> SUFFICES OnRow(o)' /\ Covers(o)' /\ Clears(o)'
  BY <1>0, OrphanOf
<1>1. CASE RetireDeletes(o)
  <2> DEFINE v == ask[o].version
  <2>1. /\ pc[o] = "retire" /\ UNCHANGED <<row, targets, services, router, front, secret, ask>>
        /\ \/ pc'[o] = "retireService" /\ pods' = [pods EXCEPT ![v] = "absent"]
           \/ pc'[o] = "removeTarget" /\ pods' = pods /\ ~targets[v].launched
    BY <1>0, <1>a, <1>1, LocalsOf DEF RetireDeletes, rows
  <2>2. v \in Versions
    BY <2>1, ServedIn DEF Fresh
  <2>3. ClusterLess
    BY <2>1, PodsLess DEF ClusterLess
  <2>4. OnRow(o)'
    BY <1>0, <2>1, <2>3, OnRowKept, SameAdds
  <2>5. CASE pc'[o] = "retireService"
    <3>1. pods'[v] = "absent"
      BY <1>0, <2>1, <2>2, <2>5
    <3> QED BY <2>1, <2>4, <2>5, <3>1 DEF Covers, Clears
  <2>6. CASE pc'[o] = "removeTarget"
    <3>1. Left(v)' => v \in strays'.versions
      BY <1>0, <2>1, <2>2, <2>6 DEF OnRow, Left, Launched
    <3> QED BY <2>1, <2>4, <2>6, <3>1 DEF Covers, Clears
  <2> QED BY <2>1, <2>5, <2>6
<1>2. CASE RetireDeletesService(o)
  <2> DEFINE v == ask[o].version
  <2>1. /\ pc[o] = "retireService" /\ pc'[o] = "removeTarget" /\ services' = services \ {v}
        /\ UNCHANGED <<row, targets, pods, router, front, secret, ask>> /\ pods[v] = "absent"
    BY <1>0, <1>2, LocalsOf DEF RetireDeletesService, Clears, rows
  <2>2. ClusterLess /\ ~Left(v)'
    BY <2>1 DEF ClusterLess, Left
  <2>3. OnRow(o)'
    BY <1>0, <2>1, <2>2, OnRowKept, SameAdds
  <2> QED BY <2>1, <2>2, <2>3 DEF Covers, Clears
<1>3. CASE RemoveTarget(o)
  <2> DEFINE v == ask[o].version
  <2>1. /\ pc[o] = "removeTarget" /\ pc'[o] = "idle" /\ UNCHANGED <<row, cluster>>
        /\ Left(v) => v \in strays.versions
        /\ targets' = [targets EXCEPT ![v] = None] /\ targets \in Targets
    BY <1>0, <1>3, LocalsOf, TypeParts DEF RemoveTarget, Clears
  <2>2. \A w \in Versions : w # v => targets'[w] = targets[w]
    BY <2>1 DEF Targets
  <2>3. \A w \in Versions : Left(w)' => Launched(w)' \/ w \in strays'.versions
    BY <1>0, <2>1, <2>2 DEF OnRow, Left, Launched, cluster
  <2>4. OnRow(o)'
    BY <1>0, <2>1, <2>3 DEF OnRow, RouterNamed, FrontNamed, Exists, cluster
  <2> QED BY <1>0, <2>1, <2>4, FreeCovers DEF Free
<1>4. CASE UndeployDeletes(o)
  <2> DEFINE v == Lowest(todo[o])
  <2>1. /\ pc[o] = "undeploy" /\ pc'[o] = "undeployService" /\ todo[o] # {}
        /\ UNCHANGED <<row, targets, services, router, front, secret, todo>>
        /\ pods' = [pods EXCEPT ![v] = "absent"]
    BY <1>0, <1>4, LocalsOf DEF UndeployDeletes, rows
  <2>2. ClusterLess
    BY <2>1, PodsLess DEF ClusterLess
  <2>3. pods'[Lowest(todo'[o])] = "absent" /\ todo'[o] # {}
    BY <1>0, <2>1, FirstOf
  <2>4. OnRow(o)'
    BY <1>0, <2>1, <2>2, OnRowKept, SameAdds
  <2>5. \A w \in Versions : Left(w)' => w \in todo'[o] \cup strays'.versions
    BY <1>0, <2>1, <2>2 DEF Clears, ClusterLess
  <2> QED BY <2>1, <2>3, <2>4, <2>5 DEF Covers, Clears
<1>5. CASE UndeployDeletesService(o)
  <2> DEFINE v == Lowest(todo[o])
  <2>1. /\ pc[o] = "undeployService" /\ pc'[o] = "undeploy" /\ todo'[o] = todo[o] \ {v}
        /\ UNCHANGED <<row, targets, pods, router, front, secret>>
        /\ services' = services \ {v} /\ pods[v] = "absent"
    BY <1>0, <1>5, LocalsOf DEF UndeployDeletesService, Clears, rows
  <2>2. ClusterLess /\ \A w \in Versions : Left(w)' => w # v
    BY <2>1 DEF ClusterLess, Left
  <2>3. OnRow(o)'
    BY <1>0, <2>1, <2>2, OnRowKept, SameAdds
  <2>4. \A w \in Versions : Left(w)' => w \in todo'[o] \cup strays'.versions
    BY <1>0, <2>1, <2>2 DEF Clears, ClusterLess
  <2> QED BY <2>1, <2>3, <2>4 DEF Covers, Clears
<1>6. CASE UndeployRouter(o)
  <2>1. /\ pc[o] = "undeploy" /\ pc'[o] = "undeployFront" /\ todo[o] = {}
        /\ UNCHANGED <<row, targets, pods, services, front, secret>>
        /\ router' = IF row.router THEN "absent" ELSE router
    BY <1>0, <1>a, <1>6, LocalsOf DEF UndeployRouter, rows
  <2>2. router' # "absent" => strays'.router
    BY <1>0, <2>1 DEF OnRow, RouterNamed
  <2>3. \A w \in Versions : Left(w)' => w \in strays'.versions
    BY <1>0, <2>1 DEF Clears, Left
  <2>4. OnRow(o)'
    BY <1>0, <2>1, <2>2, <2>3 DEF OnRow, FrontNamed, Exists
  <2> QED BY <2>1, <2>2, <2>3, <2>4 DEF Covers, Clears
<1>7. CASE UndeployFront(o)
  <2>1. /\ pc[o] = "undeployFront" /\ pc'[o] = "undeploySecret"
        /\ UNCHANGED <<row, targets, pods, services, router, secret>>
        /\ front' = IF row.k8s THEN None ELSE front
    BY <1>0, <1>a, <1>7, LocalsOf DEF UndeployFront, rows
  <2>2. front' # None => strays'.front
    BY <1>0, <2>1 DEF OnRow, FrontNamed
  <2>3. /\ \A w \in Versions : Left(w)' => w \in strays'.versions
        /\ router' # "absent" => strays'.router
    BY <1>0, <2>1 DEF Clears, Left
  <2>4. OnRow(o)'
    BY <1>a, <2>1, <2>2, <2>3 DEF OnRow
  <2> QED BY <2>1, <2>2, <2>3, <2>4 DEF Covers, Clears
<1>8. CASE DeleteSecret(o)
  <2>1. /\ pc[o] = "undeploySecret" /\ pc'[o] = "undeployRow"
        /\ UNCHANGED <<row, targets, pods, services, router, front>> /\ secret' = 0
    BY <1>0, <1>8, LocalsOf DEF DeleteSecret, rows
  <2>2. /\ \A w \in Versions : Left(w)' => w \in strays'.versions
        /\ router' # "absent" => strays'.router
        /\ front' # None => strays'.front
    BY <1>0, <2>1 DEF Clears, Left
  <2>3. OnRow(o)'
    BY <2>1, <2>2 DEF OnRow
  <2> QED BY <2>1, <2>2, <2>3 DEF Covers, Clears
<1>9. CASE DeleteRow(o)
  <2>1. pc[o] = "undeployRow" /\ pc'[o] = "idle" /\ UNCHANGED cluster
    BY <1>0, <1>9, LocalsOf DEF DeleteRow
  <2>2. /\ \A w \in Versions : Left(w)' => w \in strays'.versions
        /\ router' # "absent" => strays'.router
        /\ front' # None => strays'.front
        /\ secret' = 0
    BY <1>0, <2>1 DEF Clears, Left, cluster
  <2>3. OnRow(o)'
    BY <2>1, <2>2 DEF OnRow
  <2> QED BY <1>0, <2>1, <2>3, FreeCovers DEF Free
<1> QED BY <1>1, <1>2, <1>3, <1>4, <1>5, <1>6, <1>7, <1>8, <1>9

LEMMA SyncsOrphan ==
  ASSUME ~Overlap, TypeOK, Held, Syncs, Fresh(Sync), OthersIdle(Sync), OnRow(Sync), Covers(Sync)
  PROVE  OrphanInv'
<1>0. /\ Sync \in Procs /\ Others(Sync) /\ targets \in Targets /\ pods \in [Versions -> PodStates]
      /\ row # Gone
  <2>1. SyncLists => row # Gone
    BY DEF SyncLists, Exists
  <2>2. ~SyncLists => pc[Sync] # "idle"
    BY TidiesMoves DEF Syncs, ObserveTarget, ObserveRouter, MoveFrontDoor, RecordMove, ScaleDown,
                       SyncJudges, Procs
  <2> QED BY <2>1, <2>2, SyncKeeps, TypeParts DEF Procs, Fresh
<1> SUFFICES ASSUME ~Tidies(Sync) PROVE OnRow(Sync)' /\ Covers(Sync)' /\ Clears(Sync)'
  BY <1>0, TidiesOrphan, OrphanOf
<1>a. strays' = strays
  BY DEF Syncs, SyncLists, ObserveTarget, ObserveRouter, MoveFrontDoor, RecordMove, ScaleDown, SyncJudges,
         bounds
<1>1. CASE SyncLists
  <2>1. UNCHANGED <<row, targets, cluster>> /\ snap'[Sync] = Here /\ pc[Sync] = "idle"
        /\ pc'[Sync] \in {"observe", "observeRouter"}
    <3>1. Goto(Sync, "observe") \/ Goto(Sync, "observeRouter")
      BY <1>1 DEF SyncLists, SyncNext
    <3> QED BY <1>0, <1>1, <3>1, LocalsOf DEF SyncLists, rows, MayStart
  <2>2. OnRow(Sync)'
    BY <1>0, <2>1, <1>a, OnRowKept, SameAdds
  <2>3. snap'[Sync].targets = targets'
    BY <2>1 DEF Here
  <2>4. \A v \in Served(snap'[Sync].targets) :
          targets'[v] # None /\ (snap'[Sync].targets[v].launched => targets'[v].launched)
    BY <2>3 DEF Served
  <2> QED BY <2>1, <2>2, <2>4 DEF Covers, Clears
<1>2. CASE ObserveTarget
  <2> DEFINE v    == Lowest(todo[Sync])
             old  == snap[Sync].targets[v].status
             now  == StatusFromObservation(pods[v], old)
             r    == [targets[v] EXCEPT !.status = now]
             seen == [snap[Sync].targets[v] EXCEPT !.status = now]
             all  == [snap[Sync].targets EXCEPT ![v] = seen]
  <2>1. /\ pc[Sync] = "observe" /\ UNCHANGED <<row, cluster>>
        /\ v \in Served(snap[Sync].targets) /\ v \in Versions
        /\ snap[Sync] \in Snap /\ snap[Sync].targets \in Targets
    <3>1. pc[Sync] = "observe" /\ UNCHANGED <<row, cluster>>
      BY <1>2 DEF ObserveTarget
    <3> QED BY <1>0, <3>1, HeldRow, LowestIn, ServedIn DEF Held
  <2>2. /\ targets' = [targets EXCEPT ![v] = IF targets[v] = None \/ now = old THEN targets[v] ELSE r]
        /\ snap'[Sync] = [snap[Sync] EXCEPT !.targets = all]
        /\ Goto(Sync, "observe") \/ Goto(Sync, "observeRouter")
    BY <1>0, <1>2, LocalsOf DEF ObserveTarget, SyncNext
  <2>3. now \in Statuses /\ targets[v] # None
    BY <2>1, ObservedTyped DEF Covers
  <2>4. targets[v] \in Target /\ snap[Sync].targets[v] \in Target
    BY <1>0, <2>1, <2>3 DEF Targets, Served
  <2> HIDE DEF now, old
  <2>5. r # None /\ r.launched = targets[v].launched
    <3>1. r \in Target
      BY <2>3, <2>4, TargetFields
    <3> QED BY <2>4, <3>1, TargetFields DEF Target
  <2>6. seen # None /\ seen.launched = snap[Sync].targets[v].launched
    <3>1. seen \in Target
      BY <2>3, <2>4, TargetFields
    <3> QED BY <2>4, <3>1, TargetFields DEF Target
  <2> HIDE DEF r, seen, v
  <2>7. \A w \in Versions : /\ targets'[w] = None <=> targets[w] = None
                            /\ targets'[w].launched = targets[w].launched
    BY <1>0, <2>1, <2>2, <2>3, <2>5 DEF Targets
  <2>8. \A w \in Served(all) : w \in Served(snap[Sync].targets)
                               /\ all[w].launched = snap[Sync].targets[w].launched
    BY <2>1, <2>6 DEF Targets, Served
  <2> HIDE DEF all
  <2>9. snap'[Sync].targets = all
    BY <2>1, <2>2 DEF Snap
  <2>10. OnRow(Sync)'
    <3>1. TargetsAdd
      BY <2>7 DEF TargetsAdd
    <3> QED BY <1>0, <2>1, <3>1, <1>a, OnRowKept, SameAdds
  <2>11. \A w \in Served(snap'[Sync].targets) :
           targets'[w] # None /\ (snap'[Sync].targets[w].launched => targets'[w].launched)
    BY <2>1, <2>7, <2>8, <2>9, ServedIn DEF Covers
  <2>12. pc'[Sync] \in {"observe", "observeRouter"}
    BY <1>0, <2>2, LocalsOf
  <2> QED BY <2>10, <2>11, <2>12 DEF Covers, Clears
<1>3. CASE ObserveRouter
  <2> DEFINE up == router = "ready"
  <2>1. /\ pc[Sync] = "observeRouter" /\ pc'[Sync] = "move" /\ UNCHANGED <<targets, cluster>>
        /\ row' = row \/ (Exists /\ row' = [row EXCEPT !.routerUp = up])
    BY <1>0, <1>3, LocalsOf DEF ObserveRouter
  <2>2. snap'[Sync].targets = snap[Sync].targets
    <3>1. snap[Sync] \in Snap
      BY TypeParts
    <3>2. snap' = snap \/ snap'[Sync] = [snap[Sync] EXCEPT !.row.routerUp = up]
      BY <1>0, <1>3, LocalsOf DEF ObserveRouter
    <3> QED BY <3>1, <3>2 DEF Snap
  <2>3. RowAdds /\ row' # Gone
    <3>1. up \in BOOLEAN
      OBVIOUS
    <3> HIDE DEF up
    <3> QED BY <1>0, <2>1, <3>1, RowAddsOf, RowFields, TypeParts DEF RowAdds
  <2>4. OnRow(Sync)'
    BY <1>0, <2>1, <2>3, <1>a, OnRowKept, SameAdds
  <2>5. \A v \in Served(snap'[Sync].targets) :
          targets'[v] # None /\ (snap'[Sync].targets[v].launched => targets'[v].launched)
    BY <2>1, <2>2 DEF Covers
  <2> QED BY <2>1, <2>4, <2>5 DEF Covers, Clears
<1>4. CASE MoveFrontDoor
  <2>1. /\ pc[Sync] = "move" /\ UNCHANGED <<row, targets, pods, services, router, secret>>
        /\ \/ pc'[Sync] \in {"judge", "idle"} /\ front' = front
           \/ pc'[Sync] = "noteMove" /\ front # None /\ UNCHANGED snap
    BY <1>0, <1>4, LocalsOf DEF MoveFrontDoor, rows
  <2>2. OnRow(Sync)'
    BY <1>0, <1>a, <2>1, OnRowKept, SameAdds DEF ClusterLess, Left
  <2> QED BY <2>1, <2>2 DEF Covers, Clears
<1>5. CASE RecordMove
  <2> DEFINE f == ServingColumn(DesiredFront(snap[Sync].targets))
             s == [snap[Sync] EXCEPT !.row.serving = f]
             S == Retired(s)
  <2>1. /\ pc[Sync] = "noteMove" /\ UNCHANGED <<targets, cluster>> /\ f \in Column
        /\ row' = row \/ (Exists /\ row' = [row EXCEPT !.serving = f])
    BY <1>5, DesiredTyped DEF RecordMove
  <2>2. s.targets = snap[Sync].targets
    BY <1>0, TypeParts DEF Snap
  <2>3. Loop(Sync, S) /\ SyncNext(S, "scale", "removeRouter")
    BY <1>5 DEF RecordMove
  <2>4. \A v \in S : v \in Served(snap[Sync].targets) /\ snap[Sync].targets[v].launched
    BY <2>2 DEF Retired
  <2> HIDE DEF S, f
  <2>5. todo'[Sync] = S /\ pc'[Sync] = (IF S = {} THEN "removeRouter" ELSE "scale")
    BY <1>0, <2>3, LocalsOf DEF SyncNext
  <2>6. RowAdds /\ row' # Gone
    BY <1>0, <2>1, RowAddsOf, RowFields, TypeParts DEF RowAdds
  <2>7. OnRow(Sync)'
    BY <1>0, <2>1, <2>6, <1>a, OnRowKept, SameAdds
  <2>8. \A v \in S : targets'[v] # None /\ targets'[v].launched
    BY <2>1, <2>4 DEF Covers
  <2> QED BY <2>5, <2>7, <2>8 DEF Covers, Clears
<1>6. CASE ScaleDown
  <2> DEFINE v == Lowest(todo[Sync])
             rest == todo[Sync] \ {v}
             state == Applied(pods[v], WantsPods(snap[Sync], v))
  <2>1. /\ pc[Sync] = "scale" /\ UNCHANGED <<row, targets, services, router, front, secret>>
        /\ pods' = [pods EXCEPT ![v] = state]
        /\ Loop(Sync, rest) /\ SyncNext(rest, "scale", "removeRouter")
    BY <1>0, <1>6 DEF ScaleDown, ScaledDown, rows
  <2>2. v \in Versions /\ targets[v] # None /\ targets[v].launched
    BY <1>0, <2>1, FirstOf DEF Covers
  <2>3. \A w \in Versions : Left(w)' => w = v \/ Left(w)
    BY <1>0, <2>1 DEF Left
  <2>4. pc'[Sync] = (IF rest = {} THEN "removeRouter" ELSE "scale") /\ todo'[Sync] = rest
    <3> HIDE DEF rest
    <3> QED BY <1>0, <2>1, LocalsOf DEF SyncNext
  <2>5. OnRow(Sync)'
    <3>1. \A w \in Versions : Left(w)' => Launched(w)' \/ w \in strays'.versions
      BY <1>a, <2>1, <2>2, <2>3 DEF OnRow, Launched
    <3> QED BY <1>0, <1>a, <2>1, <3>1 DEF OnRow, RouterNamed, FrontNamed, Exists
  <2>6. \A w \in rest : targets'[w] # None /\ targets'[w].launched
    BY <2>1 DEF Covers
  <2> QED BY <2>4, <2>5, <2>6 DEF Covers, Clears
<1>7. CASE SyncJudges
  <2> DEFINE now == RollUpStatus(snap[Sync].row, snap[Sync].targets, snap[Sync].row.status)
  <2>1. /\ pc[Sync] = "judge" /\ pc'[Sync] = "idle" /\ UNCHANGED <<targets, cluster>> /\ now \in Statuses
        /\ row' = row \/ (Exists /\ row' = [row EXCEPT !.status = now])
    BY <1>0, <1>7, LocalsOf, RollUpTyped DEF SyncJudges
  <2> HIDE DEF now
  <2>2. RowAdds /\ row' # Gone
    BY <1>0, <2>1, RowAddsOf, RowFields, TypeParts DEF RowAdds
  <2>3. OnRow(Sync)'
    BY <1>0, <2>1, <2>2, <1>a, OnRowKept, SameAdds
  <2> QED BY <1>0, <2>1, <2>3, FreeCovers DEF Free
<1> QED BY <1>1, <1>2, <1>3, <1>4, <1>5, <1>6, <1>7 DEF Syncs

(* What a process was at when it ended is noted *)
LEMMA StrandsKeep ==
  ASSUME NEW P \in SUBSET Procs, NEW p \in P, OnRow(p), Strands(P), UNCHANGED <<targets, cluster>>,
         RowAdds, row' = Gone => row = Gone
  PROVE  /\ \A v \in Versions : Left(v)' => Launched(v)' \/ v \in strays'.versions
         /\ router' # "absent" => RouterNamed' \/ strays'.router
         /\ front' # None => FrontNamed' \/ strays'.front
         /\ row' = Gone => secret' = 0
<1>1. /\ \A v \in Versions : Left(v)' <=> Left(v)
      /\ \A v \in Versions : Launched(v)' <=> Launched(v)
      /\ router' = router /\ front' = front /\ secret' = secret
  BY DEF Left, Launched, cluster
<1>2. /\ RouterNamed => RouterNamed'
      /\ FrontNamed => FrontNamed'
  BY DEF RouterNamed, FrontNamed, RowAdds, Exists
<1>3. /\ \A v \in Versions :
           /\ v \in strays.versions => v \in strays'.versions
           /\ pc[p] \in {"service", "launch"} /\ v = Lowest(todo[p]) /\ ~Launched(v) => v \in strays'.versions
      /\ strays.router \/ (~RouterNamed /\ pc[p] = "noteRouter") => strays'.router
      /\ strays.front \/ (~FrontNamed /\ pc[p] = "noteFront") => strays'.front
  BY DEF Strands
<1> QED BY <1>1, <1>2, <1>3 DEF OnRow

LEMMA FaultOrphan ==
  ASSUME TypeOK, Held, NEW p \in Procs, CallFails(p) \/ HousekeepingFails(p),
         Fresh(p), OthersIdle(p), OnRow(p), Covers(p)
  PROVE  OrphanInv'
<1>0. Others(p) /\ row # Gone /\ UNCHANGED <<targets, cluster>>
  BY FaultKeeps DEF Fresh, CallFails, HousekeepingFails, rows
<1>1. RowAdds /\ row' # Gone
  <2>1. row' = row \/ (Exists /\ row' = [row EXCEPT !.status = "FAILED"])
    BY DEF CallFails, HousekeepingFails, rows
  <2>2. "FAILED" \in Statuses
    BY DEF Statuses
  <2> QED BY <1>0, <2>1, <2>2, RowAddsOf, RowFields, TypeParts DEF RowAdds
<1>2. CASE CallFails(p)
  <2>1. Strands({p}) /\ pc'[p] = "idle"
    BY <1>2, LocalsOf DEF CallFails
  <2>2. OnRow(p)'
    BY <1>0, <1>1, <2>1, StrandsKeep DEF OnRow
  <2> QED BY <1>0, <2>1, <2>2, FreeCovers, OrphanOf DEF Free
<1>3. CASE HousekeepingFails(p)
  <2>1. OnRow(p)'
    BY <1>0, <1>1, <1>3, OnRowKept, SameAdds DEF HousekeepingFails
  <2>2. CASE pc[p] = "scale" /\ ScaledDown
    <3> DEFINE rest == todo[Sync] \ {Lowest(todo[Sync])}
    <3>0. p = Sync
      BY <2>2 DEF Held, Procs
    <3>1. Loop(Sync, rest) /\ SyncNext(rest, "scale", "removeRouter")
      BY <2>2 DEF ScaledDown
    <3>2. rest \subseteq todo[Sync]
      OBVIOUS
    <3> HIDE DEF rest
    <3>3. pc'[p] = (IF rest = {} THEN "removeRouter" ELSE "scale") /\ todo'[p] = rest
      BY <3>0, <3>1, LocalsOf DEF SyncNext
    <3>4. \A w \in rest : targets'[w] # None /\ targets'[w].launched
      BY <1>0, <2>2, <3>0, <3>2 DEF Covers
    <3>5. Covers(p)' /\ Clears(p)'
      BY <3>3, <3>4 DEF Covers, Clears
    <3> QED BY <1>0, <2>1, <3>5, OrphanOf
  <2>3. CASE Reaped(p)
    <3>1. pc'[p] \in Free
      BY <2>3, ReapedMoves DEF Free
    <3> QED BY <1>0, <2>1, <3>1, FreeCovers, OrphanOf
  <2> QED BY <1>3, <2>2, <2>3 DEF HousekeepingFails
<1> QED BY <1>2, <1>3

LEMMA CrashOrphan ==
  ASSUME Crash, \A p \in Procs : pc[p] # "idle" => OnRow(p) PROVE OrphanInv'
<1>1. PICK p \in Procs : pc[p] # "idle"
  BY DEF Crash
<1>2. /\ OnRow(p) /\ Strands(Procs) /\ UNCHANGED <<row, targets, cluster>>
      /\ \A q \in Procs : pc'[q] = "idle"
  BY <1>1 DEF Crash, rows
<1>3. Accounted'
  BY <1>2, StrandsKeep, SameAdds DEF Accounted
<1>4. \A q \in Procs : Covers(q)' /\ Clears(q)'
  BY <1>2 DEF Covers, Clears
<1> QED BY <1>3, <1>4 DEF OrphanInv

LEMMA ClusterOrphan ==
  ASSUME TypeOK, CalmInv, OrphanInv,
         PodsStart \/ UNCHANGED vars \/ \E v \in Versions : PodFails(v) \/ LoadGivesUp(v)
  PROVE  OrphanInv'
<1>1. /\ UNCHANGED <<rows, services, front, secret, locals, strays>>
      /\ \A v \in Versions : pods'[v] # "absent" <=> pods[v] # "absent"
      /\ router' # "absent" <=> router # "absent"
  BY TypeParts DEF PodsStart, RouterStarts, PodStarts, Loading, PodFails, LoadGivesUp, vars, cluster, bounds
<1>2. \A v \in Versions : Left(v)' <=> Left(v)
  BY <1>1 DEF Left
<1>3. Accounted'
  BY <1>1, <1>2 DEF OrphanInv, Accounted, Launched, RouterNamed, FrontNamed, Exists, rows, locals
<1>4. ASSUME NEW p \in Procs PROVE Covers(p)' /\ Clears(p)'
  <2>1. Covers(p) /\ Clears(p)
    BY DEF OrphanInv
  <2>2. Covers(p)'
    BY <1>1, <2>1 DEF Covers, rows, locals, Served
  <2>3. Clears(p)'
    <3>1. UNCHANGED <<pc, ask, todo, front, secret, strays>>
      BY <1>1 DEF locals
    <3>2. pc[p] \in {"retireService", "removeTarget"} => ask[p].version \in Versions
      BY ServedIn DEF CalmInv, Fresh
    <3>3. /\ pc'[p] = "retireService" => pods'[ask'[p].version] = "absent"
          /\ \A v \in Versions : pc'[p] = "removeTarget" /\ v = ask'[p].version /\ Left(v)' =>
                                v \in strays'.versions
      BY <1>1, <1>2, <2>1, <3>1, <3>2 DEF Clears
    <3>4. pc'[p] = "undeployService" => todo'[p] # {} /\ pods'[Lowest(todo'[p])] = "absent"
      BY <1>1, <2>1, <3>1, FirstOf DEF Clears
    <3> QED BY <1>1, <1>2, <2>1, <3>1, <3>2, <3>3, <3>4 DEF Clears
  <2> QED BY <2>2, <2>3
<1> QED BY <1>3, <1>4 DEF OrphanInv

LEMMA StepOrphan ==
  ASSUME ~Overlap, TypeOK, TypeOK', Held, CalmInv, OrphanInv, [Next]_vars PROVE OrphanInv'
<1>1. ASSUME NEW p \in Procs, pc[p] # "idle" \/ \A q \in Procs : pc[q] = "idle"
      PROVE  OthersIdle(p) /\ OnRow(p) /\ Fresh(p) /\ Covers(p) /\ Clears(p)
  <2>1. OthersIdle(p)
    BY <1>1 DEF CalmInv, Alone, OthersIdle
  <2> QED BY <2>1, OnRowOf DEF OrphanInv, CalmInv
<1>2. ASSUME NEW o \in Operators, Handles(o) PROVE OrphanInv'
  <2>1. o \in Procs /\ pc[o] # "idle"
    BY <1>2, HandlesKeeps DEF Keeps, Procs
  <2> QED BY <1>1, <1>2, <2>1, CommitsOrphan, AppliesOrphan, TidiesOrphan, RemovalOrphan DEF Handles
<1>3. ASSUME NEW o \in Operators, Request(o) PROVE OrphanInv'
  BY <1>3, RequestOrphan DEF OrphanInv
<1>4. ASSUME Syncs PROVE OrphanInv'
  <2>1. Sync \in Procs /\ (pc[Sync] # "idle" \/ \A q \in Procs : pc[q] = "idle")
    BY <1>4, SyncKeeps DEF Procs, MayStart
  <2> QED BY <1>1, <1>4, <2>1, SyncsOrphan
<1>5. ASSUME NEW p \in Procs, CallFails(p) \/ HousekeepingFails(p) PROVE OrphanInv'
  <2>1. pc[p] # "idle"
    BY <1>5, FaultKeeps
  <2> QED BY <1>1, <1>5, <2>1, FaultOrphan
<1>6. CASE Crash
  BY <1>1, <1>6, CrashOrphan
<1> QED BY <1>2, <1>3, <1>4, <1>5, <1>6, ClusterOrphan DEF Next

LEMMA InitOrphan == Init => OrphanInv
<1> SUFFICES ASSUME Init PROVE OrphanInv
  OBVIOUS
<1>1. Accounted
  BY NullAssumption DEF Init, Accounted, Left
<1>2. \A p \in Procs : Covers(p) /\ Clears(p)
  BY DEF Init, Covers, Clears
<1> QED BY <1>1, <1>2 DEF OrphanInv

(* With one request or pass at a time, whatever calls fail and however     *)
(* often the control plane restarts, retire, reap and undeploy leave only  *)
(* what no row could name: all else in the cluster is named in a row, and  *)
(* what is not is what an apply that failed or was cut short had made and  *)
(* had not recorded yet.                                                   *)
THEOREM NeverOrphaned == ~Overlap => (Spec => []NothingOrphaned)
<1> SUFFICES ASSUME ~Overlap PROVE Spec => []NothingOrphaned
  OBVIOUS
<1>1. TypeOK /\ Held /\ CalmInv /\ OrphanInv /\ [Next]_vars => OrphanInv'
  BY StepTyped, StepOrphan
<1>2. OrphanInv => NothingOrphaned
  BY DEF OrphanInv, Accounted, NothingOrphaned, Left
<1> QED BY <1>1, <1>2, InitOrphan, CalmThroughout, PTL DEF Spec

----------------------------------------------------------------------------
(* The address *)

LEMMA AgreesOf ==
  ASSUME NEW p \in Procs, OthersIdle(p), Others(p), Agrees(p)' PROVE AddressInv'
<1>1. \A q \in Procs \ {p} : pc'[q] = "idle"
  BY DEF OthersIdle, Others
<1>2. \A q \in Procs \ {p} : Agrees(q)'
  BY <1>1 DEF Agrees
<1> QED BY <1>2 DEF AddressInv

(* Which updates of a row leave the address alone *)
LEMMA AddressColumns ==
  ASSUME NEW r \in Row
  PROVE  /\ \A s \in Statuses :
              [r EXCEPT !.status = s].serving = r.serving /\ [r EXCEPT !.status = s].k8s = r.k8s
         /\ \A up \in BOOLEAN :
              [r EXCEPT !.routerUp = up].serving = r.serving /\ [r EXCEPT !.routerUp = up].k8s = r.k8s
         /\ \A b \in BOOLEAN :
              [r EXCEPT !.router = b].serving = r.serving /\ [r EXCEPT !.router = b].k8s = r.k8s
         /\ LET n == [r EXCEPT !.router = FALSE, !.routerUp = FALSE]
            IN n.serving = r.serving /\ n.k8s = r.k8s
         /\ [r EXCEPT !.k8s = TRUE].k8s
         /\ \A f \in Column :
              /\ [r EXCEPT !.serving = f].serving = f /\ [r EXCEPT !.serving = f].k8s = r.k8s
              /\ [r EXCEPT !.k8s = TRUE, !.serving = f].serving = f
              /\ [r EXCEPT !.k8s = TRUE, !.serving = f].k8s
BY DEF Row

LEMMA SnapRowOf ==
  ASSUME NEW s \in Snap, NEW r PROVE [s EXCEPT !.row = r].row = r
BY DEF Snap

(* A step that neither the row nor the copy shows *)
LEMMA AgreesKept ==
  ASSUME TypeOK, NEW p \in Procs, Agrees(p), UNCHANGED <<row, snap>>,
         pc[p] \notin {"idle", "commit", "apply", "noteFront", "noteServing"},
         pc'[p] \notin {"delete", "deleteService", "retire", "noteServing"}
  PROVE  Agrees(p)'
BY DEF Agrees

(* One step of an apply *)
LEMMA AppliesAgrees ==
  ASSUME TypeOK, Held, NEW o \in Operators, Applies(o), Fresh(o), OthersIdle(o), Agrees(o)
  PROVE  AddressInv'
<1>0. o \in Procs /\ Others(o) /\ Exists /\ row \in Row
  BY HandlesKeeps, AppliesMoves, TypeParts DEF Handles, Keeps, Procs, Fresh
<1>a. pc[o] # "apply" => snap[o] \in Snap /\ snap[o].row \in Row
  BY <1>0, AppliesMoves, HeldRow
<1> SUFFICES Agrees(o)'
  BY <1>0, AgreesOf
<1>1. CASE ApplyReads(o)
  <2>1. pc'[o] = "token" /\ snap'[o] = Here /\ UNCHANGED row
    BY <1>0, <1>1, LocalsOf DEF ApplyReads, rows
  <2> QED BY <2>1 DEF Agrees, Here
<1>2. CASE \/ EnsureServingToken(o) \/ ApplySecret(o) \/ ApplyTarget(o) \/ ApplyTargetService(o)
           \/ RecordTargetLaunch(o) \/ ApplyRouter(o)
  <2>1. /\ pc[o] \in {"token", "secret", "targets", "service", "launch", "router"} /\ UNCHANGED <<row, snap>>
        /\ \E at \in {"secret", "targets", "service", "launch", "router", "noteRouter", "front"} : Goto(o, at)
    BY <1>0, <1>2 DEF EnsureServingToken, ApplySecret, ApplyTarget, ApplyTargetService, RecordTargetLaunch,
                      ApplyRouter, rows
  <2>2. pc'[o] \in {"secret", "targets", "service", "launch", "router", "noteRouter", "front"}
    BY <1>0, <2>1, LocalsOf
  <2> QED BY <1>0, <2>1, <2>2, AgreesKept
<1>3. CASE RecordRouter(o)
  <2> DEFINE new == [snap[o].row EXCEPT !.router = TRUE]
  <2>1. /\ pc[o] = "noteRouter" /\ pc'[o] = "front" /\ snap'[o] = [snap[o] EXCEPT !.row = new]
        /\ row' = [row EXCEPT !.router = TRUE] \/ row' = row
    BY <1>0, <1>3, LocalsOf DEF RecordRouter
  <2>2. row'.serving = row.serving /\ row'.k8s = row.k8s
    BY <1>0, <2>1, AddressColumns
  <2>3. new.serving = snap[o].row.serving /\ new.k8s = snap[o].row.k8s
    BY <1>a, <2>1, AddressColumns
  <2> HIDE DEF new
  <2>4. snap'[o].row = new
    BY <1>a, <2>1, SnapRowOf
  <2> QED BY <2>1, <2>2, <2>3, <2>4 DEF Agrees
<1>4. CASE ApplyService(o)
  <2>1. pc[o] = "front" /\ pc'[o] \in {"judge", "noteFront"} /\ UNCHANGED <<row, snap>>
    BY <1>0, <1>4, LocalsOf DEF ApplyService, rows
  <2> QED BY <1>0, <2>1, AgreesKept
<1>5. CASE RecordLaunch(o)
  <2>1. pc'[o] = "noteServing" /\ row' = [row EXCEPT !.k8s = TRUE]
    BY <1>0, <1>5, LocalsOf DEF RecordLaunch
  <2>2. row'.k8s
    BY <1>0, <2>1, AddressColumns
  <2> QED BY <2>1, <2>2 DEF Agrees
<1>6. CASE RecordServingVersion(o)
  <2> DEFINE f == ServingColumn(DesiredFront(snap[o].targets))
             new == [snap[o].row EXCEPT !.k8s = TRUE, !.serving = f]
  <2>1. /\ pc[o] = "noteServing" /\ pc'[o] = "judge" /\ f \in Column
        /\ row' = [row EXCEPT !.serving = f]
    BY <1>0, <1>6, LocalsOf, DesiredTyped DEF RecordServingVersion
  <2>2. snap[o] \in Snap /\ snap[o].row \in Row
    BY <1>a, <2>1
  <2>3. snap'[o] = [snap[o] EXCEPT !.row = new]
    BY <1>0, <1>6, <2>2, LocalsOf DEF RecordServingVersion, Snap
  <2> HIDE DEF f
  <2>4. row'.serving = f /\ row'.k8s
    <3>1. row.k8s
      BY <2>1 DEF Agrees
    <3>2. row'.serving = f /\ row'.k8s = row.k8s
      BY <1>0, <2>1, AddressColumns
    <3> QED BY <3>1, <3>2
  <2>5. new.serving = f /\ new.k8s = TRUE
    BY <2>1, <2>2 DEF Row
  <2> HIDE DEF new
  <2>6. snap'[o].row = new
    BY <2>2, <2>3, SnapRowOf
  <2>7. row'.k8s = TRUE
    BY <1>0, <2>1, <2>4 DEF Row
  <2> QED BY <2>1, <2>4, <2>5, <2>6, <2>7 DEF Agrees
<1>7. CASE ApplyJudges(o)
  <2> DEFINE now == RollUpStatus(row, targets, snap[o].row.status)
  <2>1. /\ pc[o] = "judge" /\ pc'[o] = "removeRouter" /\ UNCHANGED snap
        /\ row' = [row EXCEPT !.status = now] /\ now \in Statuses
    BY <1>0, <1>7, LocalsOf, RollUpTyped DEF ApplyJudges
  <2> HIDE DEF now
  <2>2. row'.serving = row.serving /\ row'.k8s = row.k8s
    BY <1>0, <2>1, AddressColumns
  <2> QED BY <2>1, <2>2 DEF Agrees
<1> QED BY <1>1, <1>2, <1>3, <1>4, <1>5, <1>6, <1>7 DEF Applies

LEMMA ReapedAgrees ==
  ASSUME TypeOK, NEW p \in Procs, Reaped(p), UNCHANGED row, Agrees(p),
         pc[p] \in {"reap", "deleteService"}
  PROVE  Agrees(p)'
<1>1. CASE p = Sync
  <2>1. pc'[p] = "judge" /\ UNCHANGED snap
    BY <1>1, LocalsOf DEF Reaped
  <2> QED BY <2>1, AgreesKept
<1>2. CASE p # Sync
  <2>1. pc'[p] = "idle"
    BY <1>2, LocalsOf DEF Reaped
  <2> QED BY <2>1 DEF Agrees
<1> QED BY <1>1, <1>2

LEMMA TidiesAgrees ==
  ASSUME TypeOK, Held, NEW p \in Procs, Tidies(p), Fresh(p), OthersIdle(p), Agrees(p)
  PROVE  AddressInv'
<1>0. Others(p) /\ Exists /\ row \in Row
  BY TidiesKeeps, TidiesMoves, TypeParts DEF Keeps, Fresh
<1> SUFFICES Agrees(p)'
  BY <1>0, AgreesOf
<1>1. CASE RemoveRouter(p)
  <2>1. pc[p] = "removeRouter" /\ pc'[p] \in {"forgetRouter", "reap"} /\ UNCHANGED <<row, snap>>
    BY <1>1, LocalsOf DEF RemoveRouter, rows
  <2> QED BY <2>1, AgreesKept
<1>2. CASE ForgetRouter(p)
  <2> DEFINE new == [snap[p].row EXCEPT !.router = FALSE]
  <2>1. /\ pc[p] = "forgetRouter" /\ pc'[p] = "reap" /\ snap'[p] = [snap[p] EXCEPT !.row = new]
        /\ row' = [row EXCEPT !.router = FALSE, !.routerUp = FALSE]
    BY <1>0, <1>2, LocalsOf DEF ForgetRouter
  <2>2. snap[p] \in Snap /\ snap[p].row \in Row
    BY <2>1, HeldRow
  <2>3. row'.serving = row.serving /\ row'.k8s = row.k8s
    BY <1>0, <2>1, AddressColumns
  <2>4. new.serving = snap[p].row.serving /\ new.k8s = snap[p].row.k8s
    BY <2>2, AddressColumns
  <2> HIDE DEF new
  <2>5. snap'[p].row = new
    BY <2>1, <2>2, SnapRowOf
  <2> QED BY <2>1, <2>3, <2>4, <2>5 DEF Agrees
<1>3. CASE ReapLists(p)
  <2>1. pc[p] = "reap" /\ UNCHANGED row
    BY <1>3 DEF ReapLists, rows
  <2>2. CASE Reaped(p)
    BY <2>1, <2>2, ReapedAgrees
  <2>3. CASE ~Reaped(p)
    <3>1. todo'[p] = Doomed /\ Doomed # {} /\ pc'[p] = "delete" /\ UNCHANGED snap
      BY <1>3, <2>3, LocalsOf DEF ReapLists
    <3>2. row.serving \notin Doomed
      BY DEF Doomed
    <3> QED BY <2>1, <3>1, <3>2 DEF Agrees
  <2> QED BY <2>2, <2>3
<1>4. CASE ReapDeletes(p)
  <2>1. pc[p] = "delete" /\ pc'[p] = "deleteService" /\ UNCHANGED <<row, snap, todo>>
    BY <1>4, LocalsOf DEF ReapDeletes, rows
  <2> QED BY <2>1 DEF Agrees
<1>5. CASE ReapDeletesService(p)
  <2> DEFINE rest == todo[p] \ {Lowest(todo[p])}
  <2>1. pc[p] = "deleteService" /\ UNCHANGED row
    BY <1>5 DEF ReapDeletesService, rows
  <2>2. CASE Reaped(p)
    BY <2>1, <2>2, ReapedAgrees
  <2>3. CASE ~Reaped(p)
    <3>1. todo'[p] = rest /\ rest # {} /\ pc'[p] = "delete" /\ UNCHANGED snap
      BY <1>5, <2>3, LocalsOf DEF ReapDeletesService
    <3> QED BY <2>1, <3>1 DEF Agrees
  <2> QED BY <2>2, <2>3
<1> QED BY <1>1, <1>2, <1>3, <1>4, <1>5 DEF Tidies

LEMMA RequestAgrees ==
  ASSUME ~Overlap, TypeOK, NEW o \in Operators, Request(o) PROVE AddressInv'
<1>0. /\ o \in Procs /\ Others(o) /\ OthersIdle(o) /\ UNCHANGED row /\ snap'[o] = Here
      /\ pc'[o] \in {"commit", "retire", "undeploy"}
  BY RequestMoves DEF MayStart, OthersIdle, rows, Procs
<1>1. pc'[o] = "retire" => row.serving # ask'[o].version
  <2>1. ASSUME NEW v \in Versions,
               Begin(o, [op |-> "deploy", version |-> v, share |-> TOTAL_WEIGHT], "commit", {})
        PROVE  pc'[o] = "commit"
    BY <1>0, <2>1, BeginMoves
  <2>2. ASSUME NEW v \in Versions, NEW s \in Shares,
               Begin(o, [op |-> "rollout", version |-> v, share |-> s], "commit", {})
        PROVE  pc'[o] = "commit"
    BY <1>0, <2>2, BeginMoves
  <2>3. ASSUME Undeploy(o) PROVE pc'[o] = "undeploy"
    BY <1>0, <2>3, BeginMoves DEF Undeploy
  <2>4. ASSUME Retire(o) PROVE row.serving # ask'[o].version
    <3>1. PICK v \in Versions :
            row.serving # v /\ Begin(o, [op |-> "retire", version |-> v, share |-> 0], "retire", {})
      BY <2>4 DEF Retire
    <3>2. ask'[o] = [op |-> "retire", version |-> v, share |-> 0]
      BY <1>0, <3>1, BeginMoves
    <3> QED BY <3>1, <3>2
  <2> QED BY <2>1, <2>2, <2>3, <2>4 DEF Request, DeployModel, Rollout
<1>2. Agrees(o)'
  BY <1>0, <1>1 DEF Agrees, Here
<1> QED BY <1>0, <1>2, AgreesOf

LEMMA RemovalAgrees ==
  ASSUME TypeOK, Held, NEW o \in Operators, OthersIdle(o), Agrees(o),
         \/ CommitFails(o) \/ CommitDeploy(o) \/ CommitRollout(o)
         \/ RetireDeletes(o) \/ RetireDeletesService(o) \/ RemoveTarget(o)
         \/ UndeployDeletes(o) \/ UndeployDeletesService(o) \/ UndeployRouter(o)
         \/ UndeployFront(o) \/ DeleteSecret(o) \/ DeleteRow(o)
  PROVE  AddressInv'
<1>0. o \in Procs /\ Others(o)
  BY HandlesKeeps DEF Handles, Keeps, Procs
<1>1. CASE CommitFails(o) \/ CommitDeploy(o) \/ CommitRollout(o) \/ RemoveTarget(o) \/ DeleteRow(o)
  <2>1. pc'[o] \in {"idle", "apply"}
    BY <1>0, <1>1, LocalsOf DEF CommitFails, CommitDeploy, CommitRollout, RemoveTarget, DeleteRow
  <2>2. Agrees(o)'
    BY <2>1 DEF Agrees
  <2> QED BY <1>0, <2>2, AgreesOf
<1>2. CASE \/ RetireDeletes(o) \/ RetireDeletesService(o)
           \/ UndeployDeletes(o) \/ UndeployDeletesService(o) \/ UndeployRouter(o)
           \/ UndeployFront(o) \/ DeleteSecret(o)
  <2>1. /\ pc[o] \in {"retire", "retireService", "undeploy", "undeployService", "undeployFront",
                     "undeploySecret"}
        /\ UNCHANGED <<row, snap>>
        /\ pc'[o] \in {"retireService", "removeTarget", "undeploy", "undeployService", "undeployFront",
                      "undeploySecret", "undeployRow"}
    BY <1>0, <1>2, LocalsOf
       DEF RetireDeletes, RetireDeletesService, UndeployDeletes, UndeployDeletesService, UndeployRouter,
           UndeployFront, DeleteSecret, rows
  <2>2. Agrees(o)'
    BY <1>0, <2>1, AgreesKept
  <2> QED BY <1>0, <2>2, AgreesOf
<1> QED BY <1>1, <1>2

LEMMA SyncsAgrees ==
  ASSUME ~Overlap, TypeOK, Held, Syncs, Fresh(Sync), OthersIdle(Sync), Agrees(Sync)
  PROVE  AddressInv'
<1>0. Sync \in Procs /\ Others(Sync)
  BY SyncKeeps DEF Procs
<1>a. pc[Sync] \notin {"idle", "commit"} => Exists /\ row \in Row
  BY TypeParts DEF Fresh
<1>b. pc[Sync] \notin {"idle", "commit", "apply"} => snap[Sync] \in Snap /\ snap[Sync].row \in Row
  BY <1>0, HeldRow
<1> SUFFICES ASSUME ~Tidies(Sync) PROVE Agrees(Sync)'
  BY <1>0, TidiesAgrees, AgreesOf
<1>1. CASE SyncLists
  <2>1. UNCHANGED row /\ snap'[Sync] = Here /\ pc'[Sync] \in {"observe", "observeRouter"}
    <3>1. Goto(Sync, "observe") \/ Goto(Sync, "observeRouter")
      BY <1>1 DEF SyncLists, SyncNext
    <3> QED BY <1>0, <1>1, <3>1, LocalsOf DEF SyncLists, rows
  <2> QED BY <2>1 DEF Agrees, Here
<1>2. CASE ObserveTarget
  <2>1. pc[Sync] = "observe" /\ pc'[Sync] \in {"observe", "observeRouter"} /\ UNCHANGED row
    <3>1. Goto(Sync, "observe") \/ Goto(Sync, "observeRouter")
      BY <1>2 DEF ObserveTarget, SyncNext
    <3> QED BY <1>0, <1>2, <3>1, LocalsOf DEF ObserveTarget
  <2>2. snap'[Sync].row = snap[Sync].row
    <3> DEFINE v == Lowest(todo[Sync])
               now == StatusFromObservation(pods[v], snap[Sync].targets[v].status)
    <3>1. snap'[Sync] = [snap[Sync] EXCEPT !.targets[v].status = now] /\ now \in Statuses
      BY <1>0, <1>2, LocalsOf, ObservedTyped DEF ObserveTarget
    <3>2. v \in Served(snap[Sync].targets)
      BY <2>1, LowestIn, ServedIn DEF Held
    <3> HIDE DEF now, v
    <3> QED BY <1>b, <2>1, <3>1, <3>2, ObservedSnap
  <2> QED BY <2>1, <2>2 DEF Agrees
<1>3. CASE ObserveRouter
  <2> DEFINE up == router = "ready"
             new == [snap[Sync].row EXCEPT !.routerUp = up]
  <2>1. /\ pc[Sync] = "observeRouter" /\ pc'[Sync] = "move"
        /\ row' = row \/ row' = [row EXCEPT !.routerUp = up]
        /\ snap' = snap \/ snap'[Sync] = [snap[Sync] EXCEPT !.row = new]
    BY <1>0, <1>3, LocalsOf DEF ObserveRouter
  <2>2. up \in BOOLEAN
    OBVIOUS
  <2> HIDE DEF up
  <2>3. row'.serving = row.serving /\ row'.k8s = row.k8s
    <3>1. row \in Row
      BY <1>a, <2>1
    <3>2. CASE row' = row
      BY <3>2
    <3>3. CASE row' = [row EXCEPT !.routerUp = up]
      BY <2>2, <3>1, <3>3, AddressColumns
    <3> QED BY <2>1, <3>2, <3>3
  <2>4. new.serving = snap[Sync].row.serving /\ new.k8s = snap[Sync].row.k8s
    BY <1>b, <2>1, <2>2, AddressColumns
  <2> HIDE DEF new
  <2>5. snap'[Sync].row = new \/ snap'[Sync] = snap[Sync]
    BY <1>b, <2>1, SnapRowOf
  <2> QED BY <2>1, <2>3, <2>4, <2>5 DEF Agrees
<1>4. CASE MoveFrontDoor
  <2>1. /\ pc[Sync] = "move" /\ UNCHANGED row
        /\ pc'[Sync] = "idle" \/ (pc'[Sync] \in {"judge", "noteMove"} /\ UNCHANGED snap)
    BY <1>0, <1>4, LocalsOf DEF MoveFrontDoor, rows
  <2> QED BY <2>1 DEF Agrees
<1>5. CASE RecordMove
  <2> DEFINE f == ServingColumn(DesiredFront(snap[Sync].targets))
             new == [snap[Sync].row EXCEPT !.serving = f]
             s == [snap[Sync] EXCEPT !.row.serving = f]
  <2>1. /\ pc[Sync] = "noteMove" /\ f \in Column
        /\ row' = [row EXCEPT !.serving = f]
        /\ snap'[Sync] = [snap[Sync] EXCEPT !.row = new]
    BY <1>0, <1>5, <1>a, LocalsOf, DesiredTyped DEF RecordMove
  <2>2. pc'[Sync] \in {"scale", "removeRouter"}
    <3>1. Goto(Sync, "scale") \/ Goto(Sync, "removeRouter")
      BY <1>5 DEF RecordMove, SyncNext
    <3> QED BY <1>0, <3>1, LocalsOf
  <2> HIDE DEF f
  <2>3. row'.serving = f /\ row'.k8s = row.k8s
    BY <1>a, <2>1, AddressColumns
  <2>4. new.serving = f /\ new.k8s = snap[Sync].row.k8s
    BY <1>b, <2>1, AddressColumns
  <2> HIDE DEF new
  <2>5. snap'[Sync].row = new
    BY <1>b, <2>1, SnapRowOf
  <2> QED BY <2>1, <2>2, <2>3, <2>4, <2>5 DEF Agrees
<1>6. CASE ScaleDown
  <2>1. /\ pc[Sync] = "scale" /\ UNCHANGED <<row, snap>>
        /\ Goto(Sync, "scale") \/ Goto(Sync, "removeRouter")
    BY <1>6 DEF ScaleDown, ScaledDown, SyncNext, rows
  <2>2. pc'[Sync] \in {"scale", "removeRouter"}
    BY <1>0, <2>1, LocalsOf
  <2> QED BY <1>0, <2>1, <2>2, AgreesKept
<1>7. CASE SyncJudges
  <2>1. pc'[Sync] = "idle"
    BY <1>0, <1>7, LocalsOf DEF SyncJudges
  <2> QED BY <2>1 DEF Agrees
<1> QED BY <1>1, <1>2, <1>3, <1>4, <1>5, <1>6, <1>7 DEF Syncs

LEMMA FaultAgrees ==
  ASSUME TypeOK, Held, NEW p \in Procs, CallFails(p) \/ HousekeepingFails(p), OthersIdle(p), Agrees(p)
  PROVE  AddressInv'
<1>0. Others(p)
  BY FaultKeeps
<1>1. CASE CallFails(p)
  <2>1. pc'[p] = "idle"
    BY <1>1, LocalsOf DEF CallFails
  <2>2. Agrees(p)'
    BY <2>1 DEF Agrees
  <2> QED BY <1>0, <2>2, AgreesOf
<1>2. CASE pc[p] = "scale" /\ ScaledDown /\ UNCHANGED <<row, snap>>
  <2>0. p = Sync
    BY <1>2 DEF Held, Procs
  <2>1. Goto(Sync, "scale") \/ Goto(Sync, "removeRouter")
    BY <1>2 DEF ScaledDown, SyncNext
  <2>2. pc'[p] \in {"scale", "removeRouter"}
    BY <2>0, <2>1, LocalsOf
  <2>3. Agrees(p)'
    BY <1>2, <2>2, AgreesKept
  <2> QED BY <1>0, <2>3, AgreesOf
<1>3. CASE pc[p] = "reap" /\ Reaped(p) /\ UNCHANGED row
  <2>1. Agrees(p)'
    BY <1>3, ReapedAgrees
  <2> QED BY <1>0, <2>1, AgreesOf
<1> QED BY <1>1, <1>2, <1>3 DEF HousekeepingFails, rows

LEMMA StepAgrees ==
  ASSUME ~Overlap, TypeOK, Held, CalmInv, AddressInv, [Next]_vars PROVE AddressInv'
<1>1. ASSUME NEW p \in Procs, pc[p] # "idle" \/ \A q \in Procs : pc[q] = "idle"
      PROVE  OthersIdle(p) /\ Fresh(p) /\ Agrees(p)
  BY <1>1 DEF CalmInv, Alone, OthersIdle, AddressInv
<1>2. ASSUME NEW o \in Operators, Handles(o) PROVE AddressInv'
  <2>1. o \in Procs /\ pc[o] # "idle"
    BY <1>2, HandlesKeeps DEF Keeps, Procs
  <2> QED BY <1>1, <1>2, <2>1, AppliesAgrees, TidiesAgrees, RemovalAgrees DEF Handles
<1>3. ASSUME NEW o \in Operators, Request(o) PROVE AddressInv'
  BY <1>3, RequestAgrees
<1>4. ASSUME Syncs PROVE AddressInv'
  <2>1. Sync \in Procs /\ (pc[Sync] # "idle" \/ \A q \in Procs : pc[q] = "idle")
    BY <1>4, SyncKeeps DEF Procs, MayStart
  <2> QED BY <1>1, <1>4, <2>1, SyncsAgrees
<1>5. ASSUME NEW p \in Procs, CallFails(p) \/ HousekeepingFails(p) PROVE AddressInv'
  <2>1. pc[p] # "idle"
    BY <1>5, FaultKeeps
  <2> QED BY <1>1, <1>5, <2>1, FaultAgrees
<1>6. CASE Crash
  <2>1. \A p \in Procs : pc'[p] = "idle"
    BY <1>6 DEF Crash
  <2> QED BY <2>1 DEF AddressInv, Agrees
<1>7. CASE PodsStart \/ UNCHANGED vars \/ \E v \in Versions : PodFails(v) \/ LoadGivesUp(v)
  <2>1. UNCHANGED <<row, pc, ask, snap, todo>>
    BY <1>7 DEF PodsStart, RouterStarts, PodStarts, PodFails, LoadGivesUp, vars, rows, locals
  <2> QED BY <2>1 DEF AddressInv, Agrees
<1> QED BY <1>2, <1>3, <1>4, <1>5, <1>6, <1>7 DEF Next

(* Where the row has the address, and where it keeps pods *)
LEMMA KnownAddress ==
  ASSUME TypeOK, AddressKnown, front # Router
  PROVE  /\ front = row.serving /\ front \in Versions /\ row.k8s
         /\ \A s : s.row.serving = row.serving => WantsPods(s, front)
<1>1. row \in Row
  BY TypeParts DEF AddressKnown, FrontNamed
<1>2. row.k8s /\ CurrentFront(row) = front
  BY DEF AddressKnown, FrontNamed
<1>3. front = row.serving /\ front # None
  BY <1>2 DEF CurrentFront
<1>4. front \in Versions
  BY <1>1, <1>3, RowFields DEF Column
<1> QED BY <1>2, <1>3, <1>4 DEF WantsPods

LEMMA AppliedStands ==
  ASSUME NEW state \in {"starting", "ready", "stuck"}
  PROVE  Applied(state, TRUE) \in {"starting", "ready", "stuck"}
BY DEF Applied

(* Pods scaled by what a copy says, where the copy has the address right *)
LEMMA ScalingKeeps ==
  ASSUME TypeOK, AddressStands, NEW p \in Procs, NEW v,
         UNCHANGED <<row, router, front>>,
         snap[p].row.serving = row.serving,
         pods' = [pods EXCEPT ![v] = Applied(@, WantsPods(snap[p], v))],
         AddressKnown'
  PROVE  AddressStands'
<1>1. AddressKnown
  BY DEF AddressKnown, FrontNamed, Exists
<1>2. CASE front = Router
  <2>1. front \notin Versions
    BY <1>2, NullAssumption
  <2> QED BY <1>2, <2>1 DEF AddressStands
<1>3. CASE front # Router
  <2>1. front \in Versions /\ WantsPods(snap[p], front) = TRUE
    <3>1. front \in Versions /\ WantsPods(snap[p], front)
      BY <1>1, <1>3, KnownAddress
    <3>2. WantsPods(snap[p], front) \in BOOLEAN
      BY DEF WantsPods
    <3> QED BY <3>1, <3>2
  <2>2. pods[front] \in {"starting", "ready", "stuck"}
    BY <2>1 DEF AddressStands
  <2>3. v = front => pods'[front] = Applied(pods[front], TRUE)
    BY <2>1, TypeParts
  <2>4. v # front => pods'[front] = pods[front]
    BY <2>1, TypeParts
  <2>5. pods'[front] \in {"starting", "ready", "stuck"}
    BY <2>2, <2>3, <2>4, AppliedStands
  <2> QED BY <1>3, <2>5 DEF AddressStands
<1> QED BY <1>2, <1>3

(* Pods removed that are not those the row says are serving *)
LEMMA RemovingKeeps ==
  ASSUME TypeOK, AddressStands, NEW v, row.serving # v, UNCHANGED <<row, router, front>>,
         pods' = [pods EXCEPT ![v] = "absent"] \/ pods' = pods,
         AddressKnown'
  PROVE  AddressStands'
<1>1. AddressKnown
  BY DEF AddressKnown, FrontNamed, Exists
<1>2. CASE front = Router
  <2>1. front \notin Versions
    BY <1>2, NullAssumption
  <2> QED BY <1>2, <2>1 DEF AddressStands
<1>3. CASE front # Router
  <2>1. front \in Versions /\ front # v
    BY <1>1, <1>3, KnownAddress
  <2>2. pods'[front] = pods[front]
    BY <2>1, TypeParts
  <2> QED BY <1>3, <2>1, <2>2 DEF AddressStands
<1> QED BY <1>2, <1>3

LEMMA StepAddress ==
  ASSUME TypeOK, Held, AddressInv, [Next]_vars, AddressStands, ~Removing, AddressKnown'
  PROVE  AddressStands'
<1>1. ASSUME UNCHANGED <<pods, router, front>> PROVE AddressStands'
  BY <1>1 DEF AddressStands
<1>2. ASSUME NEW p \in Procs, Tidies(p) PROVE AddressStands'
  <2>1. CASE RemoveRouter(p)
    <3>1. UNCHANGED <<row, pods, front>> /\ pc[p] = "removeRouter"
      BY <2>1 DEF RemoveRouter, rows
    <3>2. CASE CurrentFront(snap[p].row) = Router
      BY <1>1, <2>1, <3>1, <3>2 DEF RemoveRouter
    <3>3. CASE CurrentFront(snap[p].row) # Router
      <4>1. CurrentFront(row) = CurrentFront(snap[p].row)
        BY <3>1 DEF AddressInv, Agrees, CurrentFront
      <4>2. front # Router
        BY <3>1, <3>3, <4>1 DEF AddressKnown, FrontNamed
      <4> QED BY <3>1, <4>2 DEF AddressStands
    <3> QED BY <3>2, <3>3
  <2>2. CASE ForgetRouter(p) \/ ReapLists(p) \/ ReapDeletesService(p)
    BY <1>1, <2>2 DEF ForgetRouter, ReapLists, ReapDeletesService, cluster
  <2>3. CASE ReapDeletes(p)
    <3> DEFINE v == Lowest(todo[p])
    <3>1. /\ pc[p] = "delete" /\ UNCHANGED <<row, router, front>>
          /\ pods' = [pods EXCEPT ![v] = "absent"]
      BY <2>3 DEF ReapDeletes, rows
    <3>2. row.serving # v
      BY <3>1, FirstOf DEF AddressInv, Agrees
    <3> HIDE DEF v
    <3> QED BY <3>1, <3>2, RemovingKeeps
  <2> QED BY <1>2, <2>1, <2>2, <2>3 DEF Tidies
<1>3. ASSUME NEW o \in Operators, Applies(o) PROVE AddressStands'
  <2>0. o \in Procs
    BY DEF Procs
  <2>1. CASE ApplyTarget(o)
    <3> DEFINE v == Lowest(todo[o])
    <3>1. /\ pc[o] = "targets" /\ UNCHANGED <<row, router, front>>
          /\ pods' = [pods EXCEPT ![v] = Applied(@, WantsPods(snap[o], v))]
      BY <2>1 DEF ApplyTarget, rows
    <3>2. snap[o].row.serving = row.serving
      BY <2>0, <3>1 DEF AddressInv, Agrees
    <3> HIDE DEF v
    <3> QED BY <2>0, <3>1, <3>2, ScalingKeeps
  <2>2. CASE ApplyRouter(o)
    <3>1. UNCHANGED <<pods, front>> /\ (router' = router \/ router' = Applied(router, TRUE))
      BY <2>2 DEF ApplyRouter
    <3>2. Applied(router, TRUE) # "absent"
      BY DEF Applied
    <3> QED BY <3>1, <3>2 DEF AddressStands
  <2>3. CASE ApplyService(o)
    <3>1. UNCHANGED <<row, pods, router>> /\ pc[o] = "front"
      BY <2>3 DEF ApplyService, rows
    <3>2. snap[o].row.k8s = row.k8s
      BY <2>0, <3>1 DEF AddressInv, Agrees
    <3>3. snap[o].row.k8s
      BY <3>1, <3>2 DEF AddressKnown, FrontNamed
    <3>4. front' = front
      BY <2>3, <3>3 DEF ApplyService
    <3> QED BY <1>1, <3>1, <3>4
  <2>4. CASE \/ ApplyReads(o) \/ EnsureServingToken(o) \/ ApplySecret(o) \/ ApplyTargetService(o)
             \/ RecordTargetLaunch(o) \/ RecordRouter(o) \/ RecordLaunch(o) \/ RecordServingVersion(o)
             \/ ApplyJudges(o)
    BY <1>1, <2>4 DEF ApplyReads, EnsureServingToken, ApplySecret, ApplyTargetService, RecordTargetLaunch, RecordRouter,
                      RecordLaunch, RecordServingVersion, ApplyJudges, cluster
  <2> QED BY <1>3, <2>1, <2>2, <2>3, <2>4 DEF Applies
<1>4. ASSUME NEW o \in Operators, RetireDeletes(o) PROVE AddressStands'
  <2>1. /\ o \in Procs /\ pc[o] = "retire" /\ UNCHANGED <<row, router, front>>
        /\ pods' = [pods EXCEPT ![ask[o].version] = "absent"] \/ pods' = pods
    BY <1>4 DEF RetireDeletes, rows, Procs
  <2>2. row.serving # ask[o].version
    BY <2>1 DEF AddressInv, Agrees
  <2> QED BY <2>1, <2>2, RemovingKeeps
<1>5. ASSUME NEW o \in Operators,
             \/ UndeployDeletes(o) \/ UndeployDeletesService(o) \/ UndeployRouter(o)
             \/ UndeployFront(o) \/ DeleteSecret(o) \/ DeleteRow(o)
      PROVE  FALSE
  BY <1>5 DEF UndeployDeletes, UndeployDeletesService, UndeployRouter, UndeployFront, DeleteSecret,
              DeleteRow, Removing
<1>6. ASSUME Syncs PROVE AddressStands'
  <2>0. Sync \in Procs
    BY DEF Procs
  <2>1. CASE MoveFrontDoor
    <3>1. UNCHANGED <<row, pods, router>> /\ pc[Sync] = "move"
          /\ \/ front' = front
             \/ front' = DesiredFront(snap[Sync].targets) /\ MayMove(snap[Sync])
      BY <2>1 DEF MoveFrontDoor, rows
    <3>2. CurrentFront(row) = CurrentFront(snap[Sync].row)
      BY <2>0, <3>1 DEF AddressInv, Agrees, CurrentFront
    <3>3. front' = CurrentFront(row)
      BY <3>1 DEF AddressKnown, FrontNamed
    <3>4. front' = front
      BY <3>1, <3>2, <3>3 DEF MayMove
    <3> QED BY <1>1, <3>1, <3>4
  <2>2. CASE ScaleDown
    <3> DEFINE v == Lowest(todo[Sync])
    <3>1. /\ pc[Sync] = "scale" /\ UNCHANGED <<row, router, front>>
          /\ pods' = [pods EXCEPT ![v] = Applied(@, WantsPods(snap[Sync], v))]
      BY <2>2 DEF ScaleDown, rows
    <3>2. snap[Sync].row.serving = row.serving
      BY <2>0, <3>1 DEF AddressInv, Agrees
    <3> HIDE DEF v
    <3> QED BY <2>0, <3>1, <3>2, ScalingKeeps
  <2>3. CASE SyncLists \/ ObserveTarget \/ ObserveRouter \/ RecordMove \/ SyncJudges
    BY <1>1, <2>3 DEF SyncLists, ObserveTarget, ObserveRouter, RecordMove, SyncJudges, cluster
  <2> QED BY <1>2, <1>6, <2>0, <2>1, <2>2, <2>3 DEF Syncs
<1>7. ASSUME NEW o \in Operators, Handles(o) PROVE AddressStands'
  <2>1. CASE CommitFails(o) \/ CommitDeploy(o) \/ CommitRollout(o) \/ RetireDeletesService(o) \/ RemoveTarget(o)
    BY <1>1, <2>1 DEF CommitFails, CommitDeploy, CommitRollout, RetireDeletesService, RemoveTarget, cluster
  <2> QED BY <1>2, <1>3, <1>4, <1>5, <1>7, <2>1 DEF Handles, Procs
<1>8. ASSUME NEW o \in Operators, Request(o) PROVE AddressStands'
  BY <1>1, <1>8, RequestMoves DEF cluster
<1>9. CASE UNCHANGED vars \/ Crash \/ \E p \in Procs : CallFails(p) \/ HousekeepingFails(p)
  BY <1>1, <1>9 DEF vars, cluster, Crash, CallFails, HousekeepingFails
<1>10. CASE PodsStart \/ \E v \in Versions : PodFails(v) \/ LoadGivesUp(v)
  <2>1. /\ UNCHANGED front
        /\ \A v \in Versions : pods[v] \in {"starting", "ready", "stuck"} =>
             pods'[v] \in {"starting", "ready", "stuck"}
        /\ router # "absent" => router' # "absent"
    BY <1>10, TypeParts DEF PodsStart, RouterStarts, PodStarts, Loading, PodFails, LoadGivesUp
  <2> QED BY <2>1 DEF AddressStands
<1> QED BY <1>6, <1>7, <1>8, <1>9, <1>10 DEF Next

(* With one request or pass at a time, whatever fails or restarts: as long *)
(* as the row is right about the address, only an undeploy scales down or  *)
(* removes what it selects.  Every copy a process acts on has the address  *)
(* where the row has it, so replicas, reaping, the router and the move     *)
(* itself all spare what answers.                                          *)
THEOREM AddressAlwaysKept == ~Overlap => (Spec => AddressKept)
<1> SUFFICES ASSUME ~Overlap PROVE Spec => AddressKept
  OBVIOUS
<1>1. Init => AddressInv
  BY DEF Init, AddressInv, Agrees
<1>2. TypeOK /\ Held /\ CalmInv /\ AddressInv /\ [Next]_vars => AddressInv'
  BY StepAgrees
<1>3. TypeOK /\ Held /\ AddressInv /\ [Next]_vars =>
        [AddressStands /\ ~Removing => (AddressKnown' => AddressStands')]_vars
  BY StepAddress
<1> QED BY <1>1, <1>2, <1>3, CalmThroughout, PTL DEF Spec, AddressKept
=============================================================================
