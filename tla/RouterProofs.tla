---------------------------- MODULE RouterProofs ----------------------------
(***************************************************************************)
(* Theorems about Router for any versions, splits, number of requests and  *)
(* restarts: what `ash predict` says of an answer, and what one version    *)
(* that cannot be reached costs a caller.                                  *)
(***************************************************************************)
EXTENDS Router, TLAPS

(* A request whose address did not move knows where its answer comes from: *)
(* from what the row named, or from where the router says it sent it.      *)
Known(r) ==
  LET q == req[r] IN
  /\ q.at = "call" /\ ~q.moved      => (front # Door => q.record = front)
  /\ q.at = "forward" /\ ~q.moved   => q.routed \/ q.record = q.target
  /\ q.at = "answered" /\ ~q.moved  => q.said = q.target
  /\ q.at = "forward"               => q.target \in Versions
  /\ q.at = "forward" /\ q.routed   => q.target \in q.attempted
  /\ q.at = "call"                  => ~q.routed

IInv == TypeOK /\ \A r \in Requests : Known(r)

LEMMA SplitFacts ==
  ASSUME NEW s \in Splits
  PROVE  TakingTraffic(s) \subseteq Versions /\ TakingTraffic(s) # {}
<1>1. s \in [Versions -> 0 .. TOTAL_WEIGHT] /\ ValidWeights(s)
  BY SplitsAssumption
<1> QED BY <1>1 DEF ValidWeights, TakingTraffic

LEMMA ChoicesAreVersions == ASSUME TypeOK PROVE Choices \subseteq Versions
<1>1. CASE table = None
  BY <1>1 DEF Choices
<1>2. CASE table # None
  <2>1. table.split \in Splits
    BY <1>2 DEF TypeOK, Table
  <2> QED BY <1>2, <2>1, SplitFacts DEF Choices, Eligible
<1> QED BY <1>1, <1>2

LEMMA DesiredTyped == ASSUME TypeOK PROVE Desired \in Versions \cup {Door}
<1>1. TakingTraffic(split) \subseteq Versions /\ TakingTraffic(split) # {}
  BY SplitFacts DEF TypeOK
<1>2. (CHOOSE v \in TakingTraffic(split) : TRUE) \in TakingTraffic(split)
  BY <1>1
<1> QED BY <1>1, <1>2 DEF Desired

LEMMA FrontTargetTyped == ASSUME TypeOK PROVE FrontTarget \in Versions \cup {None}
<1>1. TakingTraffic(split) \subseteq Versions /\ TakingTraffic(split) # {}
  BY SplitFacts DEF TypeOK
<1>2. (CHOOSE v \in TakingTraffic(split) : TRUE) \in TakingTraffic(split)
  BY <1>1
<1> QED BY <1>1, <1>2 DEF FrontTarget, TypeOK

LEMMA IdleRequest == Idle \in Request /\ Idle.at = "idle"
BY DEF Idle, Request

(* What one request becomes, the others being left alone *)
LEMMA OneRequest ==
  ASSUME IInv, NEW r \in Requests, NEW q \in Request, Set(r, q),
         split' \in Splits, up' \subseteq Versions, UNCHANGED <<front, serving, table, restarts>>,
         cooling' \subseteq Versions,
         q.at = "call" /\ ~q.moved => (front # Door => q.record = front),
         q.at = "forward" /\ ~q.moved => q.routed \/ q.record = q.target,
         q.at = "answered" /\ ~q.moved => q.said = q.target,
         q.at = "forward" => q.target \in Versions,
         q.at = "forward" /\ q.routed => q.target \in q.attempted,
         q.at = "call" => ~q.routed
  PROVE  IInv'
<1>0. req \in [Requests -> Request]
  BY DEF IInv, TypeOK
<1>1. req' \in [Requests -> Request] /\ req'[r] = q /\ \A s \in Requests \ {r} : req'[s] = req[s]
  BY <1>0 DEF Set
<1>2. ASSUME NEW s \in Requests PROVE Known(s)'
  <2>1. CASE s = r BY <1>1, <2>1 DEF Known
  <2>2. CASE s # r BY <1>1, <2>2 DEF IInv, Known
  <2> QED BY <2>1, <2>2
<1> QED BY <1>1, <1>2 DEF IInv, TypeOK

LEMMA PlaneSteps ==
  ASSUME IInv, Rollout \/ PatchServiceSelector \/ RecordServingVersion
               \/ \E v \in Versions : PodsComeUp(v) \/ PodsGoDown(v)
  PROVE  IInv'
<1>0. TypeOK /\ req \in [Requests -> Request]
  BY DEF IInv, TypeOK
<1>1. CASE PatchServiceSelector
  <2>1. /\ front' \in Versions \cup {Door} /\ UNCHANGED <<split, up, serving, own>>
        /\ \A r \in Requests :
             req'[r] = IF req[r].at = "call" THEN [req[r] EXCEPT !.moved = TRUE] ELSE req[r]
    BY <1>0, <1>1, DesiredTyped DEF PatchServiceSelector
  <2>2. ASSUME NEW q \in Request
        PROVE  /\ [q EXCEPT !.moved = TRUE] \in Request
               /\ [q EXCEPT !.moved = TRUE].moved = TRUE
               /\ [q EXCEPT !.moved = TRUE].at = q.at
               /\ [q EXCEPT !.moved = TRUE].routed = q.routed
    BY DEF Request
  <2>3. req' \in [Requests -> Request]
    <3>1. req' = [r \in Requests |-> IF req[r].at = "call" THEN [req[r] EXCEPT !.moved = TRUE]
                                     ELSE req[r]]
      BY <1>1 DEF PatchServiceSelector
    <3> QED BY <1>0, <2>2, <3>1
  <2>4. ASSUME NEW r \in Requests PROVE Known(r)'
    <3>1. CASE req[r].at = "call"
      <4>1. req'[r].moved = TRUE /\ req'[r].at = "call" /\ req'[r].routed = req[r].routed
        BY <1>0, <2>1, <2>2, <3>1
      <4>2. ~req[r].routed
        BY <3>1 DEF IInv, Known
      <4> QED BY <4>1, <4>2 DEF Known
    <3>2. CASE req[r].at # "call"
      BY <2>1, <3>2 DEF IInv, Known
    <3> QED BY <3>1, <3>2
  <2> QED BY <1>0, <2>1, <2>3, <2>4 DEF IInv, TypeOK, own
<1>2. CASE Rollout
  BY <1>2 DEF Rollout, IInv, TypeOK, Known, own
<1>3. CASE RecordServingVersion
  BY <1>3 DEF RecordServingVersion, Column, IInv, TypeOK, Known, own
<1>4. CASE \E v \in Versions : PodsComeUp(v) \/ PodsGoDown(v)
  BY <1>4 DEF PodsComeUp, PodsGoDown, IInv, TypeOK, Known, own
<1> QED BY <1>1, <1>2, <1>3, <1>4

LEMMA RouterSteps ==
  ASSUME IInv, Refresh \/ RouterRestarts \/ \E v \in Versions : CooldownEnds(v)
  PROVE  IInv'
<1>0. TypeOK /\ req \in [Requests -> Request] /\ restarts \in Nat /\ MaxRestarts \in Nat
  BY BoundAssumption DEF IInv, TypeOK
<1>1. CASE Refresh
  <2>1. table' \in Table BY <1>0, <1>1 DEF Refresh, Table, TypeOK
  <2> QED BY <1>0, <1>1, <2>1 DEF Refresh, IInv, TypeOK, Known, plane
<1>2. CASE \E v \in Versions : CooldownEnds(v)
  BY <1>2 DEF CooldownEnds, IInv, TypeOK, Known, plane
<1>3. CASE RouterRestarts
  <2>1. req' = [r \in Requests |-> IF req[r].at = "forward" /\ req[r].routed THEN Idle ELSE req[r]]
    BY <1>3 DEF RouterRestarts
  <2>2. req' \in [Requests -> Request]
    BY <1>0, <2>1, IdleRequest
  <2>3. ASSUME NEW r \in Requests PROVE Known(r)'
    <3>1. CASE req'[r] = Idle
      BY <3>1, IdleRequest DEF Known
    <3>2. CASE req'[r] = req[r]
      BY <1>3, <3>2 DEF IInv, Known, RouterRestarts, plane
    <3> QED BY <2>1, <3>1, <3>2
  <2>4. restarts' \in 0 .. MaxRestarts
    BY <1>0, <1>3 DEF RouterRestarts
  <2> QED BY <1>0, <1>3, <2>2, <2>3, <2>4 DEF RouterRestarts, IInv, TypeOK, plane
<1> QED BY <1>1, <1>2, <1>3

LEMMA RequestSteps ==
  ASSUME IInv, NEW r \in Requests, Resolve(r) \/ Forwards(r) PROVE IInv'
<1>0. /\ TypeOK /\ req[r] \in Request /\ None \notin Versions /\ Door \notin Versions
      /\ split \in Splits /\ up \subseteq Versions /\ cooling \subseteq Versions
      /\ front \in Versions \cup {Door} /\ serving \in Versions \cup {None}
  BY NullAssumption DEF IInv, TypeOK
<1>1. CASE Resolve(r)
  <2> DEFINE q == [Idle EXCEPT !.at = "call", !.record = FrontTarget, !.moved = serving # Column]
  <2>1. FrontTarget \in Versions \cup {None}
    BY <1>0, FrontTargetTyped
  <2>2. /\ q \in Request /\ q.at = "call" /\ q.record = FrontTarget /\ q.moved = (serving # Column)
         /\ ~q.routed
    BY <2>1 DEF Idle, Request
  <2>3. serving = Column /\ front # Door => FrontTarget = front
    BY <1>0 DEF Column, FrontTarget
  <2> QED BY <1>0, <1>1, <2>2, <2>3, OneRequest DEF Resolve, plane, own
<1>2. CASE CallAddress(r)
  <2>1. CASE front # Door /\ Set(r, [req[r] EXCEPT !.at = "forward", !.target = front])
    <3> DEFINE q == [req[r] EXCEPT !.at = "forward", !.target = front]
    <3>1. /\ q \in Request /\ q.at = "forward" /\ q.target = front /\ q.record = req[r].record
          /\ q.moved = req[r].moved /\ q.routed = req[r].routed /\ q.attempted = req[r].attempted
      BY <1>0, <2>1 DEF Request
    <3>2. (~req[r].moved => req[r].record = front) /\ ~req[r].routed
      BY <1>2, <2>1 DEF CallAddress, IInv, Known
    <3> QED BY <1>0, <1>2, <2>1, <3>1, <3>2, OneRequest DEF CallAddress, plane, own
  <2>2. CASE Set(r, Idle)
    BY <1>0, <1>2, <2>2, IdleRequest, OneRequest DEF CallAddress, plane, own
  <2>3. ASSUME NEW v \in Choices,
               Set(r, [req[r] EXCEPT !.at = "forward", !.target = v, !.routed = TRUE, !.attempted = {v}])
        PROVE  IInv'
    <3> DEFINE q == [req[r] EXCEPT !.at = "forward", !.target = v, !.routed = TRUE, !.attempted = {v}]
    <3>1. v \in Versions
      BY <1>0, ChoicesAreVersions
    <3>2. q \in Request /\ q.at = "forward" /\ q.target = v /\ q.routed = TRUE /\ q.attempted = {v}
      BY <1>0, <3>1 DEF Request
    <3> QED BY <1>0, <1>2, <2>3, <3>1, <3>2, OneRequest DEF CallAddress, plane, own
  <2> QED BY <1>2, <2>1, <2>2, <2>3 DEF CallAddress
<1>3. CASE Answer(r)
  <2> DEFINE q == [Idle EXCEPT !.at = "answered", !.said = ServedBy(r), !.target = req[r].target,
                               !.moved = req[r].moved]
  <2>1. ServedBy(r) \in Versions \cup {None} /\ (~req[r].moved => ServedBy(r) = req[r].target)
    BY <1>0, <1>3 DEF ServedBy, Answer, IInv, Known, Request
  <2>2. /\ q \in Request /\ q.at = "answered" /\ q.said = ServedBy(r) /\ q.target = req[r].target
        /\ q.moved = req[r].moved
    BY <1>0, <2>1 DEF Idle, Request
  <2> QED BY <1>0, <1>3, <2>1, <2>2, OneRequest DEF Answer, plane
<1>4. CASE Fail(r)
  <2>0. cooling' \subseteq Versions /\ UNCHANGED <<plane, table, restarts>>
    BY <1>0, <1>4 DEF Fail, IInv, Known
  <2>1. CASE Set(r, Idle)
    BY <1>0, <2>0, <2>1, IdleRequest, OneRequest DEF plane
  <2>2. ASSUME req[r].routed,
               NEW w \in (Choices \ {req[r].target}) \ req[r].attempted,
               Set(r, [req[r] EXCEPT !.target = w, !.attempted = @ \cup {w}])
        PROVE  IInv'
    <3> DEFINE q == [req[r] EXCEPT !.target = w, !.attempted = @ \cup {w}]
    <3>1. w \in Versions
      BY <1>0, ChoicesAreVersions
    <3>2. /\ q \in Request /\ q.target = w /\ q.attempted = req[r].attempted \cup {w}
          /\ q.at = req[r].at /\ q.routed = req[r].routed
      BY <1>0, <3>1 DEF Request
    <3> QED BY <1>0, <1>4, <2>0, <2>2, <3>1, <3>2, OneRequest DEF Fail, plane
  <2> QED BY <1>4, <2>1, <2>2 DEF Fail
<1>5. CASE Done(r)
  BY <1>0, <1>5, IdleRequest, OneRequest DEF Done, plane, own
<1> QED BY <1>1, <1>2, <1>3, <1>4, <1>5 DEF Forwards

LEMMA InitHolds == ASSUME Init PROVE IInv
<1>1. TakingTraffic(split) \subseteq Versions
  BY SplitFacts DEF Init
<1>2. TypeOK
  BY <1>1, IdleRequest, BoundAssumption DEF Init, TypeOK
<1> QED BY <1>2, IdleRequest DEF Init, IInv, Known

LEMMA StepHolds == ASSUME IInv, [Next]_vars PROVE IInv'
<1>1. CASE UNCHANGED vars
  BY <1>1 DEF vars, plane, own, IInv, TypeOK, Known
<1> QED BY <1>1, PlaneSteps, RouterSteps, RequestSteps DEF Next

(* Each request that the address did not move under knows whose answer it  *)
(* will have (predict in inference.js).                                    *)
THEOREM Inductive == Spec => []IInv
<1>1. Init => IInv BY InitHolds
<1>2. IInv /\ [Next]_vars => IInv' BY StepHolds
<1> QED BY <1>1, <1>2, PTL DEF Spec

(* Every variable has its type: the address names a version or the router, *)
(* a forwarded request has a version to go to.                             *)
THEOREM TypeCorrect == Spec => []TypeOK
<1>1. IInv => TypeOK BY DEF IInv
<1> QED BY <1>1, Inductive, PTL

(* An answer is attributed to the version that made it, unless the address *)
(* moved in the meantime (servedBy in inference.js).                       *)
THEOREM RightlyAttributed == Spec => []Attributed
<1>1. IInv => Attributed BY DEF IInv, Known, Attributed
<1> QED BY <1>1, Inductive, PTL

(* The router fails a request only when it has tried two versions, or all  *)
(* it could have tried (proxy in app.js).                                  *)
THEOREM OneDownAlwaysMasked == Spec => OneDownIsMasked
<1> DEFINE Masked == \A r \in Requests :
       /\ req[r].at = "forward" /\ req[r].routed /\ req'[r].at = "idle"
       /\ restarts' = restarts
       => Cardinality(req[r].attempted) = 2 \/ Choices' \subseteq req[r].attempted
<1>1. ASSUME IInv, [Next]_vars PROVE Masked
  <2>0. req \in [Requests -> Request] /\ restarts \in Nat
    BY <1>1 DEF IInv, TypeOK
  <2>1. ASSUME NEW r \in Requests, req[r].at = "forward", req[r].routed, req'[r].at = "idle",
               restarts' = restarts
        PROVE  Cardinality(req[r].attempted) = 2 \/ Choices' \subseteq req[r].attempted
    <3>1. Fail(r)
      <4>1. ASSUME NEW s \in Requests, Resolve(s) \/ Forwards(s) PROVE Fail(r)
        <5>1. CASE s # r
          BY <2>0, <2>1, <4>1, <5>1
             DEF Resolve, Forwards, CallAddress, Answer, Fail, Done, Set
        <5>2. CASE s = r
          <6>1. ~Resolve(r) /\ ~CallAddress(r) /\ ~Done(r)
            BY <2>1 DEF Resolve, CallAddress, Done
          <6>2. ASSUME Answer(r) PROVE FALSE
            <7> DEFINE q == [Idle EXCEPT !.at = "answered", !.said = ServedBy(r),
                                         !.target = req[r].target, !.moved = req[r].moved]
            <7>1. q.at = "answered"
              BY DEF Idle
            <7>2. req' = [req EXCEPT ![r] = q]
              BY <6>2 DEF Answer, Set
            <7> HIDE DEF q
            <7> QED BY <2>0, <2>1, <7>1, <7>2
          <6> QED BY <4>1, <5>2, <6>1, <6>2 DEF Forwards
        <5> QED BY <5>1, <5>2
      <4>2. CASE PatchServiceSelector
        BY <2>0, <2>1, <4>2 DEF PatchServiceSelector
      <4>3. ~RouterRestarts
        BY <2>0, <2>1 DEF RouterRestarts
      <4> QED BY <1>1, <2>1, <4>1, <4>2, <4>3
              DEF Next, vars, Rollout, RecordServingVersion, PodsComeUp, PodsGoDown,
                  CooldownEnds, Refresh, own
    <3>2. /\ cooling' = cooling \cup {req[r].target} /\ table' = table
          /\ Cardinality(req[r].attempted) # 2 =>
               (Choices \ {req[r].target}) \ req[r].attempted = {}
      <4>1. \A w : Set(r, [req[r] EXCEPT !.target = w, !.attempted = @ \cup {w}])
                     => req'[r].at = "forward"
        BY <2>0, <2>1 DEF Set
      <4> QED BY <2>1, <3>1, <4>1 DEF Fail
    <3>3. Choices' \subseteq Choices \ {req[r].target}
      BY <3>2 DEF Choices, Eligible
    <3> QED BY <3>2, <3>3
  <2> QED BY <2>1
<1>2. IInv /\ [Next]_vars => [Masked]_vars BY <1>1
<1> QED BY <1>2, Inductive, PTL DEF Spec, OneDownIsMasked
=============================================================================
