-------------------------- MODULE SchedulerProofs --------------------------
(***************************************************************************)
(* Theorems about Scheduler for any jobs, nodes, quotas, number of faults  *)
(* and gates that keep what SchedulerAssumption says of them.  That the    *)
(* gates are not raced holds for any number of replicas; that nothing is   *)
(* ever over-committed, for one.  Last, that the gates of Gates keep it.   *)
(***************************************************************************)
EXTENDS SchedulerInv, Gates, WellFoundedInduction, FiniteSetTheorems, TLAPS

----------------------------------------------------------------------------
(* Types *)

Copies == UNION {[S -> Row] : S \in SUBSET Jobs}

LEMMA ListingIsCopies ==
  ASSUME NEW l PROVE IsListing(l) <=> l \in [Replicas -> Copies]
<1>1. ASSUME IsListing(l) PROVE l \in [Replicas -> Copies]
  BY <1>1 DEF IsListing, Copies
<1>2. ASSUME l \in [Replicas -> Copies] PROVE IsListing(l)
  <2>1. ASSUME NEW e \in Replicas
        PROVE  DOMAIN l[e] \subseteq Jobs /\ l[e] \in [DOMAIN l[e] -> Row]
    <3>1. PICK S \in SUBSET Jobs : l[e] \in [S -> Row] BY <1>2 DEF Copies
    <3> QED BY <3>1
  <2> QED BY <1>2, <2>1 DEF IsListing
<1> QED BY <1>1, <1>2

LEMMA CopiesOfRows ==
  /\ \A f \in [Jobs -> Row], S \in SUBSET Jobs : [j \in S |-> f[j]] \in Copies
  /\ \A c \in Copies, j \in Jobs : [k \in DOMAIN c \ {j} |-> c[k]] \in Copies
  /\ \A c \in Copies : DOMAIN c \subseteq Jobs /\ \A j \in DOMAIN c : c[j] \in Row
<1>1. \A f \in [Jobs -> Row], S \in SUBSET Jobs : [j \in S |-> f[j]] \in Copies
  BY DEF Copies
<1>2. ASSUME NEW c \in Copies
      PROVE  /\ DOMAIN c \subseteq Jobs /\ \A j \in DOMAIN c : c[j] \in Row
             /\ \A j \in Jobs : [k \in DOMAIN c \ {j} |-> c[k]] \in Copies
  <2>1. PICK S \in SUBSET Jobs : c \in [S -> Row] BY <1>2 DEF Copies
  <2>2. ASSUME NEW j \in Jobs PROVE [k \in DOMAIN c \ {j} |-> c[k]] \in Copies
    <3>1. [k \in DOMAIN c \ {j} |-> c[k]] \in [S \ {j} -> Row] BY <2>1
    <3> QED BY <3>1 DEF Copies
  <2> QED BY <2>1, <2>2
<1> QED BY <1>1, <1>2

LEMMA NoRowTyped == NoRow \in Row /\ [j \in {} |-> NoRow] \in Copies
<1>1. NoRow \in Row
  BY DEF NoRow, Row
<1>2. [j \in {} |-> NoRow] \in [{} -> Row]
  OBVIOUS
<1> QED BY <1>1, <1>2 DEF Copies

UserStep == \E j \in Jobs : SubmitJob(j) \/ CancelJob(j) \/ Finish(j) \/ RetryJob(j)
NodeStep == \E n \in Nodes : NodeLost(n) \/ NodeFound(n)

LEMMA UserTypes == ASSUME TypeOK, UserStep \/ NodeStep PROVE TypeOK'
<1>0. row \in [Jobs -> Row] /\ faults \in 0 .. MaxFaults /\ MaxFaults \in Nat
  BY SchedulerAssumption DEF TypeOK
<1>1. ASSUME NEW j \in Jobs, SubmitJob(j) \/ CancelJob(j) PROVE TypeOK'
  <2>1. row' \in [Jobs -> Row] BY <1>0, <1>1 DEF SubmitJob, CancelJob, Row, JobStates
  <2> QED BY <1>1, <2>1 DEF SubmitJob, CancelJob, TypeOK, control
<1>2. ASSUME NEW j \in Jobs, Finish(j) PROVE TypeOK'
  <2>1. row' \in [Jobs -> Row] BY <1>0, <1>2 DEF Finish, Row, JobStates
  <2> QED BY <1>2, <2>1 DEF Finish, TypeOK, control
<1>3. ASSUME NEW j \in Jobs, RetryJob(j) PROVE TypeOK'
  <2>1. row' \in [Jobs -> Row] BY <1>0, <1>3 DEF RetryJob, Row, JobStates
  <2> QED BY <1>0, <1>3, <2>1 DEF RetryJob, TypeOK, control
<1>4. ASSUME NEW n \in Nodes, NodeLost(n) \/ NodeFound(n) PROVE TypeOK'
  BY <1>0, <1>4 DEF NodeLost, NodeFound, TypeOK, control
<1> QED BY <1>1, <1>2, <1>3, <1>4 DEF UserStep, NodeStep

LEMMA PassTypes == ASSUME TypeOK, NEW e \in Replicas, PassStep(e) PROVE TypeOK'
<1>0. row \in [Jobs -> Row] /\ listed \in [Replicas -> Copies]
  BY ListingIsCopies DEF TypeOK
<1>1. CASE ListJobs(e)
  <2>1. [j \in {k \in Jobs : row[k].state \in {"SCHEDULING", "CANCELLING"}} |-> row[j]] \in Copies
    BY <1>0, CopiesOfRows,
       {k \in Jobs : row[k].state \in {"SCHEDULING", "CANCELLING"}} \in SUBSET Jobs
  <2>2. listed' \in [Replicas -> Copies] BY <1>0, <1>1, <2>1 DEF ListJobs
  <2> QED BY <1>1, <2>2, ListingIsCopies DEF ListJobs, TypeOK
<1>2. CASE StartClaiming(e)
  BY <1>2 DEF StartClaiming, TypeOK
<1>3. CASE EndPass(e)
  BY <1>3 DEF EndPass, TypeOK
<1>4. CASE ClaimNextJob(e)
  <2>1. PICK j \in Jobs : /\ row' = [row EXCEPT ![j].state = "SCHEDULING"]
                          /\ unchecked' \in {unchecked, unchecked \cup {j}}
                          /\ Handle(e, j, [row[j] EXCEPT !.state = "SCHEDULING"])
    BY <1>4 DEF ClaimNextJob, Claimable
  <2>2. row' \in [Jobs -> Row] /\ [row[j] EXCEPT !.state = "SCHEDULING"] \in Row
    BY <1>0, <2>1 DEF Row, JobStates
  <2> QED BY <1>4, <2>1, <2>2 DEF ClaimNextJob, Handle, Goto, TypeOK
<1>5. ASSUME NEW j \in Jobs, ReconcileJob(e, j) PROVE TypeOK'
  <2>1. listed' \in [Replicas -> Copies] /\ listed[e][j] \in Row
    BY <1>0, <1>5, CopiesOfRows DEF ReconcileJob, Unlist
  <2> QED BY <1>5, <2>1, ListingIsCopies DEF ReconcileJob, Handle, Goto, TypeOK
<1>6. ASSUME NEW j \in Jobs, TearDown(e, j) PROVE TypeOK'
  <2>1. listed' \in [Replicas -> Copies]
    BY <1>0, <1>6, CopiesOfRows DEF TearDown, Unlist
  <2>2. row' \in [Jobs -> Row] BY <1>0, <1>6 DEF TearDown, Row, JobStates
  <2> QED BY <1>6, <2>1, <2>2, ListingIsCopies DEF TearDown, TypeOK
<1> QED BY <1>1, <1>2, <1>3, <1>4, <1>5, <1>6, PassStep(e) DEF PassStep

LEMMA GivingUpTyped ==
  ASSUME TypeOK, NEW e \in Replicas, pc[e] # "next", GiveUp(e)
  PROVE  /\ phase' = phase /\ listed' = listed
         /\ pc' = [pc EXCEPT ![e] = "next"]
         /\ cur' \in [Replicas -> Jobs \cup {None}]
         /\ copy' \in [Replicas -> Row]
         /\ choice' \in [Replicas -> Nodes \cup {None}]
         /\ refused' \in [Replicas -> SUBSET Jobs]
         /\ \A x \in Replicas : pc'[x] # "next" => cur'[x] \in Jobs
         /\ \A x \in Replicas : pc'[x] = "bind" => choice'[x] \in Nodes
  BY NoRowTyped DEF GiveUp, Drop, Goto, TypeOK

LEMMA ScheduleTypes == ASSUME TypeOK, NEW e \in Replicas, ScheduleStep(e) PROVE TypeOK'
<1>0. row \in [Jobs -> Row] BY DEF TypeOK
<1>1. CASE BeginPass(e) \/ QuotaGate(e)
  BY <1>1 DEF BeginPass, QuotaGate, Deciding, At, Goto, TypeOK, Transaction
<1>2. CASE PlacementGate(e)
  <2>1. Held \in [Nodes -> SUBSET Jobs] /\ ready \in SUBSET Nodes /\ cur[e] \in Jobs
    BY <1>2 DEF PlacementGate, At, Held, Occupying, TypeOK
  <2>2. Place(cur[e], Held, ready) \in Nodes \cup {None}
    BY <2>1, SchedulerAssumption DEF GatesKeep
  <2> QED BY <1>2, <2>2 DEF PlacementGate, Deciding, At, Goto, TypeOK, Transaction
<1>3. CASE BindJob(e)
  <2>1. row' \in [Jobs -> Row] BY <1>0, <1>3 DEF BindJob, At, TypeOK, Row
  <2> QED BY <1>3, <2>1 DEF BindJob, At, Goto, TypeOK
<1>4. CASE RequeueJob(e)
  <2>1. row' \in [Jobs -> Row] BY <1>0, <1>4 DEF RequeueJob, Row, JobStates
  <2>2. pc[e] # "next" BY <1>4 DEF RequeueJob, At
  <2> QED BY <1>4, <2>1, <2>2, GivingUpTyped DEF RequeueJob, TypeOK
<1> QED BY <1>1, <1>2, <1>3, <1>4, ScheduleStep(e) DEF ScheduleStep

LEMMA LaunchTypes ==
  ASSUME TypeOK, NEW e \in Replicas, LaunchStep(e) \/ CallFails(e) \/ Crash(e) PROVE TypeOK'
<1>0. row \in [Jobs -> Row] /\ faults \in 0 .. MaxFaults /\ MaxFaults \in Nat
  BY SchedulerAssumption DEF TypeOK
<1>1. CASE RereadJob(e)
  BY <1>0, <1>1 DEF RereadJob, At, Goto, TypeOK
<1>2. CASE CreateJob(e)
  <2>1. copy[e].node \in Nodes \cup {None} BY <1>2 DEF TypeOK, Row
  <2> QED BY <1>2, <2>1 DEF CreateJob, At, Goto, TypeOK
<1>3. CASE MarkLaunched(e)
  <2>1. row' \in [Jobs -> Row] BY <1>0, <1>3 DEF MarkLaunched, Row, JobStates
  <2>2. pc[e] # "next" BY <1>3 DEF MarkLaunched, At
  <2>3. CASE GiveUp(e)
    BY <1>3, <2>1, <2>2, <2>3, GivingUpTyped DEF MarkLaunched, TypeOK
  <2>4. CASE Goto(e, "next") /\ Drop(e) /\ UNCHANGED <<phase, listed, refused>>
    BY <1>3, <2>1, <2>4, NoRowTyped DEF MarkLaunched, Goto, Drop, TypeOK
  <2> QED BY <1>3, <2>3, <2>4 DEF MarkLaunched
<1>4. CASE CallFails(e)
  BY <1>0, <1>4, GivingUpTyped DEF CallFails, TypeOK
<1>5. CASE Crash(e)
  <2>1. IsListing(listed')
    <3>1. listed \in [Replicas -> Copies] BY ListingIsCopies DEF TypeOK
    <3>2. listed' \in [Replicas -> Copies] BY <1>5, <3>1, NoRowTyped DEF Crash
    <3> QED BY <3>2, ListingIsCopies
  <2> QED BY <1>0, <1>5, <2>1, NoRowTyped DEF Crash, Goto, Drop, TypeOK
<1> QED BY <1>1, <1>2, <1>3, <1>4, <1>5, LaunchStep(e) \/ CallFails(e) \/ Crash(e) DEF LaunchStep

LEMMA TypesStart == ASSUME Init PROVE TypeOK
<1>1. listed \in [Replicas -> Copies] BY NoRowTyped DEF Init
<1> QED BY <1>1, NoRowTyped, ListingIsCopies, SchedulerAssumption DEF Init, TypeOK

LEMMA TypesStep == ASSUME TypeOK, [Next]_vars PROVE TypeOK'
<1>1. CASE UNCHANGED vars
  BY <1>1 DEF vars, TypeOK, IsListing
<1>2. CASE Next
  <2>1. \/ UserStep \/ NodeStep
        \/ \E e \in Replicas : \/ PassStep(e) \/ ScheduleStep(e)
                               \/ LaunchStep(e) \/ CallFails(e) \/ Crash(e)
    BY <1>2 DEF Next, UserStep, NodeStep, ReplicaStep
  <2> QED BY <2>1, UserTypes, PassTypes, ScheduleTypes, LaunchTypes
<1> QED BY <1>1, <1>2

(* Every reachable state is well typed, for any number of replicas: the    *)
(* copies and answers a pass carries are rows and nodes.                   *)
THEOREM TypeCorrect == Spec => []TypeOK
<1> QED BY TypesStart, TypesStep, PTL DEF Spec

----------------------------------------------------------------------------
(* The gates *)

GateCore ==
  /\ \A n \in Nodes : Gated(n) \in Room[n]
  /\ Charged \in Budget
  /\ QuotaAnswered /\ RoomAnswered

Answering == {"place", "bind"}

(* No replica comes to hold an answer in this step, and the answers held   *)
(* are about jobs no more occupying than before                            *)
AnswersKept ==
  \A e \in Replicas : pc'[e] \in Answering =>
    /\ pc'[e] = pc[e] /\ cur'[e] = cur[e] /\ choice'[e] = choice[e]
    /\ cur[e] \in Occupying' => cur[e] \in Occupying

(* Capacity that is given back breaks nothing *)
LEMMA Shrinking ==
  ASSUME TypeOK, GateCore, AnswersKept,
         \A n \in Nodes : Gated(n)' \subseteq Gated(n), Charged' \subseteq Charged
  PROVE  GateCore'
<1>1. \A n \in Nodes : \A S \in Room[n] : \A T : T \subseteq S => T \in Room[n]
  BY SchedulerAssumption DEF GatesKeep
<1>2. \A S \in Budget : \A T : T \subseteq S => T \in Budget
  BY SchedulerAssumption DEF GatesKeep
<1>3. (\A n \in Nodes : Gated(n) \in Room[n])' BY <1>1 DEF GateCore
<1>4. Charged' \in Budget BY <1>2 DEF GateCore
<1>5. QuotaAnswered'
  <2> SUFFICES ASSUME NEW e \in Replicas, pc'[e] \in {"place", "bind"}, cur'[e] \in Occupying'
               PROVE  Charged' \cup {cur'[e]} \in Budget
    BY DEF QuotaAnswered
  <2>1. Charged \cup {cur[e]} \in Budget BY DEF AnswersKept, Answering, GateCore, QuotaAnswered
  <2>2. Charged' \cup {cur'[e]} \subseteq Charged \cup {cur[e]} BY DEF AnswersKept, Answering
  <2> QED BY <1>2, <2>1, <2>2
<1>6. RoomAnswered'
  <2> SUFFICES ASSUME NEW e \in Replicas, pc'[e] = "bind", cur'[e] \in Occupying'
               PROVE  (Gated(choice[e]) \cup {cur[e]} \in Room[choice[e]])'
    BY DEF RoomAnswered
  <2>1. /\ pc[e] = "bind" /\ cur'[e] = cur[e] /\ choice'[e] = choice[e]
        /\ cur[e] \in Occupying /\ choice[e] \in Nodes
    BY DEF AnswersKept, Answering, TypeOK
  <2>2. Gated(choice[e]) \cup {cur[e]} \in Room[choice[e]]
    BY <2>1 DEF GateCore, RoomAnswered
  <2>3. Gated(choice[e])' \cup {cur[e]} \subseteq Gated(choice[e]) \cup {cur[e]}
    BY <2>1
  <2> QED BY <1>1, <2>1, <2>2, <2>3
<1> QED BY <1>3, <1>4, <1>5, <1>6 DEF GateCore

(* A step that takes jobs out of the occupying states, or leaves them as   *)
(* they are, gives capacity back                                           *)
LEMMA GivingBack ==
  ASSUME TypeOK, GateCore, AnswersKept,
         \A k \in Jobs : row'[k].state \in OccupyingStates =>
           /\ row[k].state \in OccupyingStates /\ row'[k].node = row[k].node
           /\ k \in unchecked => k \in unchecked'
  PROVE  GateCore'
<1>1. \A n \in Nodes : Gated(n)' \subseteq Gated(n)
  BY DEF Gated, Held, Occupying
<1>2. Charged' \subseteq Charged
  BY DEF Charged, Placed, Occupying
<1> QED BY <1>1, <1>2, Shrinking

LEMMA UserGates == ASSUME TypeOK, GateCore, UserStep \/ NodeStep PROVE GateCore'
<1>0. row \in [Jobs -> Row] BY DEF TypeOK
<1>1. UNCHANGED <<control, unchecked>>
  BY DEF UserStep, NodeStep, SubmitJob, CancelJob, Finish, RetryJob, NodeLost, NodeFound
<1>2. \A k \in Jobs : row'[k].state \in OccupyingStates =>
        row[k].state \in OccupyingStates /\ row'[k].node = row[k].node
  <2>1. CASE NodeStep BY <2>1 DEF NodeStep, NodeLost, NodeFound
  <2>2. ASSUME NEW j \in Jobs, SubmitJob(j) \/ CancelJob(j) \/ Finish(j) \/ RetryJob(j)
        PROVE  \A k \in Jobs : row'[k].state \in OccupyingStates =>
                 row[k].state \in OccupyingStates /\ row'[k].node = row[k].node
    BY <1>0, <2>2 DEF SubmitJob, CancelJob, Finish, RetryJob, OccupyingStates,
                      CancelNeedsExecutor, Row
  <2> QED BY <2>1, <2>2 DEF UserStep
<1>3. AnswersKept
  BY <1>1, <1>2 DEF AnswersKept, Answering, control, Occupying, TypeOK
<1> QED BY <1>1, <1>2, <1>3, GivingBack

LEMMA PassGates == ASSUME TypeOK, GateCore, NEW e \in Replicas, PassStep(e) PROVE GateCore'
<1>0. row \in [Jobs -> Row] BY DEF TypeOK
<1>1. CASE ListJobs(e) \/ StartClaiming(e) \/ EndPass(e)
  <2>1. UNCHANGED <<row, unchecked, pc, cur, choice>>
    BY <1>1 DEF ListJobs, StartClaiming, EndPass
  <2>2. AnswersKept BY <2>1 DEF AnswersKept, Answering, Occupying
  <2> QED BY <2>1, <2>2, GivingBack
<1>2. ASSUME NEW j \in Jobs, ReconcileJob(e, j) PROVE GateCore'
  <2>1. UNCHANGED <<row, unchecked>>
    BY <1>2 DEF ReconcileJob
  <2>2. AnswersKept
    BY <1>2 DEF ReconcileJob, Handle, Goto, Idling, AnswersKept, Answering, Occupying, TypeOK
  <2> QED BY <2>1, <2>2, GivingBack
<1>3. ASSUME NEW j \in Jobs, TearDown(e, j) PROVE GateCore'
  <2>1. \A k \in Jobs : row'[k].state \in OccupyingStates =>
          row[k].state \in OccupyingStates /\ row'[k].node = row[k].node
    BY <1>0, <1>3 DEF TearDown, OccupyingStates, Row
  <2>2. UNCHANGED <<pc, cur, choice, unchecked>> BY <1>3 DEF TearDown
  <2>3. AnswersKept
    BY <2>1, <2>2 DEF AnswersKept, Answering, Occupying, TypeOK
  <2> QED BY <2>1, <2>2, <2>3, GivingBack
<1>4. CASE ClaimNextJob(e)
  <2>1. PICK j \in Claimable(e) :
          /\ row' = [row EXCEPT ![j].state = "SCHEDULING"]
          /\ unchecked' = IF row[j].node = None THEN unchecked ELSE unchecked \cup {j}
          /\ Handle(e, j, [row[j] EXCEPT !.state = "SCHEDULING"])
          /\ pc[e] = "next" /\ UNCHANGED choice
    BY <1>4 DEF ClaimNextJob, Idling
  <2>2. j \in Jobs /\ ~Locked(j) BY DEF Claimable
  <2>3. \A n \in Nodes : Gated(n)' \subseteq Gated(n)
    BY <1>0, <2>1, <2>2, SchedulerAssumption DEF Gated, Held, Occupying, Row, GatesKeep
  <2>4. Charged' \subseteq Charged
    BY <1>0, <2>1, <2>2 DEF Charged, Placed, Occupying, Row
  <2>5. ASSUME NEW x \in Replicas, pc'[x] \in Answering
        PROVE  /\ pc'[x] = pc[x] /\ cur'[x] = cur[x] /\ choice'[x] = choice[x]
               /\ cur[x] \in Occupying' => cur[x] \in Occupying
    <3>1. x # e /\ pc'[x] = pc[x] /\ cur'[x] = cur[x]
      BY <2>1, <2>5 DEF Handle, Goto, Answering, TypeOK
    <3>2. cur[x] \in Jobs \ {j}
      BY <2>2, <2>5, <3>1 DEF Locked, Transaction, Answering, TypeOK
    <3> QED BY <1>0, <2>1, <2>2, <3>1, <3>2 DEF Occupying
  <2>6. AnswersKept BY <2>5 DEF AnswersKept
  <2> QED BY <2>3, <2>4, <2>6, Shrinking
<1> QED BY <1>1, <1>2, <1>3, <1>4, PassStep(e) DEF PassStep

LEMMA LaunchGates ==
  ASSUME TypeOK, GateCore, NEW e \in Replicas, LaunchStep(e) \/ CallFails(e) \/ Crash(e)
  PROVE  GateCore'
<1>0. row \in [Jobs -> Row] BY DEF TypeOK
<1>1. \A k \in Jobs : row'[k].state \in OccupyingStates =>
        row[k].state \in OccupyingStates /\ row'[k].node = row[k].node
  BY <1>0 DEF LaunchStep, RereadJob, CreateJob, MarkLaunched, CallFails, Crash, OccupyingStates, Row
<1>2. UNCHANGED unchecked
  BY DEF LaunchStep, RereadJob, CreateJob, MarkLaunched, CallFails, Crash
<1>3. /\ pc' \in {[pc EXCEPT ![e] = l] : l \in {"next", "create", "mark"}}
      /\ \A x \in Replicas : x # e => cur'[x] = cur[x] /\ choice'[x] = choice[x]
  BY DEF LaunchStep, RereadJob, CreateJob, MarkLaunched, CallFails, Crash, GiveUp, Drop, Goto, TypeOK
<1>4. AnswersKept
  BY <1>1, <1>3 DEF AnswersKept, Answering, Occupying, TypeOK
<1> QED BY <1>1, <1>2, <1>4, GivingBack

LEMMA ScheduleGates ==
  ASSUME TypeOK, OnePass, GateCore, NEW e \in Replicas, ScheduleStep(e) PROVE GateCore'
<1>0. /\ row \in [Jobs -> Row] /\ pc[e] # "next" /\ cur[e] \in Jobs
      /\ Held \in [Nodes -> SUBSET Jobs] /\ ready \in SUBSET Nodes
      /\ Usage(cur[e]) \in SUBSET Jobs
  BY DEF TypeOK, ScheduleStep, BeginPass, QuotaGate, PlacementGate, BindJob, RequeueJob, At,
         Held, Usage, Occupying
<1>1. CASE BeginPass(e)
  <2>1. UNCHANGED <<row, unchecked, cur, choice>> BY <1>1 DEF BeginPass, Deciding
  <2>2. AnswersKept
    BY <1>1, <2>1 DEF BeginPass, Goto, AnswersKept, Answering, Occupying, TypeOK
  <2> QED BY <2>1, <2>2, GivingBack
<1>2. CASE QuotaGate(e)
  <2>1. UNCHANGED <<row, unchecked, cur, choice>> BY <1>2 DEF QuotaGate, Deciding
  <2>2. pc' = [pc EXCEPT ![e] = IF Affords(cur[e], Usage(cur[e])) THEN "place" ELSE "requeue"]
    BY <1>2 DEF QuotaGate, Goto
  <2>3. UNCHANGED <<Held, Charged, Occupying>> /\ \A n \in Nodes : Gated(n)' = Gated(n)
    BY <2>1 DEF Held, Charged, Placed, Occupying, Gated
  <2>4. RoomAnswered' BY <2>1, <2>2, <2>3 DEF GateCore, RoomAnswered, TypeOK
  <2>5. QuotaAnswered'
    <3> SUFFICES ASSUME NEW x \in Replicas, pc'[x] \in {"place", "bind"}, cur[x] \in Occupying
                 PROVE  Charged \cup {cur[x]} \in Budget
      BY <2>1, <2>3 DEF QuotaAnswered
    <3>1. CASE x # e BY <2>2, <3>1 DEF GateCore, QuotaAnswered, TypeOK
    <3>2. CASE x = e
      <4>1. Affords(cur[e], Usage(cur[e])) /\ cur[e] \in Usage(cur[e])
        BY <1>0, <2>2, <3>2 DEF Usage, Sharing, TypeOK
      <4>2. Charged \cap Sharing(cur[e]) \subseteq Usage(cur[e])
        BY DEF Charged, Placed, Usage
      <4>3. Charged \in Budget BY DEF GateCore
      <4> HIDE DEF Usage, Charged
      <4> QED BY <1>0, <3>2, <4>1, <4>2, <4>3, SchedulerAssumption DEF GatesKeep
    <3> QED BY <3>1, <3>2
  <2> QED BY <2>3, <2>4, <2>5 DEF GateCore
<1>3. CASE PlacementGate(e)
  <2> DEFINE n == Place(cur[e], Held, ready)
  <2>1. UNCHANGED <<row, unchecked, cur>> BY <1>3 DEF PlacementGate, Deciding
  <2>2. /\ pc[e] = "place" /\ choice' = [choice EXCEPT ![e] = n]
        /\ pc' = [pc EXCEPT ![e] = IF n = None THEN "requeue" ELSE "bind"]
    BY <1>3 DEF PlacementGate, Goto, At
  <2>3. UNCHANGED <<Held, Charged, Occupying>> /\ \A m \in Nodes : Gated(m)' = Gated(m)
    BY <2>1 DEF Held, Charged, Placed, Occupying, Gated
  <2>4. n \in Nodes \cup {None} /\ (n # None => Gated(n) \cup {cur[e]} \in Room[n])
    <3>1. n \in ready \cup {None} BY <1>0, SchedulerAssumption DEF GatesKeep
    <3>2. ASSUME n # None PROVE Gated(n) \cup {cur[e]} \in Room[n]
      <4>1. n \in Nodes BY <1>0, <3>1, <3>2
      <4>2. Gated(n) \subseteq Held[n] /\ Gated(n) \in Room[n]
        BY <4>1 DEF Gated, GateCore
      <4> QED BY <1>0, <3>2, <4>2, SchedulerAssumption DEF GatesKeep
    <3> QED BY <1>0, <3>1, <3>2
  <2>5. QuotaAnswered'
    BY <2>1, <2>2, <2>3 DEF GateCore, QuotaAnswered, TypeOK
  <2>6. RoomAnswered'
    <3> SUFFICES ASSUME NEW x \in Replicas, pc'[x] = "bind", cur[x] \in Occupying
                 PROVE  (Gated(choice[x]))' \cup {cur[x]} \in Room[choice'[x]]
      BY <2>1, <2>3 DEF RoomAnswered
    <3>1. CASE x # e
      <4>1. pc[x] = "bind" /\ choice'[x] = choice[x] /\ choice[x] \in Nodes
        BY <2>2, <3>1 DEF TypeOK
      <4>2. Gated(choice[x]) \cup {cur[x]} \in Room[choice[x]]
        BY <4>1 DEF GateCore, RoomAnswered
      <4>3. (Gated(choice[x]))' = Gated(choice[x]) BY <2>1, <4>1 DEF Gated, Held, Occupying
      <4> QED BY <4>1, <4>2, <4>3
    <3>2. CASE x = e
      <4>1. n # None /\ n \in Nodes /\ choice'[x] = n
        BY <2>2, <2>4, <3>2 DEF TypeOK
      <4> HIDE DEF n
      <4>2. (Gated(choice[x]))' = Gated(n) BY <2>1, <4>1 DEF Gated, Held, Occupying
      <4> QED BY <2>4, <3>2, <4>1, <4>2
    <3> QED BY <3>1, <3>2
  <2> QED BY <2>3, <2>5, <2>6 DEF GateCore
<1>4. CASE BindJob(e)
  <2>0. pc[e] = "bind" /\ cur[e] \in Jobs /\ choice[e] \in Nodes
    BY <1>4 DEF BindJob, At, TypeOK
  <2>2. PICK j \in Jobs, n \in Nodes : j = cur[e] /\ n = choice[e] BY <2>0
  <2>1. /\ pc[e] = "bind" /\ pc' = [pc EXCEPT ![e] = "reread"] /\ cur' = cur
        /\ row' = [row EXCEPT ![j].node = n]
        /\ unchecked' = IF j \in Occupying THEN unchecked \ {j} ELSE unchecked
    BY <1>4, <2>2 DEF BindJob, At, Goto
  <2>3. \A k \in Jobs : row'[k].state = row[k].state /\ (k # j => row'[k].node = row[k].node)
    BY <1>0, <2>1 DEF Row
  <2>4. row'[j].node = n BY <1>0, <2>1, <2>2 DEF Row
  <2>5. Occupying' = Occupying BY <2>3 DEF Occupying
  <2>6. \A x \in Replicas : pc'[x] \notin {"place", "bind"}
    <3>1. \A x \in Replicas : x # e => pc[x] \notin Transaction
      BY <2>1 DEF OnePass, Transaction
    <3> QED BY <2>1, <3>1 DEF Transaction, TypeOK
  <2>7. QuotaAnswered' /\ RoomAnswered' BY <2>6 DEF QuotaAnswered, RoomAnswered
  <2>8. CASE j \in Occupying
    <3>1. Gated(n) \cup {j} \in Room[n] /\ Charged \cup {j} \in Budget
      BY <2>1, <2>2, <2>8 DEF GateCore, QuotaAnswered, RoomAnswered
    <3>2. Gated(n)' \subseteq Gated(n) \cup {j}
      BY <2>1, <2>2, <2>3, <2>5, <2>8 DEF Gated, Held
    <3>3. \A m \in Nodes : m # n => Gated(m)' \subseteq Gated(m)
      BY <2>1, <2>2, <2>3, <2>4, <2>5, <2>8 DEF Gated, Held
    <3>4. Charged' \subseteq Charged \cup {j}
      BY <2>1, <2>2, <2>3, <2>5, <2>8 DEF Charged, Placed
    <3>5. \A m \in Nodes : \A S \in Room[m] : \A T : T \subseteq S => T \in Room[m]
      BY SchedulerAssumption DEF GatesKeep
    <3>6. \A S \in Budget : \A T : T \subseteq S => T \in Budget BY SchedulerAssumption DEF GatesKeep
    <3>7. \A m \in Nodes : Gated(m)' \in Room[m]
      <4> TAKE m \in Nodes
      <4>1. CASE m = n BY <3>1, <3>2, <3>5, <4>1
      <4>2. CASE m # n BY <3>3, <3>5, <4>2 DEF GateCore
      <4> QED BY <4>1, <4>2
    <3>8. Charged' \in Budget BY <3>1, <3>4, <3>6
    <3> QED BY <2>7, <3>7, <3>8 DEF GateCore
  <2>9. CASE j \notin Occupying
    <3>1. \A m \in Nodes : Gated(m)' = Gated(m)
      BY <2>1, <2>2, <2>3, <2>5, <2>9 DEF Gated, Held
    <3>2. Charged' = Charged
      BY <2>1, <2>2, <2>3, <2>5, <2>9 DEF Charged, Placed
    <3> QED BY <2>7, <3>1, <3>2 DEF GateCore
  <2> QED BY <2>8, <2>9
<1>5. CASE RequeueJob(e)
  <2>1. /\ pc' = [pc EXCEPT ![e] = "next"]
        /\ \A x \in Replicas : x # e => cur'[x] = cur[x] /\ choice'[x] = choice[x]
    BY <1>5 DEF RequeueJob, GiveUp, Drop, Goto, TypeOK
  <2>2. \A k \in Jobs : row'[k].state \in OccupyingStates =>
          /\ row[k].state \in OccupyingStates /\ row'[k].node = row[k].node
          /\ k \in unchecked => k \in unchecked'
    BY <1>0, <1>5 DEF RequeueJob, OccupyingStates
  <2>3. AnswersKept
    BY <2>1, <2>2 DEF AnswersKept, Answering, Occupying, TypeOK
  <2> QED BY <2>2, <2>3, GivingBack
<1> QED BY <1>1, <1>2, <1>3, <1>4, <1>5, ScheduleStep(e) DEF ScheduleStep

(* The advisory lock: the transaction is entered only where none is open *)
LEMMA LockKept == ASSUME TypeOK, OnePass, [Next]_vars PROVE OnePass'
<1>1. CASE UNCHANGED vars
  BY <1>1 DEF vars, OnePass
<1>2. ASSUME UserStep \/ NodeStep PROVE OnePass'
  <2>1. pc' = pc
    BY <1>2 DEF UserStep, NodeStep, SubmitJob, CancelJob, Finish, RetryJob, NodeLost, NodeFound, control
  <2> QED BY <2>1 DEF OnePass
<1>3. ASSUME NEW e \in Replicas, BeginPass(e) PROVE OnePass'
  BY <1>3 DEF BeginPass, Goto, PassInFlight, OnePass, TypeOK
<1>4. ASSUME NEW e \in Replicas,
             PassStep(e) \/ ScheduleStep(e) \/ LaunchStep(e) \/ CallFails(e) \/ Crash(e),
             ~BeginPass(e)
      PROVE  OnePass'
  <2>1. PICK label : /\ pc' = pc \/ pc' = [pc EXCEPT ![e] = label]
                     /\ label \in Transaction => pc[e] \in Transaction
    <3>1. CASE PassStep(e)
      BY <3>1 DEF PassStep, ListJobs, StartClaiming, ClaimNextJob, EndPass, ReconcileJob,
                  TearDown, Handle, Goto, Transaction
    <3>2. CASE ScheduleStep(e)
      BY <1>4, <3>2 DEF ScheduleStep, QuotaGate, PlacementGate, BindJob, RequeueJob, At,
                  GiveUp, Goto, Transaction
    <3>3. CASE LaunchStep(e)
      BY <3>3 DEF LaunchStep, RereadJob, CreateJob, MarkLaunched, GiveUp, Goto, Transaction
    <3>4. CASE CallFails(e) \/ Crash(e)
      BY <3>4 DEF CallFails, Crash, GiveUp, Goto, Transaction
    <3> QED BY <1>4, <3>1, <3>2, <3>3, <3>4
  <2> QED BY <2>1 DEF OnePass, TypeOK
<1> QED BY <1>1, <1>2, <1>3, <1>4 DEF Next, UserStep, NodeStep, ReplicaStep

LEMMA GatesStart == ASSUME Init PROVE GateInv
<1>1. TypeOK BY TypesStart
<1>2. Occupying = {} BY DEF Init, NoRow, Occupying, OccupyingStates
<1>3. Charged = {} /\ \A n \in Nodes : Gated(n) = {}
  BY <1>2 DEF Charged, Placed, Gated, Held
<1>4. OnePass /\ QuotaAnswered /\ RoomAnswered
  BY DEF Init, OnePass, QuotaAnswered, RoomAnswered, Transaction
<1> QED BY <1>1, <1>3, <1>4, SchedulerAssumption DEF GateInv, GatesKeep

LEMMA GatesStep == ASSUME GateInv, [Next]_vars PROVE GateInv'
<1>1. TypeOK /\ OnePass /\ GateCore BY DEF GateInv, GateCore
<1>2. TypeOK' /\ OnePass' BY <1>1, TypesStep, LockKept
<1>3. GateCore'
  <2>1. CASE UNCHANGED vars
    <3>1. AnswersKept BY <2>1 DEF vars, AnswersKept, Occupying
    <3> QED BY <1>1, <2>1, <3>1, GivingBack DEF vars
  <2>2. CASE Next
    BY <1>1, <2>2, UserGates, PassGates, ScheduleGates, LaunchGates
       DEF Next, UserStep, NodeStep, ReplicaStep
  <2> QED BY <2>1, <2>2
<1> QED BY <1>2, <1>3 DEF GateInv, GateCore

(* What a gate of scheduleJob answered is still true when the binding is   *)
(* written, for any number of replicas and any gates that keep the         *)
(* assumption: the argument db/locks.js makes for its advisory lock.       *)
THEOREM GatesHold == Spec => []GateInv
<1> QED BY GatesStart, GatesStep, PTL DEF Spec

(* No two passes give the same capacity of a node away, for any number of  *)
(* replicas.                                                               *)
THEOREM RoomNeverRaced == Spec => []GatedWithinRoom
<1>1. GateInv => GatedWithinRoom BY DEF GateInv, Gated, GatedWithinRoom
<1> QED BY <1>1, GatesHold, PTL

(* No two passes give the same part of a project's quota away.             *)
THEOREM QuotaNeverRaced == Spec => []GatedWithinQuota
<1>1. GateInv => GatedWithinQuota BY DEF GateInv, Charged, GatedWithinQuota
<1> QED BY <1>1, GatesHold, PTL

----------------------------------------------------------------------------
(* A single replica *)

Sole == TypeOK /\ unchecked = {} /\ RowsCoherent /\ ListsFresh /\ HoldsFresh

LEMMA SoleUser ==
  ASSUME Sole, UserStep \/ NodeStep
  PROVE  unchecked' = {} /\ RowsCoherent' /\ ListsFresh' /\ HoldsFresh'
<1>0. /\ row \in [Jobs -> Row] /\ pod \in [Jobs -> Nodes \cup {None}]
      /\ IsListing(listed) /\ cur \in [Replicas -> Jobs \cup {None}]
  BY DEF Sole, TypeOK
<1>1. UNCHANGED <<control, unchecked>>
  BY DEF UserStep, NodeStep, SubmitJob, CancelJob, Finish, RetryJob, NodeLost, NodeFound
<1>2. \A k \in Jobs : row[k].state \in {"SCHEDULING", "CANCELLING"} =>
        row'[k].state \in {row[k].state, "CANCELLING"} /\ row'[k].node = row[k].node
  <2>1. ASSUME NEW j \in Jobs, SubmitJob(j) \/ CancelJob(j) \/ Finish(j) \/ RetryJob(j)
        PROVE  \A k \in Jobs : row[k].state \in {"SCHEDULING", "CANCELLING"} =>
                 row'[k].state \in {row[k].state, "CANCELLING"} /\ row'[k].node = row[k].node
    BY <1>0, <2>1 DEF SubmitJob, CancelJob, Finish, RetryJob, CancelNeedsExecutor, Row
  <2> QED BY <2>1 DEF UserStep, NodeStep, NodeLost, NodeFound
<1>3. RowsCoherent'
  <2>1. ASSUME NEW j \in Jobs, SubmitJob(j) \/ CancelJob(j) PROVE RowsCoherent'
    BY <1>0, <2>1 DEF SubmitJob, CancelJob, CancelNeedsExecutor, Sole, RowsCoherent,
                      Occupying, OccupyingStates, Row
  <2>2. ASSUME NEW j \in Jobs, Finish(j) \/ RetryJob(j) PROVE RowsCoherent'
    BY <1>0, <2>2 DEF Finish, RetryJob, Sole, RowsCoherent, Occupying, OccupyingStates, Row
  <2>3. CASE NodeStep
    BY <2>3 DEF NodeStep, NodeLost, NodeFound, Sole, RowsCoherent, Occupying
  <2> QED BY <2>1, <2>2, <2>3 DEF UserStep
<1>4. ListsFresh'
  BY <1>0, <1>1, <1>2 DEF Sole, ListsFresh, control, IsListing
<1>5. HoldsFresh'
  BY <1>0, <1>1, <1>2 DEF Sole, HoldsFresh, control
<1> QED BY <1>1, <1>3, <1>4, <1>5 DEF Sole

LEMMA SolePass ==
  ASSUME SoleReplica, Sole, NEW e \in Replicas, PassStep(e)
  PROVE  unchecked' = {} /\ RowsCoherent' /\ ListsFresh' /\ HoldsFresh'
<1>0. /\ row \in [Jobs -> Row] /\ pod \in [Jobs -> Nodes \cup {None}]
      /\ IsListing(listed) /\ cur \in [Replicas -> Jobs \cup {None}]
      /\ pc[e] = "next" /\ \A x \in Replicas : x = e
  BY DEF Sole, TypeOK, SoleReplica, PassStep, ListJobs, StartClaiming, ClaimNextJob, EndPass,
         ReconcileJob, TearDown, Idling
<1>1. CASE ListJobs(e) \/ StartClaiming(e) \/ EndPass(e)
  <2>1. UNCHANGED <<row, pod, unchecked, pc>>
    BY <1>1 DEF ListJobs, StartClaiming, EndPass
  <2>2. ListsFresh'
    BY <1>0, <1>1, <2>1 DEF ListJobs, StartClaiming, EndPass, Idling, Sole, ListsFresh,
                            IsListing, TypeOK
  <2> QED BY <1>0, <2>1, <2>2 DEF Sole, RowsCoherent, HoldsFresh, Occupying
<1>2. CASE ClaimNextJob(e)
  <2>1. PICK j \in Jobs :
          /\ row[j].state = "QUEUED" /\ row' = [row EXCEPT ![j].state = "SCHEDULING"]
          /\ unchecked' = IF row[j].node = None THEN unchecked ELSE unchecked \cup {j}
          /\ Handle(e, j, [row[j] EXCEPT !.state = "SCHEDULING"])
          /\ phase[e] = "claim" /\ UNCHANGED <<pod, phase, listed>>
    BY <1>2 DEF ClaimNextJob, Claimable, Idling
  <2>2. row[j].node = None /\ DOMAIN listed[e] = {} /\ unchecked' = {}
    BY <2>1 DEF Sole, RowsCoherent, ListsFresh
  <2>3. RowsCoherent'
    BY <1>0, <2>1, <2>2 DEF Sole, RowsCoherent, Occupying, OccupyingStates, Row
  <2>4. ListsFresh'
    BY <1>0, <2>1, <2>2 DEF Sole, ListsFresh
  <2>5. HoldsFresh'
    BY <1>0, <2>1, <2>2 DEF Handle, Goto, HoldsFresh, Unplaced, Launching, Row, Sole, TypeOK
  <2> QED BY <2>2, <2>3, <2>4, <2>5
<1>3. ASSUME NEW j \in Jobs, ReconcileJob(e, j)
      PROVE  unchecked' = {} /\ RowsCoherent' /\ ListsFresh' /\ HoldsFresh'
  <2>1. /\ UNCHANGED <<row, pod, unchecked, phase>> /\ phase[e] = "reconcile"
        /\ j \in DOMAIN listed[e] /\ Handle(e, j, listed[e][j])
        /\ listed' = [listed EXCEPT ![e] = [k \in DOMAIN listed[e] \ {j} |-> listed[e][k]]]
    BY <1>3 DEF ReconcileJob, Unlist, Idling
  <2>2. /\ listed[e][j].node = row[j].node /\ row[j].state \in {"SCHEDULING", "CANCELLING"}
    BY <2>1 DEF Sole, ListsFresh
  <2>3. listed'[e] = [k \in DOMAIN listed[e] \ {j} |-> listed[e][k]]
    BY <1>0, <2>1 DEF IsListing
  <2>4. RowsCoherent' BY <2>1 DEF Sole, RowsCoherent, Occupying
  <2>5. ListsFresh' BY <1>0, <2>1, <2>3 DEF Sole, ListsFresh
  <2>6. HoldsFresh'
    BY <1>0, <2>1, <2>2, <2>3 DEF Handle, Goto, HoldsFresh, Unplaced, Launching, Sole, TypeOK
  <2> QED BY <2>1, <2>4, <2>5, <2>6 DEF Sole
<1>4. ASSUME NEW j \in Jobs, TearDown(e, j)
      PROVE  unchecked' = {} /\ RowsCoherent' /\ ListsFresh' /\ HoldsFresh'
  <2>1. /\ UNCHANGED <<unchecked, phase, pc>>
        /\ phase[e] = "reconcile" /\ j \in DOMAIN listed[e]
        /\ listed' = [listed EXCEPT ![e] = [k \in DOMAIN listed[e] \ {j} |-> listed[e][k]]]
        /\ pod' = [pod EXCEPT ![j] = None]
        /\ row' = [row EXCEPT ![j].state = IF @ = "CANCELLING" THEN "CANCELLED" ELSE @]
    BY <1>4 DEF TearDown, Unlist, Idling
  <2>2. listed'[e] = [k \in DOMAIN listed[e] \ {j} |-> listed[e][k]]
    BY <1>0, <2>1 DEF IsListing
  <2>3. row[j].state \in {"SCHEDULING", "CANCELLING"} BY <2>1 DEF Sole, ListsFresh
  <2>4. \A k \in Jobs \ {j} : row'[k] = row[k] /\ pod'[k] = pod[k] BY <1>0, <2>1
  <2>5. /\ row'[j].state \in {"SCHEDULING", "CANCELLED"} /\ row'[j].node = row[j].node
        /\ pod'[j] = None
    BY <1>0, <2>1, <2>3 DEF Row
  <2>6. RowsCoherent' BY <2>4, <2>5 DEF Sole, RowsCoherent, Occupying
  <2>7. ListsFresh'
    BY <1>0, <2>1, <2>2, <2>4 DEF Sole, ListsFresh, IsListing
  <2>8. HoldsFresh' BY <1>0, <2>1 DEF HoldsFresh
  <2> QED BY <2>1, <2>6, <2>7, <2>8 DEF Sole
<1> QED BY <1>1, <1>2, <1>3, <1>4, PassStep(e) DEF PassStep

LEMMA SoleSchedule ==
  ASSUME SoleReplica, Sole, NEW e \in Replicas, ScheduleStep(e)
  PROVE  unchecked' = {} /\ RowsCoherent' /\ ListsFresh' /\ HoldsFresh'
<1>0. /\ row \in [Jobs -> Row] /\ pod \in [Jobs -> Nodes \cup {None}]
      /\ cur \in [Replicas -> Jobs \cup {None}] /\ pc[e] \in Unplaced
      /\ \A x \in Replicas : x = e
  BY DEF Sole, TypeOK, SoleReplica, ScheduleStep, BeginPass, QuotaGate, PlacementGate,
         BindJob, RequeueJob, At, Unplaced
<1>1. PICK j \in Jobs : j = cur[e] BY <1>0 DEF Sole, TypeOK, Unplaced
<1>2. /\ j \notin DOMAIN listed[e] /\ row[j].state \in {"SCHEDULING", "CANCELLING"}
      /\ row[j].node = None /\ pod[j] = None /\ phase[e] # "idle"
  BY <1>0, <1>1 DEF Sole, HoldsFresh, RowsCoherent, ListsFresh, Unplaced
<1>3. CASE BeginPass(e) \/ QuotaGate(e) \/ PlacementGate(e)
  <2>1. UNCHANGED <<row, pod, phase, cur, copy, listed, unchecked>>
    BY <1>3 DEF BeginPass, QuotaGate, PlacementGate, Deciding
  <2>2. pc'[e] \in {"quota", "place", "bind", "requeue"}
    BY <1>3 DEF BeginPass, QuotaGate, PlacementGate, Goto, Sole, TypeOK
  <2>3. HoldsFresh'
    BY <1>0, <1>1, <1>2, <2>1, <2>2 DEF HoldsFresh, Unplaced, Launching
  <2>4. ListsFresh' BY <1>0, <1>2, <2>1, <2>2 DEF Sole, ListsFresh
  <2> QED BY <2>1, <2>3, <2>4 DEF Sole, RowsCoherent, Occupying
<1>4. CASE BindJob(e)
  <2>1. /\ UNCHANGED <<pod, phase, cur, copy, listed>> /\ pc'[e] = "reread"
        /\ choice[e] \in Nodes /\ unchecked' = {}
        /\ row' = [row EXCEPT ![j].node = choice[e]]
    BY <1>1, <1>4 DEF BindJob, At, Goto, Sole, TypeOK
  <2>2. \A k \in Jobs \ {j} : row'[k] = row[k] BY <1>0, <2>1
  <2>3. row'[j].state = row[j].state /\ row'[j].node = choice[e] BY <1>0, <2>1 DEF Row
  <2>4. choice[e] # None BY <2>1, SchedulerAssumption
  <2>5. RowsCoherent' BY <1>2, <2>1, <2>2, <2>3 DEF Sole, RowsCoherent, Occupying
  <2>6. ListsFresh'
    BY <1>0, <1>2, <2>1, <2>2 DEF Sole, ListsFresh, TypeOK, IsListing
  <2>7. HoldsFresh'
    BY <1>0, <1>1, <1>2, <2>1, <2>3, <2>4 DEF HoldsFresh, Unplaced, Launching
  <2> QED BY <2>1, <2>5, <2>6, <2>7
<1>5. CASE RequeueJob(e)
  <2>1. /\ UNCHANGED <<pod, phase, listed>> /\ pc'[e] = "next" /\ unchecked' = {}
        /\ row' = IF row[j].state = "SCHEDULING"
                  THEN [row EXCEPT ![j] = [state |-> "QUEUED", node |-> None]] ELSE row
    BY <1>1, <1>5 DEF RequeueJob, GiveUp, Goto, Sole, TypeOK
  <2>2. \A k \in Jobs \ {j} : row'[k] = row[k] BY <1>0, <2>1
  <2>3. row'[j].state \in {"QUEUED", "CANCELLING"} /\ row'[j].node = None
    BY <1>0, <1>2, <2>1 DEF Row
  <2>4. RowsCoherent' BY <1>2, <2>1, <2>2, <2>3 DEF Sole, RowsCoherent, Occupying
  <2>5. ListsFresh'
    BY <1>0, <1>2, <2>1, <2>2 DEF Sole, ListsFresh, TypeOK, IsListing
  <2>6. HoldsFresh' BY <1>0, <2>1 DEF HoldsFresh
  <2> QED BY <2>1, <2>4, <2>5, <2>6
<1> QED BY <1>3, <1>4, <1>5, ScheduleStep(e) DEF ScheduleStep

LEMMA SoleLaunch ==
  ASSUME SoleReplica, Sole, NEW e \in Replicas, LaunchStep(e) \/ CallFails(e) \/ Crash(e)
  PROVE  unchecked' = {} /\ RowsCoherent' /\ ListsFresh' /\ HoldsFresh'
<1>0. /\ row \in [Jobs -> Row] /\ pod \in [Jobs -> Nodes \cup {None}]
      /\ IsListing(listed) /\ cur \in [Replicas -> Jobs \cup {None}]
      /\ \A x \in Replicas : x = e
  BY DEF Sole, TypeOK, SoleReplica
<1>1. CASE RereadJob(e)
  <2>1. /\ UNCHANGED <<row, pod, phase, cur, listed, unchecked>>
        /\ pc[e] = "reread" /\ pc'[e] = "create" /\ copy'[e] = row[cur[e]]
    BY <1>1 DEF RereadJob, At, Goto, Sole, TypeOK
  <2>2. HoldsFresh' BY <1>0, <2>1 DEF Sole, HoldsFresh, Unplaced, Launching
  <2>3. ListsFresh' BY <1>0, <2>1 DEF Sole, ListsFresh
  <2> QED BY <2>1, <2>2, <2>3 DEF Sole, RowsCoherent, Occupying
<1>2. CASE CreateJob(e)
  <2>1. /\ UNCHANGED <<row, phase, cur, copy, listed, unchecked>>
        /\ pc[e] = "create" /\ pc'[e] = "mark"
    BY <1>2 DEF CreateJob, At, Goto, Sole, TypeOK
  <2>2. PICK j \in Jobs : j = cur[e] BY <2>1 DEF Sole, TypeOK
  <2>3. /\ row[j].node # None /\ copy[e].node = row[j].node
        /\ row[j].state \in {"SCHEDULING", "CANCELLING"}
    BY <2>1, <2>2 DEF Sole, HoldsFresh, Launching
  <2>4. pod' = [pod EXCEPT ![j] = IF @ = None THEN row[j].node ELSE @]
    BY <1>2, <2>2, <2>3 DEF CreateJob
  <2>5. RowsCoherent'
    BY <1>0, <2>1, <2>3, <2>4 DEF Sole, RowsCoherent, Occupying, OccupyingStates
  <2>6. HoldsFresh' BY <1>0, <2>1 DEF Sole, HoldsFresh, Unplaced, Launching
  <2>7. ListsFresh' BY <1>0, <2>1 DEF Sole, ListsFresh
  <2> QED BY <2>1, <2>5, <2>6, <2>7 DEF Sole
<1>3. CASE MarkLaunched(e)
  <2>1. /\ UNCHANGED <<pod, phase, listed, unchecked>> /\ pc[e] = "mark" /\ pc'[e] = "next"
        /\ row' = IF row[cur[e]].state = "SCHEDULING"
                  THEN [row EXCEPT ![cur[e]].state = "STARTING"] ELSE row
    BY <1>3 DEF MarkLaunched, GiveUp, At, Goto, Sole, TypeOK
  <2>2. PICK j \in Jobs : j = cur[e] BY <2>1 DEF Sole, TypeOK
  <2>3. j \notin DOMAIN listed[e] BY <2>1, <2>2 DEF Sole, HoldsFresh
  <2>4. \A k \in Jobs \ {j} : row'[k] = row[k] BY <1>0, <2>1, <2>2
  <2>5. /\ row'[j].node = row[j].node
        /\ row'[j].state = IF row[j].state = "SCHEDULING" THEN "STARTING" ELSE row[j].state
    <3>1. row' = IF row[j].state = "SCHEDULING" THEN [row EXCEPT ![j].state = "STARTING"] ELSE row
      BY <2>1, <2>2
    <3> QED BY <1>0, <3>1 DEF Row
  <2>6. RowsCoherent'
    BY <2>1, <2>4, <2>5 DEF Sole, RowsCoherent, Occupying, OccupyingStates
  <2>7. ListsFresh'
    <3>1. \A k \in DOMAIN listed[e] : row'[k] = row[k] BY <1>0, <2>3, <2>4 DEF IsListing
    <3>2. ListsFresh /\ UNCHANGED <<phase, listed>> /\ pc'[e] = "next" BY <2>1 DEF Sole
    <3>3. \A x \in Replicas : x = e BY <1>0
    <3> QED BY <3>1, <3>2, <3>3 DEF ListsFresh
  <2>8. HoldsFresh' BY <1>0, <2>1 DEF HoldsFresh
  <2> QED BY <2>1, <2>6, <2>7, <2>8 DEF Sole
<1>4. CASE CallFails(e) \/ Crash(e)
  <2>1. UNCHANGED <<row, pod, unchecked>> /\ pc'[e] = "next"
    BY <1>4 DEF CallFails, Crash, GiveUp, Goto, Sole, TypeOK
  <2>2. ListsFresh'
    BY <1>0, <1>4, <2>1 DEF CallFails, Crash, GiveUp, Sole, ListsFresh, IsListing, TypeOK
  <2> QED BY <1>0, <2>1, <2>2 DEF Sole, RowsCoherent, HoldsFresh, Occupying
<1> QED BY <1>1, <1>2, <1>3, <1>4, LaunchStep(e) \/ CallFails(e) \/ Crash(e) DEF LaunchStep

LEMMA SoleStart == ASSUME Init PROVE SoleInv
  BY GatesStart DEF Init, SoleInv, RowsCoherent, ListsFresh, HoldsFresh, NoRow

LEMMA SoleStep == ASSUME SoleReplica, SoleInv, [Next]_vars PROVE SoleInv'
<1>1. GateInv' BY GatesStep DEF SoleInv
<1>2. Sole BY DEF SoleInv, Sole, GateInv
<1>3. (unchecked = {})' /\ RowsCoherent' /\ ListsFresh' /\ HoldsFresh'
  <2>1. CASE UNCHANGED vars
    BY <1>2, <2>1 DEF vars, Sole, RowsCoherent, ListsFresh, HoldsFresh, Occupying
  <2>2. CASE Next
    BY <1>2, <2>2, SoleUser, SolePass, SoleSchedule, SoleLaunch
       DEF Next, UserStep, NodeStep, ReplicaStep
  <2> QED BY <2>1, <2>2
<1> QED BY <1>1, <1>3 DEF SoleInv

(* With one replica every copy of a row is stale by a cancel at most, and  *)
(* no queued job is bound.                                                 *)
THEOREM SoleHolds == SoleReplica => (Spec => []SoleInv)
<1> SUFFICES ASSUME SoleReplica PROVE Spec => []SoleInv
  OBVIOUS
<1>1. SoleInv /\ [Next]_vars => SoleInv' BY SoleStep
<1> QED BY <1>1, SoleStart, PTL DEF Spec

(* With one replica no node is ever promised more than it has, whatever    *)
(* jobs are submitted, cancelled, retried or interrupted, whatever nodes   *)
(* come and go, and wherever a pass is cut off (README.md:199).            *)
THEOREM NeverOvercommitted == SoleReplica => (Spec => []NoOvercommit)
<1> SUFFICES ASSUME SoleReplica PROVE Spec => []NoOvercommit
  OBVIOUS
<1>1. SoleInv => NoOvercommit
  <2> SUFFICES ASSUME SoleInv, NEW n \in Nodes PROVE Held[n] \in Room[n]
    BY DEF NoOvercommit
  <2>1. Gated(n) \in Room[n] /\ Gated(n) = Held[n] BY DEF SoleInv, GateInv, Gated
  <2> QED BY <2>1
<1> QED BY <1>1, SoleHolds, PTL

(* With one replica a Pod is pinned to the node its job is accounted on.   *)
THEOREM PodsWhereBound == SoleReplica => (Spec => []PodWhereBound)
<1> SUFFICES ASSUME SoleReplica PROVE Spec => []PodWhereBound
  OBVIOUS
<1>1. SoleInv => PodWhereBound
  BY DEF SoleInv, RowsCoherent, PodWhereBound, Occupying
<1> QED BY <1>1, SoleHolds, PTL

(* With one replica the Pods pinned to a node fit on it together.          *)
THEOREM PodsAlwaysFit == SoleReplica => (Spec => []PodsWithinRoom)
<1> SUFFICES ASSUME SoleReplica PROVE Spec => []PodsWithinRoom
  OBVIOUS
<1>1. SoleInv => PodsWithinRoom
  <2> SUFFICES ASSUME SoleInv, NEW n \in Nodes PROVE {j \in Jobs : pod[j] = n} \in Room[n]
    BY DEF PodsWithinRoom
  <2>1. n # None BY SchedulerAssumption DEF GatesKeep
  <2>2. {j \in Jobs : pod[j] = n} \subseteq Held[n]
    BY <2>1 DEF SoleInv, RowsCoherent, Held, Occupying
  <2>3. Held[n] \in Room[n] BY DEF SoleInv, GateInv, Gated
  <2> QED BY <2>2, <2>3, SchedulerAssumption DEF GatesKeep
<1> QED BY <1>1, SoleHolds, PTL

----------------------------------------------------------------------------
(* The gates of Placement. What a set of jobs adds up to is a fold; that    *)
(* there is such a function, and that the order in which it takes the jobs *)
(* makes no difference, is shown by looking at a smallest set for which it *)
(* would not be so.                                                        *)

LEMMA LeastNat ==
  ASSUME NEW S, S \subseteq Nat, S # {}
  PROVE  \E m \in S : \A k \in S : m <= k
<1>1. PICK m \in S : \A k \in S : ~(<<k, m>> \in OpToRel(<, Nat))
  BY NatLessThanWellFounded, WFMin
<1>2. ASSUME NEW k \in S PROVE m <= k
  <2>1. ~(k < m)
    BY <1>1 DEF OpToRel
  <2> QED BY <2>1
<1> QED BY <1>2

LEMMA Smaller ==
  ASSUME NEW S, IsFiniteSet(S), NEW x \in S
  PROVE  /\ IsFiniteSet(S \ {x}) /\ Cardinality(S) \in Nat /\ Cardinality(S) > 0
         /\ Cardinality(S \ {x}) = Cardinality(S) - 1
<1>1. Cardinality(S \ {x}) = Cardinality(S) - 1 /\ IsFiniteSet(S \ {x})
  BY FS_RemoveElement
<1>2. Cardinality(S \ {x}) \in Nat /\ Cardinality(S) \in Nat
  BY <1>1, FS_CardinalityType
<1> QED BY <1>1, <1>2

Step(f, T, d) == IF T = {} THEN 0
                 ELSE LET x == CHOOSE x \in T : TRUE IN Request[x][d] + f[T \ {x}]

UpTo(S, n) == {T \in SUBSET S : Cardinality(T) <= n}

IsSumTo(f, S, d, n) == f = [T \in UpTo(S, n) |-> Step(f, T, d)]

IsSum(f, S, d) == f = [T \in SUBSET S |-> Step(f, T, d)]

LEMMA SumUpTo ==
  ASSUME NEW S, IsFiniteSet(S), NEW d, NEW n \in Nat
  PROVE  \E f : IsSumTo(f, S, d, n)
<1> DEFINE Sum(f, m) == f = [T \in UpTo(S, m) |-> Step(f, T, d)]
           Bad == {m \in Nat : ~\E f : Sum(f, m)}
<1> SUFFICES ASSUME Bad # {} PROVE FALSE
  BY DEF IsSumTo
<1>1. PICK m \in Bad : \A k \in Bad : m <= k
  BY LeastNat
<1>2. CASE m = 0
  <2> DEFINE f == [T \in UpTo(S, 0) |-> 0]
  <2>1. \A T \in UpTo(S, 0) : T = {}
    BY FS_Subset, FS_EmptySet, FS_CardinalityType DEF UpTo
  <2>2. Sum(f, 0)
    BY <2>1 DEF Step
  <2> QED BY <1>2, <2>2
<1>3. CASE m # 0
  <2>1. m - 1 \in Nat /\ m - 1 \notin Bad
    BY <1>1, <1>3
  <2>2. PICK f : Sum(f, m - 1)
    BY <2>1
  <2> DEFINE g == [T \in UpTo(S, m) |-> Step(f, T, d)]
  <2>3. \A T \in UpTo(S, m - 1) : g[T] = f[T]
    <3>1. \A T \in UpTo(S, m - 1) : T \in UpTo(S, m)
      BY <1>1, FS_Subset, FS_CardinalityType DEF UpTo
    <3>2. \A T \in UpTo(S, m - 1) : f[T] = Step(f, T, d)
      BY <2>2
    <3> QED BY <3>1, <3>2
  <2>4. ASSUME NEW T \in UpTo(S, m), T # {} PROVE Step(g, T, d) = Step(f, T, d)
    <3> DEFINE x == CHOOSE x \in T : TRUE
    <3>1. x \in T
      BY <2>4
    <3> HIDE DEF x
    <3>2. T \ {x} \in UpTo(S, m - 1)
      <4>1. IsFiniteSet(T) /\ T \subseteq S /\ Cardinality(T) <= m
        BY FS_Subset DEF UpTo
      <4>2. Cardinality(T \ {x}) = Cardinality(T) - 1 /\ Cardinality(T) \in Nat
        BY <3>1, <4>1, Smaller
      <4> QED BY <1>1, <4>1, <4>2 DEF UpTo
    <3>3. g[T \ {x}] = f[T \ {x}]
      BY <2>3, <3>2
    <3> HIDE DEF g
    <3> QED BY <3>3 DEF Step, x
  <2>5. \A T \in UpTo(S, m) : Step(g, T, d) = Step(f, T, d)
    BY <2>4 DEF Step
  <2>6. Sum(g, m)
    BY <2>5
  <2> QED BY <1>1, <2>6
<1> QED BY <1>2, <1>3

SumOf(S, d) == CHOOSE f : IsSum(f, S, d)

LEMMA SumIs ==
  ASSUME NEW S, IsFiniteSet(S), NEW d, NEW T \in SUBSET S
  PROVE  SumOf(S, d)[T] = Step(SumOf(S, d), T, d)
<1> DEFINE n == Cardinality(S)
<1>1. n \in Nat /\ UpTo(S, n) = SUBSET S
  BY FS_CardinalityType, FS_Subset DEF UpTo
<1> HIDE DEF n
<1>2. PICK f : IsSumTo(f, S, d, n)
  BY <1>1, SumUpTo
<1>3. IsSum(f, S, d)
  BY <1>1, <1>2 DEF IsSum, IsSumTo
<1>4. IsSum(SumOf(S, d), S, d)
  BY <1>3 DEF SumOf
<1> HIDE DEF SumOf
<1> QED BY <1>4 DEF IsSum

LEMMA TotalIs ==
  ASSUME NEW S, NEW d PROVE Total(Request, S, d) = SumOf(S, d)[S]
BY DEF Total, MapThenSumSet, MapThenFoldSet, SumOf, IsSum, Step

(* The function for a set is the function for a larger one *)
LEMMA SumAgrees ==
  ASSUME NEW S, IsFiniteSet(S), NEW T \in SUBSET S, NEW d
  PROVE  SumOf(S, d)[T] = SumOf(T, d)[T]
<1> DEFINE f == SumOf(S, d)
           g == SumOf(T, d)
           Bad == {n \in Nat : \E U \in SUBSET T : Cardinality(U) = n /\ f[U] # g[U]}
<1>0. IsFiniteSet(T) /\ Cardinality(T) \in Nat
  BY FS_Subset, FS_CardinalityType
<1>1. \A U \in SUBSET T : f[U] = Step(f, U, d) /\ g[U] = Step(g, U, d)
  BY <1>0, SumIs
<1> HIDE DEF f, g
<1> SUFFICES ASSUME Bad # {} PROVE FALSE
  BY <1>0 DEF f, g
<1>2. PICK m \in Bad : \A k \in Bad : m <= k
  BY LeastNat
<1>3. PICK U \in SUBSET T : Cardinality(U) = m /\ f[U] # g[U]
  BY <1>2
<1>4. U # {}
  BY <1>1, <1>3 DEF Step
<1> DEFINE x == CHOOSE x \in U : TRUE
<1>5. x \in U
  BY <1>4
<1> HIDE DEF x
<1>6. f[U \ {x}] = g[U \ {x}]
  <2>1. IsFiniteSet(U)
    BY <1>0, FS_Subset
  <2>2. Cardinality(U \ {x}) = m - 1 /\ m > 0
    BY <1>3, <1>5, <2>1, Smaller
  <2>3. m - 1 \in Nat /\ m - 1 \notin Bad
    BY <1>2, <2>2
  <2> QED BY <2>2, <2>3
<1>7. f[U] = Request[x][d] + f[U \ {x}] /\ g[U] = Request[x][d] + g[U \ {x}]
  BY <1>1, <1>4 DEF Step, x
<1> QED BY <1>3, <1>6, <1>7

LEMMA TotalUnfolds ==
  ASSUME NEW S, IsFiniteSet(S), NEW d
  PROVE  /\ S = {} => Total(Request, S, d) = 0
         /\ S # {} => \E x \in S :
              Total(Request, S, d) = Request[x][d] + Total(Request, S \ {x}, d)
<1>1. Total(Request, S, d) = Step(SumOf(S, d), S, d)
  BY TotalIs, SumIs
<1>2. CASE S = {}
  BY <1>1, <1>2 DEF Step
<1>3. CASE S # {}
  <2> DEFINE x == CHOOSE x \in S : TRUE
  <2>1. x \in S
    BY <1>3
  <2>2. Total(Request, S, d) = Request[x][d] + SumOf(S, d)[S \ {x}]
    BY <1>1, <1>3 DEF Step
  <2> HIDE DEF x
  <2>3. SumOf(S, d)[S \ {x}] = SumOf(S \ {x}, d)[S \ {x}]
    BY SumAgrees
  <2> QED BY <2>1, <2>2, <2>3, <1>3, TotalIs
<1> QED BY <1>2, <1>3

(* Each job asks for a natural number of what is counted *)
Counted(d) == \A j \in Jobs : Request[j][d] \in Nat

LEMMA TotalNat ==
  ASSUME NEW S \in SUBSET Jobs, IsFiniteSet(S), NEW d, Counted(d)
  PROVE  Total(Request, S, d) \in Nat
<1> DEFINE Bad == {n \in Nat : \E U \in SUBSET S :
                     Cardinality(U) = n /\ Total(Request, U, d) \notin Nat}
<1>1. Cardinality(S) \in Nat
  BY FS_CardinalityType
<1> SUFFICES ASSUME Bad # {} PROVE FALSE
  BY <1>1
<1>2. PICK m \in Bad : \A k \in Bad : m <= k
  BY LeastNat
<1>3. PICK U \in SUBSET S : Cardinality(U) = m /\ Total(Request, U, d) \notin Nat
  BY <1>2
<1>4. IsFiniteSet(U) /\ U # {}
  BY <1>3, FS_Subset, TotalUnfolds
<1>5. PICK x \in U : Total(Request, U, d) = Request[x][d] + Total(Request, U \ {x}, d)
  BY <1>4, TotalUnfolds
<1>6. Cardinality(U \ {x}) = m - 1 /\ m > 0
  BY <1>3, <1>4, Smaller
<1>7. m - 1 \in Nat /\ m - 1 \notin Bad
  BY <1>2, <1>6
<1>8. Total(Request, U \ {x}, d) \in Nat
  BY <1>6, <1>7
<1> QED BY <1>3, <1>5, <1>8 DEF Counted

(* The order makes no difference *)
LEMMA TotalTakes ==
  ASSUME NEW S \in SUBSET Jobs, IsFiniteSet(S), NEW d, Counted(d), NEW j \in S
  PROVE  Total(Request, S, d) = Request[j][d] + Total(Request, S \ {j}, d)
<1> DEFINE Sum(U) == Total(Request, U, d)
           Bad == {n \in Nat : \E U \in SUBSET S : \E w \in U :
                     Cardinality(U) = n /\ Sum(U) # Request[w][d] + Sum(U \ {w})}
<1>0. \A U \in SUBSET S : IsFiniteSet(U) /\ Sum(U) \in Nat
  BY FS_Subset, TotalNat
<1>0a. \A U \in SUBSET S : U # {} => \E x \in U : Sum(U) = Request[x][d] + Sum(U \ {x})
  BY <1>0, TotalUnfolds
<1> HIDE DEF Sum
<1>1. Cardinality(S) \in Nat
  BY FS_CardinalityType
<1> SUFFICES ASSUME Bad # {} PROVE FALSE
  BY <1>1 DEF Sum
<1>2. PICK m \in Bad : \A k \in Bad : m <= k
  BY LeastNat
<1>2a. PICK U \in SUBSET S : \E w \in U : Cardinality(U) = m /\ Sum(U) # Request[w][d] + Sum(U \ {w})
  BY <1>2
<1>3. PICK w \in U : Cardinality(U) = m /\ Sum(U) # Request[w][d] + Sum(U \ {w})
  BY <1>2a
<1>4. PICK u \in U : Sum(U) = Request[u][d] + Sum(U \ {u})
  BY <1>0a, <1>3
<1>5. u # w
  BY <1>3, <1>4
<1>6. Cardinality(U \ {u}) = m - 1 /\ Cardinality(U \ {w}) = m - 1 /\ m > 0
  BY <1>0, <1>3, <1>4, Smaller
<1>7. m - 1 \in Nat /\ m - 1 \notin Bad
  <2>1. m \in Nat /\ ~(m <= m - 1)
    BY <1>2
  <2> HIDE DEF Bad
  <2> QED BY <1>2, <1>6, <2>1
<1>8. Sum(U \ {u}) = Request[w][d] + Sum((U \ {u}) \ {w})
  BY <1>3, <1>5, <1>6, <1>7
<1>9. Sum(U \ {w}) = Request[u][d] + Sum((U \ {w}) \ {u})
  BY <1>4, <1>5, <1>6, <1>7
<1>10. (U \ {u}) \ {w} = (U \ {w}) \ {u}
  OBVIOUS
<1>11. Request[u][d] \in Nat /\ Request[w][d] \in Nat /\ Sum((U \ {u}) \ {w}) \in Nat
  BY <1>0, <1>3, <1>4 DEF Counted
<1>12. Sum(U) = Request[w][d] + Sum(U \ {w})
  <2> DEFINE a == Request[u][d]
             b == Request[w][d]
             z == Sum((U \ {u}) \ {w})
  <2>1. Sum(U \ {u}) = b + z /\ Sum(U \ {w}) = a + z /\ Sum(U) = a + Sum(U \ {u})
    BY <1>4, <1>8, <1>9, <1>10
  <2>2. a \in Nat /\ b \in Nat /\ z \in Nat
    BY <1>11
  <2> HIDE DEF a, b, z
  <2>3. Sum(U) = b + Sum(U \ {w})
    BY <2>1, <2>2
  <2> QED BY <2>3 DEF b
<1> QED BY <1>3, <1>12

LEMMA RequestTyped ==
  /\ \A d \in Limits : Counted(d)
  /\ \A j \in Jobs : Request[j].gpuMemory \in Nat
BY GatesAssumption DEF Counted, Limits

LEMMA FiniteJobs ==
  ASSUME NEW S \in SUBSET Jobs PROVE IsFiniteSet(S)
BY GatesAssumption, FS_Subset

LEMMA TotalOfNone ==
  ASSUME NEW d PROVE Total(Request, {}, d) = 0
BY FS_EmptySet, TotalUnfolds

LEMMA TotalOfMore ==
  ASSUME NEW S \in SUBSET Jobs, NEW j \in Jobs \ S, NEW d \in Limits
  PROVE  Total(Request, S \cup {j}, d) = Request[j][d] + Total(Request, S, d)
<1>1. (S \cup {j}) \ {j} = S
  OBVIOUS
<1>2. IsFiniteSet(S \cup {j}) /\ Counted(d)
  BY FiniteJobs, RequestTyped
<1> QED BY <1>1, <1>2, TotalTakes

(* A part of a set of jobs holds no more than the whole *)
LEMMA TotalGrows ==
  ASSUME NEW S \in SUBSET Jobs, NEW T \in SUBSET S, NEW d \in Limits
  PROVE  /\ Total(Request, T, d) \in Nat /\ Total(Request, S, d) \in Nat
         /\ Total(Request, T, d) <= Total(Request, S, d)
<1> DEFINE Sum(U) == Total(Request, U, d)
           Bad == {n \in Nat : \E U \in SUBSET S :
                     T \subseteq U /\ Cardinality(U) = n /\ ~(Sum(T) <= Sum(U))}
<1>1. \A U \in SUBSET S : IsFiniteSet(U) /\ Cardinality(U) \in Nat /\ Sum(U) \in Nat
  BY FiniteJobs, FS_CardinalityType, RequestTyped, TotalNat
<1>2. \A U \in SUBSET S : \A x \in U : Sum(U) = Request[x][d] + Sum(U \ {x})
  BY <1>1, RequestTyped, TotalTakes
<1>2a. \A x \in S : Request[x][d] \in Nat
  BY RequestTyped DEF Counted
<1> HIDE DEF Sum
<1> SUFFICES ASSUME Bad # {} PROVE FALSE
  BY <1>1 DEF Sum
<1>3. PICK m \in Bad : \A k \in Bad : m <= k
  BY LeastNat
<1>4. PICK U \in SUBSET S : T \subseteq U /\ Cardinality(U) = m /\ ~(Sum(T) <= Sum(U))
  BY <1>3
<1>5. T # U
  BY <1>1, <1>4
<1>6. PICK x \in U : x \notin T
  BY <1>4, <1>5
<1>7. Cardinality(U \ {x}) = m - 1 /\ m > 0
  BY <1>1, <1>4, Smaller
<1>8. m - 1 \in Nat /\ m - 1 \notin Bad
  <2>1. m \in Nat /\ ~(m <= m - 1)
    BY <1>3
  <2> HIDE DEF Bad
  <2> QED BY <1>3, <1>7, <2>1
<1>9. Sum(T) <= Sum(U \ {x})
  BY <1>4, <1>6, <1>7, <1>8
<1>10. Sum(U) = Request[x][d] + Sum(U \ {x}) /\ Request[x][d] \in Nat /\ Sum(U \ {x}) \in Nat
  BY <1>1, <1>2, <1>2a
<1> QED BY <1>1, <1>4, <1>9, <1>10

----------------------------------------------------------------------------
(* The quota gate *)

LEMMA QuotaGateKeeps ==
  ASSUME NEW j \in Jobs, NEW S \in SUBSET Jobs, NEW H \in Allowance,
         j \in S, WithinQuota(j, S), H \cap Sharing(j) \subseteq S
  PROVE  H \cup {j} \in Allowance
<1> DEFINE quota == Quota[Project[j]]
<1>1. j \in Sharing(j) /\ H \subseteq Jobs
  BY DEF Sharing, Allowance
<1>2. \A k \in Jobs : k \in Sharing(j) =>
        Sharing(k) = Sharing(j) /\ Project[k] = Project[j]
  BY DEF Sharing
<1>3. ASSUME NEW d \in Limits, quota[d] # 0
      PROVE  Total(Request, (H \cup {j}) \cap Sharing(j), d) <= quota[d]
  <2> DEFINE T == H \cap Sharing(j)
  <2>0. quota[d] \in Nat /\ Request[j][d] \in Nat
    BY GatesAssumption, RequestTyped DEF Projects, Counted
  <2>1. (H \cup {j}) \cap Sharing(j) = T \cup {j}
    BY <1>1
  <2>2. CASE Request[j][d] = 0
    <3>1. Total(Request, T, d) <= quota[d]
      <4>1. CASE T = {}
        BY <2>0, <4>1, TotalOfNone
      <4>2. CASE T # {}
        <5>1. PICK k \in T : TRUE
          BY <4>2
        <5>2. Limited(H \cap Sharing(k), Quota[Project[k]])
          BY <5>1 DEF Allowance
        <5> QED BY <1>1, <1>2, <1>3, <5>1, <5>2 DEF Limited
      <4> QED BY <4>1, <4>2
    <3>2. CASE j \in T
      BY <2>1, <3>1, <3>2, T \cup {j} = T
    <3>3. CASE j \notin T
      <4>1. Total(Request, T \cup {j}, d) = Request[j][d] + Total(Request, T, d)
        BY <1>1, <3>3, TotalOfMore
      <4>2. Total(Request, T, d) \in Nat
        BY <1>1, TotalGrows
      <4>3. Total(Request, T \cup {j}, d) = Total(Request, T, d)
        BY <2>2, <4>1, <4>2
      <4> QED BY <2>1, <3>1, <4>3
    <3> QED BY <3>2, <3>3
  <2>3. CASE Request[j][d] # 0
    <3>1. Less(Sums(S), Request[j])[d] + Request[j][d] <= quota[d]
      BY <1>3, <2>3, GatesAssumption DEF WithinQuota, CheckQuota, Projects
    <3>2. Less(Sums(S), Request[j])[d] = Total(Request, S, d) - Request[j][d]
      BY DEF Less, Sums
    <3>3. T \cup {j} \subseteq S
      OBVIOUS
    <3>4. /\ Total(Request, T \cup {j}, d) <= Total(Request, S, d)
          /\ Total(Request, T \cup {j}, d) \in Nat /\ Total(Request, S, d) \in Nat
      BY <3>3, TotalGrows
    <3> HIDE DEF T, quota
    <3> QED BY <2>0, <2>1, <3>1, <3>2, <3>4
  <2> QED BY <2>2, <2>3
<1>4. ASSUME NEW k \in H \cup {j}
      PROVE  Limited((H \cup {j}) \cap Sharing(k), Quota[Project[k]])
  <2>1. CASE k \in Sharing(j)
    BY <1>1, <1>2, <1>3, <2>1 DEF Limited
  <2>2. CASE k \notin Sharing(j)
    <3>1. (H \cup {j}) \cap Sharing(k) = H \cap Sharing(k) /\ k \in H
      BY <1>1, <2>2 DEF Sharing
    <3> QED BY <3>1 DEF Allowance
  <2> QED BY <2>1, <2>2
<1> QED BY <1>1, <1>4 DEF Allowance

LEMMA AllowanceShrinks ==
  {} \in Allowance /\ \A S \in Allowance : SUBSET S \subseteq Allowance
<1>1. ASSUME NEW S \in Allowance, NEW T \in SUBSET S, NEW j \in T
      PROVE  Limited(T \cap Sharing(j), Quota[Project[j]])
  <2>1. Limited(S \cap Sharing(j), Quota[Project[j]]) /\ S \subseteq Jobs
    BY DEF Allowance
  <2>2. ASSUME NEW d \in Limits
        PROVE  /\ Total(Request, T \cap Sharing(j), d) \in Nat
               /\ Total(Request, S \cap Sharing(j), d) \in Nat
               /\ Total(Request, T \cap Sharing(j), d) <= Total(Request, S \cap Sharing(j), d)
    BY <2>1, TotalGrows
  <2>3. \A d \in Limits : Quota[Project[j]][d] \in Nat
    BY <2>1, GatesAssumption DEF Projects
  <2> QED BY <2>1, <2>2, <2>3 DEF Limited
<1> QED BY <1>1 DEF Allowance

----------------------------------------------------------------------------
(* The placement gate *)

LEMMA SchedulableBounds ==
  ASSUME NEW n \in Nodes
  PROVE  /\ IsFiniteSet(HealthyGpus(Machine[n]))
         /\ Cardinality(HealthyGpus(Machine[n])) \in Nat
         /\ SchedulableGpus(Machine[n]) \in Nat
         /\ SchedulableGpus(Machine[n]) <= Machine[n].advertised
         /\ Machine[n].devices # <<>> =>
              SchedulableGpus(Machine[n]) <= Cardinality(HealthyGpus(Machine[n]))
<1> DEFINE machine == Machine[n]
           c == Cardinality(HealthyGpus(machine))
           a == machine.advertised
<1>1. machine.devices \in Seq(Device) /\ a \in Nat
  BY GatesAssumption
<1>2. DOMAIN machine.devices = 1 .. Len(machine.devices) /\ Len(machine.devices) \in Nat
  BY <1>1
<1>3. IsFiniteSet(HealthyGpus(machine))
  <2>1. IsFiniteSet(1 .. Len(machine.devices))
    BY <1>2, FS_Interval
  <2>2. HealthyGpus(machine) \subseteq 1 .. Len(machine.devices)
    BY <1>2 DEF HealthyGpus
  <2> QED BY <2>1, <2>2, FS_Subset
<1>4. c \in Nat
  BY <1>3, FS_CardinalityType
<1>5. Min({a, c}) \in Nat /\ Min({a, c}) <= a /\ Min({a, c}) <= c
  <2> HIDE DEF a, c
  <2>1. \E x \in {a, c} : \A y \in {a, c} : x <= y
    BY <1>1, <1>4
  <2> QED BY <1>1, <1>4, <2>1 DEF Min
<1>6. SchedulableGpus(machine) = IF machine.devices = <<>> THEN a ELSE Min({a, c})
  BY DEF SchedulableGpus
<1> HIDE DEF a, c
<1>7. /\ SchedulableGpus(machine) \in Nat
      /\ SchedulableGpus(machine) <= a
      /\ machine.devices # <<>> => SchedulableGpus(machine) <= c
  BY <1>1, <1>5, <1>6
<1> QED BY <1>3, <1>4, <1>7 DEF a, c

(* A set has a part of any smaller size *)
LEMMA PartOfSize ==
  ASSUME NEW B, IsFiniteSet(B), NEW n \in Nat, n <= Cardinality(B)
  PROVE  \E X \in SUBSET B : Cardinality(X) = n
<1> DEFINE Large == {k \in Nat : k >= n /\ \E X \in SUBSET B : Cardinality(X) = k}
<1>1. Cardinality(B) \in Large
  BY FS_CardinalityType
<1>2. PICK m \in Large : \A k \in Large : m <= k
  BY <1>1, LeastNat
<1>3. PICK X \in SUBSET B : Cardinality(X) = m
  BY <1>2
<1>4. CASE m = n
  BY <1>3, <1>4
<1>5. CASE m # n
  <2>1. IsFiniteSet(X) /\ m \in Nat /\ m > n
    BY <1>2, <1>5, FS_Subset
  <2>2. X # {}
    BY <1>3, <2>1, FS_EmptySet
  <2>3. PICK x \in X : TRUE
    BY <2>2
  <2>4. Cardinality(X \ {x}) = m - 1
    BY <1>3, <2>1, Smaller
  <2>5. m - 1 \in Large
    BY <1>3, <2>1, <2>4
  <2> HIDE DEF Large
  <2> QED BY <1>2, <2>1, <2>5
<1> QED BY <1>4, <1>5

(* As many devices are taken as the jobs that took them ask for *)
LEMMA TakenCount ==
  ASSUME NEW H \in SUBSET Jobs, NEW D, IsFiniteSet(D), NEW give \in [D -> H \cup {None}],
         \A j \in H : Cardinality({i \in D : give[i] = j}) = Request[j].gpu
  PROVE  Cardinality({i \in D : give[i] \in H}) = Total(Request, H, "gpu")
<1> DEFINE Taken(U) == {i \in D : give[i] \in U}
           Sum(U)   == Total(Request, U, "gpu")
           Bad == {n \in Nat : \E U \in SUBSET H :
                     Cardinality(U) = n /\ Cardinality(Taken(U)) # Sum(U)}
<1>1. \A U \in SUBSET H : IsFiniteSet(U) /\ Cardinality(U) \in Nat
  BY FiniteJobs, FS_CardinalityType
<1>2. "gpu" \in Limits /\ Counted("gpu")
  BY RequestTyped DEF Limits
<1> SUFFICES ASSUME Bad # {} PROVE FALSE
  <2>1. Cardinality(H) \in Nat
    BY <1>1
  <2> QED BY <2>1
<1>3. PICK m \in Bad : \A k \in Bad : m <= k
  BY LeastNat
<1>4. PICK U \in SUBSET H : Cardinality(U) = m /\ Cardinality(Taken(U)) # Sum(U)
  BY <1>3
<1>5. CASE U = {}
  <2>1. Taken(U) = {}
    BY <1>5
  <2>2. Sum(U) = 0
    BY <1>5, TotalOfNone
  <2> QED BY <1>4, <2>1, <2>2, FS_EmptySet
<1>6. CASE U # {}
  <2>1. PICK x \in U : TRUE
    BY <1>6
  <2>2. Cardinality(U \ {x}) = m - 1 /\ m > 0
    BY <1>1, <1>4, Smaller
  <2>3. m - 1 \in Nat /\ m - 1 \notin Bad
    <3>1. m \in Nat /\ ~(m <= m - 1)
      BY <1>3
    <3> HIDE DEF Bad
    <3> QED BY <1>3, <2>2, <3>1
  <2>4. Cardinality(Taken(U \ {x})) = Sum(U \ {x})
    BY <2>2, <2>3
  <2>5. Sum(U) = Request[x].gpu + Sum(U \ {x}) /\ Sum(U \ {x}) \in Nat
    <3>1. Sum(U) = Request[x]["gpu"] + Sum(U \ {x})
      BY <1>1, <1>2, TotalTakes
    <3>2. Sum(U \ {x}) \in Nat
      BY <1>1, <1>2, TotalNat
    <3> QED BY <3>1, <3>2
  <2> DEFINE mine == {i \in D : give[i] = x}
  <2>6. Taken(U) = Taken(U \ {x}) \cup mine /\ Taken(U \ {x}) \cap mine = {}
    OBVIOUS
  <2>7. IsFiniteSet(Taken(U \ {x})) /\ IsFiniteSet(mine)
    BY FS_Subset
  <2>8. Cardinality(mine) = Request[x].gpu /\ Request[x].gpu \in Nat
    BY <1>2 DEF Counted
  <2>9. Cardinality(Taken(U)) = Cardinality(Taken(U \ {x})) + Cardinality(mine)
    <3> HIDE DEF mine, Taken
    <3>1. Cardinality(Taken(U \ {x}) \cap mine) = 0
      BY <2>6, FS_EmptySet
    <3>2. Cardinality(Taken(U \ {x})) \in Nat /\ Cardinality(mine) \in Nat
      BY <2>7, FS_CardinalityType
    <3>3. Cardinality(Taken(U \ {x}) \cup mine) =
            Cardinality(Taken(U \ {x})) + Cardinality(mine) - Cardinality(Taken(U \ {x}) \cap mine)
      BY <2>7, FS_Union
    <3> QED BY <2>6, <3>1, <3>2, <3>3
  <2> HIDE DEF Taken, Sum, mine
  <2> QED BY <1>4, <2>4, <2>5, <2>8, <2>9
<1> QED BY <1>5, <1>6

(* Devices enough for one more, however those that are taken were dealt *)
LEMMA OneMoreAssigned ==
  ASSUME NEW n \in Nodes, NEW j \in Jobs, NEW S \in SUBSET Jobs, NEW H \in SUBSET S, j \notin H,
         Assigned(H, Machine[n]),
         Request[j].gpu > 0 =>
           Cardinality(BigEnough(Machine[n], Request[j])) - Total(Request, S, "gpu") >= Request[j].gpu
  PROVE  Assigned(H \cup {j}, Machine[n])
<1> DEFINE D == HealthyGpus(Machine[n])
           B == BigEnough(Machine[n], Request[j])
           r == Request[j].gpu
<1>1. IsFiniteSet(D) /\ B \subseteq D
  BY SchedulableBounds DEF BigEnough
<1>2. PICK give \in [D -> H \cup {None}] :
        \A k \in H : /\ Cardinality({i \in D : give[i] = k}) = Request[k].gpu
                     /\ \A i \in {x \in D : give[x] = k} :
                          Machine[n].devices[i].memory >= Request[k].gpuMemory
  BY DEF Assigned
<1> DEFINE Taken == {i \in D : give[i] \in H}
<1>3. Cardinality(Taken) = Total(Request, H, "gpu")
  BY <1>1, <1>2, TakenCount
<1>4. /\ Total(Request, H, "gpu") \in Nat /\ Total(Request, S, "gpu") \in Nat
      /\ Total(Request, H, "gpu") <= Total(Request, S, "gpu")
  BY TotalGrows DEF Limits
<1>5. r \in Nat
  BY RequestTyped DEF Counted, Limits
<1>6. IsFiniteSet(B \ Taken) /\ r <= Cardinality(B \ Taken)
  <2>1. IsFiniteSet(B) /\ IsFiniteSet(Taken) /\ IsFiniteSet(B \ Taken)
    BY <1>1, FS_Subset
  <2>2. Cardinality(B \ Taken) = Cardinality(B) - Cardinality(B \cap Taken)
    BY <2>1, FS_Difference
  <2>3. Cardinality(B \cap Taken) <= Cardinality(Taken)
    BY <2>1, FS_Subset
  <2>4. /\ Cardinality(B) \in Nat /\ Cardinality(B \cap Taken) \in Nat
        /\ Cardinality(B \ Taken) \in Nat
    BY <2>1, FS_CardinalityType, FS_Subset
  <2>5. r > 0 => Cardinality(B) - Total(Request, S, "gpu") >= r
    OBVIOUS
  <2> HIDE DEF B, r, Taken
  <2> QED BY <1>3, <1>4, <1>5, <2>1, <2>2, <2>3, <2>4, <2>5
<1>7. PICK X \in SUBSET (B \ Taken) : Cardinality(X) = r
  <2> HIDE DEF B, r, Taken
  <2> QED BY <1>5, <1>6, PartOfSize
<1> DEFINE next == [i \in D |-> IF i \in X THEN j ELSE give[i]]
<1>8. next \in [D -> (H \cup {j}) \cup {None}]
  BY <1>2
<1>9. None # j
  BY GatesAssumption
<1>10. {i \in D : next[i] = j} = X
  <2>1. X \subseteq D
    BY <1>1, <1>7
  <2>2. \A i \in D : give[i] # j
    BY <1>2, <1>9
  <2> QED BY <2>1, <2>2
<1>11. ASSUME NEW k \in H PROVE {i \in D : next[i] = k} = {i \in D : give[i] = k}
  <2>1. \A i \in X : give[i] \notin H
    BY <1>1, <1>7
  <2> QED BY <2>1
<1>12. \A i \in X : Machine[n].devices[i].memory >= Request[j].gpuMemory
  BY <1>7 DEF BigEnough
<1>13. \A k \in H \cup {j} :
         /\ Cardinality({i \in D : next[i] = k}) = Request[k].gpu
         /\ \A i \in {x \in D : next[x] = k} :
              Machine[n].devices[i].memory >= Request[k].gpuMemory
  <2>1. ASSUME NEW k \in H
        PROVE  /\ Cardinality({i \in D : next[i] = k}) = Request[k].gpu
               /\ \A i \in {x \in D : next[x] = k} :
                    Machine[n].devices[i].memory >= Request[k].gpuMemory
    <3>1. {i \in D : next[i] = k} = {i \in D : give[i] = k}
      BY <1>11
    <3> HIDE DEF next, D
    <3> QED BY <1>2, <3>1
  <2>2. /\ Cardinality({i \in D : next[i] = j}) = Request[j].gpu
        /\ \A i \in {x \in D : next[x] = j} :
             Machine[n].devices[i].memory >= Request[j].gpuMemory
    <3> HIDE DEF next, D
    <3> QED BY <1>7, <1>10, <1>12 DEF r
  <2> QED BY <2>1, <2>2
<1> HIDE DEF next
<1> QED BY <1>8, <1>13 DEF Assigned

(* Of a resource of which enough was free for what one more asks of it *)
LEMMA OneMoreEnough ==
  ASSUME NEW j \in Jobs, NEW S \in SUBSET Jobs, NEW H \in SUBSET S, j \notin H,
         NEW d \in Limits, NEW reserved \in Nat, NEW capacity \in Nat,
         Request[j][d] > 0 => capacity - reserved - Total(Request, S, d) >= Request[j][d],
         Enough(H, d, reserved, capacity)
  PROVE  Enough(H \cup {j}, d, reserved, capacity)
<1> DEFINE r == Request[j][d]
           h == Total(Request, H, d)
           s == Total(Request, S, d)
           t == Total(Request, H \cup {j}, d)
<1>1. r \in Nat /\ h \in Nat /\ s \in Nat /\ h <= s /\ t = r + h
  BY RequestTyped, TotalGrows, TotalOfMore DEF Counted
<1>2. (r > 0 => capacity - reserved - s >= r) /\ (h = 0 \/ h + reserved <= capacity)
  BY DEF Enough
<1>3. t = 0 \/ t + reserved <= capacity
  <2> HIDE DEF r, h, s, t
  <2> QED BY <1>1, <1>2
<1> QED BY <1>3 DEF Enough

LEMMA PlacementGateKeeps ==
  ASSUME NEW n \in Nodes, NEW j \in Jobs, NEW S \in SUBSET Jobs, NEW H \in SUBSET S, NEW r,
         EvaluateNode(Machine[n], r, Sums(S), Request[j]), Fits(H, Machine[n])
  PROVE  Fits(H \cup {j}, Machine[n])
<1> DEFINE machine == Machine[n]
<1> SUFFICES ASSUME j \notin H PROVE Fits(H \cup {j}, machine)
  <2>1. j \in H => H \cup {j} = H
    OBVIOUS
  <2> QED BY <2>1
<1>1. \A d \in Limits : /\ Request[j][d] \in Nat
                        /\ Total(Request, H, d) \in Nat /\ Total(Request, S, d) \in Nat
                        /\ Total(Request, H, d) <= Total(Request, S, d)
                        /\ Total(Request, H \cup {j}, d) = Request[j][d] + Total(Request, H, d)
  BY RequestTyped, TotalGrows, TotalOfMore DEF Counted
<1>2. "cpu" \in Limits /\ "memory" \in Limits /\ "gpu" \in Limits
  BY DEF Limits
<1>3. /\ machine.cpu \in Nat /\ machine.memory \in Nat /\ machine.advertised \in Nat
      /\ machine.reservedCpu \in Nat /\ machine.reservedMemory \in Nat
  BY GatesAssumption
<1>4. /\ machine.cpu - machine.reservedCpu - Total(Request, S, "cpu") >= Request[j].cpu
      /\ Request[j].memory > 0 =>
           machine.memory - machine.reservedMemory - Total(Request, S, "memory") >= Request[j].memory
      /\ Request[j].gpu > 0 =>
           SchedulableGpus(machine) - Total(Request, S, "gpu") >= Request[j].gpu
      /\ Request[j].gpu > 0 /\ Request[j].gpuMemory > 0 =>
           Cardinality(BigEnough(machine, Request[j])) - Total(Request, S, "gpu") >= Request[j].gpu
  BY <1>2 DEF EvaluateNode, FreeCapacity, Sums
<1>5. /\ Enough(H, "memory", machine.reservedMemory, machine.memory)
      /\ Total(Request, H, "gpu") <= machine.advertised
      /\ Assigned(H, machine) \/ Undiscovered(H, machine)
  BY DEF Fits
<1>6. Enough(H \cup {j}, "cpu", machine.reservedCpu, machine.cpu)
  <2>1. Enough(H, "cpu", machine.reservedCpu, machine.cpu)
    BY DEF Fits
  <2> HIDE DEF machine
  <2> QED BY <1>2, <1>3, <1>4, <2>1, OneMoreEnough
<1>7. Enough(H \cup {j}, "memory", machine.reservedMemory, machine.memory)
  <2>1. Enough(H, "memory", machine.reservedMemory, machine.memory)
    BY DEF Fits
  <2> HIDE DEF machine
  <2> QED BY <1>2, <1>3, <1>4, <2>1, OneMoreEnough
<1>8. Total(Request, H \cup {j}, "gpu") <= machine.advertised
  <2> DEFINE g == Request[j].gpu
             h == Total(Request, H, "gpu")
             s == Total(Request, S, "gpu")
             q == SchedulableGpus(machine)
             a == machine.advertised
  <2>1. q \in Nat /\ q <= a /\ a \in Nat
    BY SchedulableBounds, <1>3
  <2>2. g \in Nat /\ h \in Nat /\ s \in Nat /\ h <= s /\ h <= a
    BY <1>1, <1>2, <1>5
  <2>3. Total(Request, H \cup {j}, "gpu") = g + h /\ (g > 0 => q - s >= g)
    BY <1>1, <1>2, <1>4
  <2> HIDE DEF g, h, s, q, a
  <2>4. g + h <= a
    BY <2>1, <2>2, <2>3
  <2> QED BY <2>3, <2>4 DEF a
<1>9. CASE machine.devices = <<>>
  <2>1. HealthyGpus(machine) = {}
    BY <1>9 DEF HealthyGpus
  <2>2. Undiscovered(H, machine)
    <3> SUFFICES ASSUME Assigned(H, machine), NEW k \in H PROVE Request[k].gpu = 0
      BY <1>5, <1>9 DEF Undiscovered
    <3>1. PICK give \in [{} -> H \cup {None}] :
            \A i \in H : Cardinality({x \in {} : give[x] = i}) = Request[i].gpu
      BY <2>1 DEF Assigned
    <3>2. {x \in {} : give[x] = k} = {}
      OBVIOUS
    <3> QED BY <3>1, <3>2, FS_EmptySet
  <2>3. Request[j].gpu = 0 \/ Request[j].gpuMemory = 0
    <3>1. Cardinality(BigEnough(machine, Request[j])) = 0
      BY <2>1, FS_EmptySet DEF BigEnough
    <3>2. Request[j].gpuMemory \in Nat /\ Request[j].gpu \in Nat
      BY <1>1, <1>2, RequestTyped
    <3>3. Total(Request, S, "gpu") \in Nat
      BY <1>1, <1>2
    <3> DEFINE g == Request[j].gpu
               m == Request[j].gpuMemory
               t == Total(Request, S, "gpu")
    <3>4. g > 0 /\ m > 0 => 0 - t >= g
      BY <1>4, <3>1
    <3>5. g \in Nat /\ m \in Nat /\ t \in Nat
      BY <3>2, <3>3
    <3> HIDE DEF g, m, t
    <3>6. g = 0 \/ m = 0
      BY <3>4, <3>5
    <3> QED BY <3>6 DEF g, m
  <2>4. Undiscovered(H \cup {j}, machine)
    BY <2>2, <2>3 DEF Undiscovered
  <2> QED BY <1>6, <1>7, <1>8, <2>4 DEF Fits
<1>10. CASE machine.devices # <<>>
  <2>1. Assigned(H, machine)
    BY <1>5, <1>10 DEF Undiscovered
  <2>2. ASSUME Request[j].gpu > 0, Request[j].gpuMemory = 0
        PROVE  Cardinality(BigEnough(machine, Request[j])) - Total(Request, S, "gpu") >= Request[j].gpu
    <3>1. \A i \in HealthyGpus(machine) : machine.devices[i].memory \in Nat
      <4>1. machine.devices \in Seq(Device)
        BY GatesAssumption
      <4>2. \A i \in DOMAIN machine.devices : machine.devices[i] \in Device
        BY <4>1
      <4> QED BY <4>2 DEF HealthyGpus, Device
    <3>2. BigEnough(machine, Request[j]) = HealthyGpus(machine)
      BY <2>2, <3>1 DEF BigEnough
    <3>3. /\ SchedulableGpus(machine) <= Cardinality(HealthyGpus(machine))
          /\ SchedulableGpus(machine) \in Nat /\ Cardinality(HealthyGpus(machine)) \in Nat
      BY <1>10, SchedulableBounds
    <3> HIDE DEF machine
    <3> QED BY <1>1, <1>2, <1>4, <2>2, <3>2, <3>3
  <2>3. Request[j].gpu > 0 =>
          Cardinality(BigEnough(machine, Request[j])) - Total(Request, S, "gpu") >= Request[j].gpu
    <3>1. Request[j].gpuMemory \in Nat
      BY RequestTyped
    <3> QED BY <1>4, <2>2, <3>1
  <2>4. Assigned(H \cup {j}, machine)
    BY <2>1, <2>3, OneMoreAssigned
  <2> QED BY <1>6, <1>7, <1>8, <2>4 DEF Fits
<1> QED BY <1>9, <1>10

(* Among nodes some is the best fit *)
LEMMA SomePrecedes ==
  ASSUME NEW F, F # {}, NEW a \in [F -> Nat], NEW b \in [F -> Nat], NEW c \in [F -> Nat],
         \A m, n \in F : c[m] = c[n] => m = n
  PROVE  \E n \in F : \A m \in F \ {n} : Precedes(<<a[n], b[n], c[n]>>, <<a[m], b[m], c[m]>>)
<1>1. PICK x \in F : \A m \in F : a[x] <= a[m]
  <2>1. {a[m] : m \in F} \subseteq Nat /\ {a[m] : m \in F} # {}
    OBVIOUS
  <2>2. PICK k \in {a[m] : m \in F} : \A l \in {a[m] : m \in F} : k <= l
    BY <2>1, LeastNat
  <2> QED BY <2>2
<1> DEFINE G == {m \in F : a[m] = a[x]}
<1>2. PICK y \in G : \A m \in G : b[y] <= b[m]
  <2>1. {b[m] : m \in G} \subseteq Nat /\ {b[m] : m \in G} # {}
    BY <1>1
  <2>2. PICK k \in {b[m] : m \in G} : \A l \in {b[m] : m \in G} : k <= l
    BY <2>1, LeastNat
  <2> QED BY <2>2
<1> DEFINE K == {m \in G : b[m] = b[y]}
<1>3. PICK z \in K : \A m \in K : c[z] <= c[m]
  <2>1. {c[m] : m \in K} \subseteq Nat /\ {c[m] : m \in K} # {}
    BY <1>2
  <2>2. PICK k \in {c[m] : m \in K} : \A l \in {c[m] : m \in K} : k <= l
    BY <2>1, LeastNat
  <2> QED BY <2>2
<1>4. ASSUME NEW m \in F \ {z}
      PROVE  Precedes(<<a[z], b[z], c[z]>>, <<a[m], b[m], c[m]>>)
  <2>1. z \in F /\ a[z] = a[x] /\ b[z] = b[y]
    BY <1>3
  <2>2. /\ a[z] \in Nat /\ b[z] \in Nat /\ c[z] \in Nat
        /\ a[m] \in Nat /\ b[m] \in Nat /\ c[m] \in Nat
    BY <2>1
  <2>3. CASE a[z] < a[m]
    <3>1. \A h \in 1 .. 1 - 1 : FALSE
      OBVIOUS
    <3> QED BY <2>3, <3>1 DEF Precedes
  <2>4. CASE a[z] = a[m] /\ b[z] < b[m]
    <3>1. \A h \in 1 .. 2 - 1 : h = 1
      OBVIOUS
    <3> QED BY <2>4, <3>1 DEF Precedes
  <2>5. CASE a[z] = a[m] /\ b[z] = b[m] /\ c[z] < c[m]
    <3>1. \A h \in 1 .. 3 - 1 : h = 1 \/ h = 2
      OBVIOUS
    <3> QED BY <2>5, <3>1 DEF Precedes
  <2>6. a[z] < a[m] \/ (a[z] = a[m] /\ b[z] < b[m]) \/ (a[z] = a[m] /\ b[z] = b[m] /\ c[z] < c[m])
    <3>1. a[z] <= a[m]
      BY <1>1, <2>1
    <3>2. a[z] = a[m] => b[z] <= b[m]
      BY <1>2, <2>1
    <3>3. a[z] = a[m] /\ b[z] = b[m] => c[z] <= c[m]
      BY <1>3, <2>1
    <3>4. c[z] # c[m]
      BY <2>1, <1>4
    <3> HIDE DEF G, K
    <3> QED BY <2>2, <3>1, <3>2, <3>3, <3>4
  <2> QED BY <2>3, <2>4, <2>5, <2>6
<1> QED BY <1>3, <1>4

(* What the placement gate answers is a node it found fit, or none *)
LEMMA BestNodeFits ==
  ASSUME NEW j \in Jobs, NEW held \in [Nodes -> SUBSET Jobs], NEW up \in SUBSET Nodes,
         BestNode(j, held, up) # None
  PROVE  LET n == BestNode(j, held, up) IN
         n \in Nodes /\ EvaluateNode(Machine[n], n \in up, Sums(held[n]), Request[j])
<1> DEFINE allocated == [n \in Nodes |-> Sums(held[n])]
           F == {n \in Nodes : EvaluateNode(Machine[n], n \in up, allocated[n], Request[j])}
           Key(n) == RankKey(Machine[n], allocated[n], Request[j])
           best == CHOOSE n \in F : \A m \in F \ {n} : Precedes(Key(n), Key(m))
<1>1. DOMAIN Machine = Nodes
  BY GatesAssumption
<1>2. BestNode(j, held, up) = IF F = {} THEN None ELSE best
  BY <1>1 DEF BestNode, PlaceJob
<1>3. F # {} /\ BestNode(j, held, up) = best
  <2> HIDE DEF F, best
  <2> QED BY <1>2
<1>4. ASSUME NEW n \in F
      PROVE  /\ (IF Request[j].gpu > 0 THEN FreeCapacity(Machine[n], allocated[n]).gpu
                                       ELSE SchedulableGpus(Machine[n])) \in Nat
             /\ FreeCapacity(Machine[n], allocated[n]).cpu \in Nat
             /\ Machine[n].name \in Nat
  <2>1. n \in Nodes /\ EvaluateNode(Machine[n], n \in up, allocated[n], Request[j])
    OBVIOUS
  <2>2. /\ SchedulableGpus(Machine[n]) \in Nat
        /\ Machine[n].cpu \in Nat /\ Machine[n].reservedCpu \in Nat /\ Machine[n].name \in Nat
    BY <2>1, SchedulableBounds, GatesAssumption
  <2>3. allocated[n].cpu \in Nat /\ allocated[n].gpu \in Nat
    BY <2>1, TotalGrows DEF Sums, Limits
  <2>4. Request[j].cpu \in Nat /\ Request[j].gpu \in Nat
    BY GatesAssumption
  <2>5. FreeCapacity(Machine[n], allocated[n]).gpu = SchedulableGpus(Machine[n]) - allocated[n].gpu
    BY DEF FreeCapacity
  <2>6. FreeCapacity(Machine[n], allocated[n]).cpu = Machine[n].cpu - Machine[n].reservedCpu - allocated[n].cpu
    BY DEF FreeCapacity
  <2>7. /\ FreeCapacity(Machine[n], allocated[n]).cpu >= Request[j].cpu
        /\ Request[j].gpu > 0 => FreeCapacity(Machine[n], allocated[n]).gpu >= Request[j].gpu
    BY <2>1 DEF EvaluateNode
  <2>8. FreeCapacity(Machine[n], allocated[n]).cpu \in Int /\ FreeCapacity(Machine[n], allocated[n]).gpu \in Int
    <3> HIDE DEF allocated
    <3> QED BY <2>2, <2>3, <2>5, <2>6
  <2> HIDE DEF allocated
  <2> QED BY <2>2, <2>4, <2>7, <2>8
<1> DEFINE a == [n \in F |-> IF Request[j].gpu > 0 THEN FreeCapacity(Machine[n], allocated[n]).gpu
                                                   ELSE SchedulableGpus(Machine[n])]
           b == [n \in F |-> FreeCapacity(Machine[n], allocated[n]).cpu]
           c == [n \in F |-> Machine[n].name]
<1>5. \A n \in F : Key(n) = <<a[n], b[n], c[n]>>
  BY DEF RankKey
<1>6. \A m, n \in F : c[m] = c[n] => m = n
  BY GatesAssumption
<1>7. \E n \in F : \A m \in F \ {n} : Precedes(Key(n), Key(m))
  <2>1. a \in [F -> Nat] /\ b \in [F -> Nat] /\ c \in [F -> Nat]
    <3> HIDE DEF F, allocated
    <3> QED BY <1>4
  <2> HIDE DEF F, a, b, c, Key
  <2>2. PICK n \in F : \A m \in F \ {n} : Precedes(<<a[n], b[n], c[n]>>, <<a[m], b[m], c[m]>>)
    BY <1>3, <1>6, <2>1, SomePrecedes
  <2> QED BY <1>5, <2>2
<1>8. best \in F
  <2> HIDE DEF F, Key
  <2> QED BY <1>7
<1> HIDE DEF best
<1> QED BY <1>3, <1>8

(* Less of what fits, fits *)
LEMMA FitsShrinks ==
  ASSUME NEW n \in Nodes, NEW S \in SUBSET Jobs, NEW T \in SUBSET S, Fits(S, Machine[n])
  PROVE  Fits(T, Machine[n])
<1> DEFINE machine == Machine[n]
           D == HealthyGpus(machine)
<1>1. \A d \in Limits : /\ Total(Request, T, d) \in Nat /\ Total(Request, S, d) \in Nat
                        /\ Total(Request, T, d) <= Total(Request, S, d)
  BY TotalGrows
<1>2. "cpu" \in Limits /\ "memory" \in Limits /\ "gpu" \in Limits
  BY DEF Limits
<1>3. ASSUME NEW d \in Limits, NEW reserved \in Nat, NEW capacity \in Nat,
             Enough(S, d, reserved, capacity)
      PROVE  Enough(T, d, reserved, capacity)
  <2> DEFINE s == Total(Request, S, d)
             t == Total(Request, T, d)
  <2>1. s \in Nat /\ t \in Nat /\ t <= s /\ (s = 0 \/ s + reserved <= capacity)
    BY <1>1, <1>3 DEF Enough
  <2>2. t = 0 \/ t + reserved <= capacity
    <3> HIDE DEF s, t
    <3> QED BY <1>3, <2>1
  <2> QED BY <2>2 DEF Enough
<1>4. /\ machine.cpu \in Nat /\ machine.memory \in Nat /\ machine.advertised \in Nat
      /\ machine.reservedCpu \in Nat /\ machine.reservedMemory \in Nat
  BY GatesAssumption
<1>5. /\ Enough(S, "cpu", machine.reservedCpu, machine.cpu)
      /\ Enough(S, "memory", machine.reservedMemory, machine.memory)
      /\ Total(Request, S, "gpu") <= machine.advertised
      /\ Assigned(S, machine) \/ Undiscovered(S, machine)
  BY DEF Fits
<1>6. Assigned(S, machine) => Assigned(T, machine)
  <2> SUFFICES ASSUME Assigned(S, machine) PROVE Assigned(T, machine)
    OBVIOUS
  <2>1. PICK give \in [D -> S \cup {None}] :
          \A k \in S : /\ Cardinality({i \in D : give[i] = k}) = Request[k].gpu
                       /\ \A i \in {x \in D : give[x] = k} :
                            machine.devices[i].memory >= Request[k].gpuMemory
    BY DEF Assigned
  <2> DEFINE less == [i \in D |-> IF give[i] \in T THEN give[i] ELSE None]
  <2>2. less \in [D -> T \cup {None}]
    OBVIOUS
  <2>3. ASSUME NEW k \in T PROVE {i \in D : less[i] = k} = {i \in D : give[i] = k}
    <3>1. k # None
      BY GatesAssumption
    <3> QED BY <3>1
  <2>4. \A k \in T : /\ Cardinality({i \in D : less[i] = k}) = Request[k].gpu
                     /\ \A i \in {x \in D : less[x] = k} :
                          machine.devices[i].memory >= Request[k].gpuMemory
    <3> SUFFICES ASSUME NEW k \in T
                 PROVE  /\ Cardinality({i \in D : less[i] = k}) = Request[k].gpu
                        /\ \A i \in {x \in D : less[x] = k} :
                             machine.devices[i].memory >= Request[k].gpuMemory
      OBVIOUS
    <3>1. {i \in D : less[i] = k} = {i \in D : give[i] = k}
      BY <2>3
    <3> HIDE DEF less, D
    <3> QED BY <2>1, <3>1
  <2> HIDE DEF less
  <2> QED BY <2>2, <2>4 DEF Assigned
<1>7. Undiscovered(S, machine) => Undiscovered(T, machine)
  BY DEF Undiscovered
<1>8. Enough(T, "cpu", machine.reservedCpu, machine.cpu)
  <2> HIDE DEF machine
  <2> QED BY <1>2, <1>3, <1>4, <1>5
<1>9. Enough(T, "memory", machine.reservedMemory, machine.memory)
  <2> HIDE DEF machine
  <2> QED BY <1>2, <1>3, <1>4, <1>5
<1>10. Total(Request, T, "gpu") <= machine.advertised
  <2> DEFINE s == Total(Request, S, "gpu")
             t == Total(Request, T, "gpu")
             a == machine.advertised
  <2>1. s \in Nat /\ t \in Nat /\ a \in Nat /\ t <= s /\ s <= a
    BY <1>1, <1>2, <1>4, <1>5
  <2>2. t <= a
    <3> HIDE DEF s, t, a
    <3> QED BY <2>1
  <2> QED BY <2>2
<1> QED BY <1>5, <1>6, <1>7, <1>8, <1>9, <1>10 DEF Fits

LEMMA NoneFit ==
  ASSUME NEW n \in Nodes PROVE Fits({}, Machine[n])
<1>1. \A d \in Limits : Total(Request, {}, d) = 0
  BY TotalOfNone
<1>2. Machine[n].advertised \in Nat
  BY GatesAssumption
<1>3. Assigned({}, Machine[n])
  <2>1. [i \in HealthyGpus(Machine[n]) |-> None] \in [HealthyGpus(Machine[n]) -> {} \cup {None}]
    OBVIOUS
  <2> QED BY <2>1 DEF Assigned
<1> QED BY <1>1, <1>2, <1>3 DEF Fits, Enough, Limits

(* The gates of domain/quota.js and domain/placement.js, called as         *)
(* scheduleJob calls them, keep for any jobs, nodes, devices and quotas    *)
(* what Scheduler assumes of them: a job that passes may join any part of  *)
(* what the gate was shown.  In particular the worst-case count of         *)
(* evaluateNode is safe whichever devices the jobs on the node were given, *)
(* and the sums it trusts do not depend on the order they are taken in.    *)
THEOREM GatesKeepPromise == GatesKeep(WithinQuota, BestNode, Allowance, Capacity)
<1>1. Capacity \in [Nodes -> SUBSET SUBSET Jobs]
  BY DEF Capacity
<1>2. \A n \in Nodes : {} \in Capacity[n]
  BY NoneFit DEF Capacity
<1>3. \A n \in Nodes : \A S \in Capacity[n] : SUBSET S \subseteq Capacity[n]
  <2> SUFFICES ASSUME NEW n \in Nodes, NEW S \in Capacity[n], NEW T \in SUBSET S
               PROVE  T \in Capacity[n]
    OBVIOUS
  <2>1. S \in SUBSET Jobs /\ Fits(S, Machine[n])
    BY DEF Capacity
  <2> QED BY <2>1, FitsShrinks DEF Capacity
<1>4. {} \in Allowance /\ \A S \in Allowance : SUBSET S \subseteq Allowance
  BY AllowanceShrinks
<1>5. \A j \in Jobs, S \in SUBSET Jobs : WithinQuota(j, S) \in BOOLEAN
  BY DEF WithinQuota, CheckQuota
<1>6. \A j \in Jobs, S \in SUBSET Jobs, H \in Allowance :
        j \in S /\ WithinQuota(j, S) /\ H \cap Sharing(j) \subseteq S => H \cup {j} \in Allowance
  BY QuotaGateKeeps
<1>7. ASSUME NEW j \in Jobs, NEW held \in [Nodes -> SUBSET Jobs], NEW up \in SUBSET Nodes
      PROVE  LET n == BestNode(j, held, up) IN
             /\ n \in up \cup {None}
             /\ n # None => \A H \in Capacity[n] : H \subseteq held[n] => H \cup {j} \in Capacity[n]
  <2> DEFINE n == BestNode(j, held, up)
  <2> SUFFICES ASSUME n # None
               PROVE  n \in up /\ \A H \in Capacity[n] : H \subseteq held[n] => H \cup {j} \in Capacity[n]
    OBVIOUS
  <2>1. n \in Nodes /\ EvaluateNode(Machine[n], n \in up, Sums(held[n]), Request[j])
    BY BestNodeFits
  <2> HIDE DEF n
  <2>2. n \in up
    BY <2>1 DEF EvaluateNode
  <2>3. ASSUME NEW H \in Capacity[n], H \subseteq held[n] PROVE H \cup {j} \in Capacity[n]
    <3>1. Fits(H, Machine[n]) /\ H \subseteq Jobs /\ held[n] \in SUBSET Jobs
      BY <2>1 DEF Capacity
    <3>2. Fits(H \cup {j}, Machine[n])
      BY <2>1, <2>3, <3>1, PlacementGateKeeps
    <3> QED BY <2>1, <3>1, <3>2 DEF Capacity
  <2> QED BY <2>2, <2>3
<1> QED BY <1>1, <1>2, <1>3, <1>4, <1>5, <1>6, <1>7 DEF GatesKeep
=============================================================================
