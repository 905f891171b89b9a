-------------------------- MODULE WorkspaceProofs ---------------------------
(***************************************************************************)
(* Theorems about Workspace for any users, artifacts, names and number of  *)
(* requests in flight: the row locks keep what each transaction has read   *)
(* true until it writes, and so no interleaving breaks a rule that one     *)
(* request alone would have kept.                                          *)
(***************************************************************************)
EXTENDS WorkspaceInv, TLAPS

----------------------------------------------------------------------------
(* Locks *)

LEMMA LockNames ==
  ASSUME NEW q
  PROVE  /\ q.op = "member" => LockOf(q) = "members"
         /\ q.op \in {"register", "status"} => LockOf(q) = "model"
         /\ q.op = "settle" => LockOf(q) = q.on
BY DEF LockOf

LEMMA LocksExist ==
  ASSUME IInv, NEW r \in Requests, req[r].at # "idle"
  PROVE  LockOf(req[r]) \in Locks
<1>1. req[r].op \in {"member", "register", "status", "settle"}
  BY DEF IInv, TypeOK, Request, Founded
<1> QED BY <1>1, LockNames DEF IInv, Founded, Locks

(* Two requests past their read never hold one row *)
LEMMA Exclusion ==
  ASSUME IInv, NEW r \in Requests, NEW s \in Requests,
         req[r].at = "read", req[s].at = "read", LockOf(req[r]) = LockOf(req[s])
  PROVE  r = s
<1>1. LockOf(req[r]) \in Locks
  BY LocksExist
<1> QED BY <1>1 DEF IInv, TypeOK

LEMMA IdleRequest == Idle \in Request
BY DEF Idle, Request, Standing, RANK

(* A request that ends gives back its lock and nothing else *)
LEMMA EndsTypes ==
  ASSUME IInv, NEW r \in Requests, Ends(r)
  PROVE  /\ req' \in [Requests -> Request] /\ lock' \in [Locks -> Requests \cup {None}]
         /\ \A l \in Locks, s \in Requests :
              lock'[l] = s <=> req'[s].at = "read" /\ LockOf(req'[s]) = l
         /\ req'[r] = Idle /\ \A s \in Requests \ {r} : req'[s] = req[s]
<1>1. req \in [Requests -> Request] /\ lock \in [Locks -> Requests \cup {None}]
  BY DEF IInv, TypeOK
<1>2. req'[r] = Idle /\ \A s \in Requests \ {r} : req'[s] = req[s]
  BY <1>1 DEF Ends
<1>3. req' \in [Requests -> Request] /\ lock' \in [Locks -> Requests \cup {None}]
  BY <1>1, IdleRequest DEF Ends
<1>4. \A l \in Locks : lock'[l] = IF lock[l] = r THEN None ELSE lock[l]
  BY DEF Ends
<1>5. ASSUME NEW l \in Locks, NEW s \in Requests
      PROVE  lock'[l] = s <=> req'[s].at = "read" /\ LockOf(req'[s]) = l
  <2>1. lock[l] = s <=> req[s].at = "read" /\ LockOf(req[s]) = l
    BY DEF IInv, TypeOK
  <2>2. CASE s = r
    BY <1>2, <1>4, <2>2, WorkspaceAssumption DEF Idle
  <2>3. CASE s # r
    BY <1>2, <1>4, <2>1, <2>3, WorkspaceAssumption
  <2> QED BY <2>2, <2>3
<1> QED BY <1>2, <1>3, <1>5

----------------------------------------------------------------------------
(* What a request was asked with outlives every change of the tables *)

Grows ==
  /\ \A a \in Artifacts :
       /\ artifact[a] # NoRow => artifact'[a] # NoRow /\ artifact'[a].name = artifact[a].name
       /\ artifact[a].status = "READY" => artifact'[a].status = "READY"
  /\ \A n \in Names : object[n] # Absent => object'[n] # Absent
  /\ DOMAIN versions \subseteq DOMAIN versions'

LEMMA FoundedKept ==
  ASSUME IInv, Grows, NEW s \in Requests, req'[s] = req[s]
  PROVE  Founded(s)'
<1>1. Founded(s)
  BY DEF IInv
<1>2. ASSUME NEW a \in Artifacts, artifact[a] # NoRow, Stored(a) PROVE Stored(a)'
  BY <1>2 DEF Grows, Stored
<1> QED BY <1>1, <1>2 DEF Founded, Grows

LEMMA UntouchedGrows == ASSUME UNCHANGED tables PROVE Grows
BY DEF Grows, tables

LEMMA IdleFounded ==
  ASSUME NEW r, req[r] = Idle PROVE Founded(r) /\ Current(r)
BY DEF Idle, Founded, Current, HasRead

(* The part of IInv that only the tables decide *)
TablesHold ==
  /\ \A a \in Artifacts : artifact[a].status = "READY" => Stored(a)
  /\ \A n \in DOMAIN versions : artifact[versions[n].artifact].status = "READY"
  /\ OwnerKept
  /\ OneProduction

TablesTyped ==
  /\ member \in [Users -> Standing]
  /\ artifact \in [Artifacts -> Row \cup {NoRow}]
  /\ landed \subseteq Artifacts
  /\ object \in [Names -> Artifacts \cup {Absent}]
  /\ versions \in Seq([status : ModelStatus, artifact : Artifacts])
  /\ Len(versions) <= MaxVersions

Version == [status : ModelStatus, artifact : Artifacts]

LEMMA VersionsTyped ==
  ASSUME TablesTyped
  PROVE  /\ versions \in Seq(Version) /\ DOMAIN versions = 1 .. Len(versions) /\ Len(versions) \in Nat
         /\ \A n \in DOMAIN versions :
              /\ n \in 1 .. MaxVersions /\ versions[n] \in Version
              /\ versions[n].status \in ModelStatus /\ versions[n].artifact \in Artifacts
<1>1. versions \in Seq(Version) /\ Len(versions) <= MaxVersions
  BY DEF TablesTyped, Version
<1>2. DOMAIN versions = 1 .. Len(versions) /\ Len(versions) \in Nat
  BY <1>1
<1>3. ASSUME NEW n \in DOMAIN versions
      PROVE  n \in 1 .. MaxVersions /\ versions[n] \in Version
  BY <1>1, <1>2, <1>3, WorkspaceAssumption
<1>4. \A v \in Version : v.status \in ModelStatus /\ v.artifact \in Artifacts
  BY DEF Version
<1> QED BY <1>1, <1>2, <1>3, <1>4

LEMMA TablesUntouched ==
  ASSUME TablesTyped, TablesHold, UNCHANGED tables PROVE TablesTyped' /\ TablesHold'
BY DEF TablesTyped, TablesHold, tables, Stored, OwnerKept, OneProduction

LEMMA Parts ==
  IInv <=> /\ TablesTyped /\ TablesHold
           /\ req \in [Requests -> Request]
           /\ lock \in [Locks -> Requests \cup {None}]
           /\ \A l \in Locks, r \in Requests :
                lock[l] = r <=> req[r].at = "read" /\ LockOf(req[r]) = l
           /\ \A r \in Requests : Founded(r) /\ Current(r)
BY DEF IInv, TypeOK, TablesTyped, TablesHold

----------------------------------------------------------------------------
(* Steps of a request that leave the tables alone *)

LEMMA CurrentUntouched ==
  ASSUME NEW s, Current(s), UNCHANGED tables, req'[s] = req[s] PROVE Current(s)'
BY DEF Current, tables, HasRead

LEMMA AskKeeps ==
  ASSUME IInv, NEW r \in Requests, NEW op, NEW on, NEW to, Ask(r, op, on, to),
         op \in {"member", "register", "status", "settle"},
         on \in Users \cup Artifacts \cup (1 .. MaxVersions),
         to \in Standing \cup ModelStatus \cup ArtifactStatus,
         op = "member"   => on \in Users /\ to \in Standing,
         op = "settle"   => /\ on \in Artifacts /\ artifact[on] # NoRow
                            /\ to \in {"READY", "FAILED"} /\ (to = "READY" => Stored(on)),
         op = "register" => /\ on \in Artifacts /\ artifact[on].status = "READY"
                            /\ to = INITIAL_STATUS,
         op = "status"   => on \in DOMAIN versions /\ to \in ModelStatus
  PROVE  IInv'
<1> DEFINE q == [at |-> "asked", op |-> op, on |-> on, to |-> to, read |-> {}]
<1>0. /\ req \in [Requests -> Request] /\ TablesTyped /\ TablesHold /\ req[r].at = "idle"
      /\ lock \in [Locks -> Requests \cup {None}] /\ lock' = lock /\ UNCHANGED tables
      /\ \A l \in Locks, s \in Requests :
           lock[l] = s <=> req[s].at = "read" /\ LockOf(req[s]) = l
  BY Parts DEF Ask
<1>1. req'[r] = q /\ \A s \in Requests \ {r} : req'[s] = req[s]
  BY <1>0 DEF Ask
<1>2. req' \in [Requests -> Request]
  <2>1. q \in Request BY DEF Request
  <2> QED BY <1>0, <2>1 DEF Ask
<1>3. \A l \in Locks, s \in Requests :
        lock'[l] = s <=> req'[s].at = "read" /\ LockOf(req'[s]) = l
  BY <1>0, <1>1
<1>4. Founded(r)' /\ Current(r)'
  BY <1>0, <1>1 DEF Founded, Current, HasRead, Stored, tables
<1>5. ASSUME NEW s \in Requests \ {r} PROVE Founded(s)' /\ Current(s)'
  <2>1. Current(s) BY DEF IInv
  <2> QED BY <1>0, <1>1, <2>1, FoundedKept, UntouchedGrows, CurrentUntouched
<1> QED BY <1>0, <1>2, <1>3, <1>4, <1>5, TablesUntouched DEF IInv, TypeOK, TablesTyped, TablesHold

LEMMA ReadKeeps ==
  ASSUME IInv, NEW r \in Requests, NEW read \in SUBSET (1 .. MaxVersions),
         req[r].at = "asked", ReadLocked(r, read), Current(r)'
  PROVE  IInv'
<1> DEFINE l0 == LockOf(req[r])
<1>0. /\ req \in [Requests -> Request] /\ TablesTyped /\ TablesHold /\ UNCHANGED tables
      /\ lock \in [Locks -> Requests \cup {None}] /\ l0 \in Locks
      /\ lock[l0] = None /\ lock' = [lock EXCEPT ![l0] = r]
      /\ \A l \in Locks, s \in Requests :
           lock[l] = s <=> req[s].at = "read" /\ LockOf(req[s]) = l
  BY Parts, LocksExist DEF ReadLocked
<1>1. /\ req'[r] = [req[r] EXCEPT !.at = "read", !.read = read]
      /\ \A s \in Requests \ {r} : req'[s] = req[s]
  BY <1>0 DEF ReadLocked
<1>2. /\ req'[r].at = "read" /\ req'[r].op = req[r].op
      /\ req'[r].on = req[r].on /\ req'[r].to = req[r].to
  BY <1>0, <1>1 DEF Request
<1>3. req' \in [Requests -> Request]
  <2>1. req[r] \in Request BY <1>0
  <2>2. [req[r] EXCEPT !.at = "read"] \in Request BY <2>1 DEF Request
  <2>3. [[req[r] EXCEPT !.at = "read"] EXCEPT !.read = read] \in Request BY <2>2 DEF Request
  <2> QED BY <1>0, <2>3 DEF ReadLocked
<1>4. LockOf(req'[r]) = l0
  BY <1>2 DEF LockOf
<1>5. ASSUME NEW l \in Locks, NEW s \in Requests
      PROVE  lock'[l] = s <=> req'[s].at = "read" /\ LockOf(req'[s]) = l
  <2>1. lock'[l] = IF l = l0 THEN r ELSE lock[l] BY <1>0
  <2>2. CASE s = r BY <1>0, <1>2, <1>4, <2>1, <2>2
  <2>3. CASE s # r BY <1>0, <1>1, <2>1, <2>3, WorkspaceAssumption
  <2> QED BY <2>2, <2>3
<1>6. Founded(r)'
  <2>1. Founded(r) BY DEF IInv
  <2>2. req[r].op # "none" BY <2>1 DEF Founded
  <2> QED BY <1>0, <1>2, <2>1, <2>2 DEF Founded, Stored, tables
<1>7. ASSUME NEW s \in Requests \ {r} PROVE Founded(s)' /\ Current(s)'
  <2>1. Current(s) BY DEF IInv
  <2> QED BY <1>0, <1>1, <2>1, FoundedKept, UntouchedGrows, CurrentUntouched
<1>8. lock' \in [Locks -> Requests \cup {None}]
  BY <1>0
<1> QED BY <1>0, <1>3, <1>5, <1>6, <1>7, <1>8, TablesUntouched DEF IInv, TypeOK, TablesTyped, TablesHold

LEMMA EndKeeps ==
  ASSUME IInv, NEW r \in Requests, Ends(r), UNCHANGED tables PROVE IInv'
<1>1. ASSUME NEW s \in Requests PROVE Founded(s)' /\ Current(s)'
  <2>1. Current(s) BY DEF IInv
  <2>2. CASE s = r BY <2>2, EndsTypes DEF Idle, Founded, Current, HasRead
  <2>3. CASE s # r BY <2>1, <2>3, EndsTypes, FoundedKept, UntouchedGrows, CurrentUntouched
  <2> QED BY <2>2, <2>3
<1>2. TablesTyped' /\ TablesHold'
  BY Parts, TablesUntouched
<1> QED BY <1>1, <1>2, EndsTypes DEF IInv, TypeOK, TablesTyped, TablesHold

LEMMA RefusedKeeps ==
  ASSUME IInv, NEW r \in Requests, req[r].at = "asked", Refused(r) PROVE IInv'
<1>0. /\ req \in [Requests -> Request] /\ lock \in [Locks -> Requests \cup {None}]
      /\ \A l \in Locks : lock[l] # r
  BY DEF IInv, TypeOK
<1>1. lock = [l \in Locks |-> IF lock[l] = r THEN None ELSE lock[l]]
  BY <1>0
<1>2. Ends(r) /\ UNCHANGED tables
  BY <1>1 DEF Ends, Refused
<1> QED BY <1>2, EndKeeps

LEMMA WriteKeeps ==
  ASSUME IInv, NEW r \in Requests, Ends(r), Grows, TablesTyped', TablesHold',
         \A s \in Requests \ {r} : Current(s)'
  PROVE  IInv'
<1>1. Founded(r)' /\ Current(r)'
  BY EndsTypes DEF Idle, Founded, Current, HasRead
<1>2. \A s \in Requests \ {r} : Founded(s)'
  BY EndsTypes, FoundedKept
<1> QED BY <1>1, <1>2, EndsTypes DEF IInv, TypeOK, TablesTyped, TablesHold

(* Another request between its read and its write holds another row *)
LEMMA OtherRow ==
  ASSUME IInv, NEW r \in Requests, NEW s \in Requests \ {r}, req[r].at = "read"
  PROVE  /\ req[r].op = "member" => ~HasRead(s, "member")
         /\ req[r].op \in {"register", "status"} =>
              ~HasRead(s, "register") /\ ~HasRead(s, "status")
         /\ req[r].op = "settle" => ~(HasRead(s, "settle") /\ req[s].on = req[r].on)
BY Exclusion, LockNames DEF HasRead

----------------------------------------------------------------------------
(* Membership *)

LEMMA MemberSteps ==
  ASSUME IInv, NEW r \in Requests, AskMember(r) \/ MemberCounts(r) \/ MemberWrites(r)
  PROVE  IInv'
<1>1. CASE AskMember(r)
  <2>1. PICK u \in Users, role \in Standing : Ask(r, "member", u, role)
    BY <1>1 DEF AskMember
  <2> QED BY <2>1, AskKeeps
<1>2. CASE MemberCounts(r)
  <2>1. CASE MayChange(member, req[r].on, req[r].to)
    <3>1. ReadLocked(r, {}) /\ req[r].at = "asked" /\ req[r].op = "member"
      BY <1>2, <2>1 DEF MemberCounts, Asked
    <3>2. /\ req'[r].op = "member" /\ req'[r].on = req[r].on /\ req'[r].to = req[r].to
          /\ member' = member
      BY <3>1 DEF ReadLocked, IInv, TypeOK, Request, tables
    <3>3. Current(r)'
      BY <2>1, <3>2 DEF Current, HasRead
    <3> QED BY <3>1, <3>3, ReadKeeps
  <2>2. CASE ~MayChange(member, req[r].on, req[r].to)
    BY <1>2, <2>2, RefusedKeeps DEF MemberCounts, Asked
  <2> QED BY <2>1, <2>2
<1>3. CASE MemberWrites(r)
  <2>0. /\ req[r].at = "read" /\ req[r].op = "member" /\ Ends(r)
        /\ UNCHANGED <<artifact, landed, object, versions>>
        /\ member' = [member EXCEPT ![req[r].on] = req[r].to]
        /\ req[r].on \in Users /\ req[r].to \in Standing
        /\ MayChange(member, req[r].on, req[r].to)
        /\ TablesTyped /\ TablesHold
    BY <1>3, Parts DEF MemberWrites, HasRead, IInv, Founded, Current
  <2>1. TablesTyped'
    BY <2>0 DEF TablesTyped
  <2>2. OwnerKept'
    <3>1. PICK u \in Users : member[u] = "OWNER"
      BY <2>0 DEF TablesHold, OwnerKept, Owners, TablesTyped
    <3>2. req[r].to = "OWNER" \/ Owners(member) # {req[r].on}
      BY <2>0 DEF MayChange, LeavesNoOwner
    <3>3. CASE req[r].to = "OWNER"
      BY <2>0, <3>3 DEF OwnerKept, Owners, TablesTyped
    <3>4. CASE Owners(member) # {req[r].on}
      <4>1. PICK v \in Users : v # req[r].on /\ member[v] = "OWNER"
        BY <2>0, <3>1, <3>4 DEF Owners, TablesTyped
      <4> QED BY <2>0, <4>1 DEF OwnerKept, Owners, TablesTyped
    <3> QED BY <3>2, <3>3, <3>4
  <2>3. TablesHold'
    BY <2>0, <2>2 DEF TablesHold, Stored, OneProduction
  <2>4. ASSUME NEW s \in Requests \ {r} PROVE Current(s)'
    <3>1. Current(s) /\ req'[s] = req[s] /\ ~HasRead(s, "member")
      BY <2>0, OtherRow, EndsTypes DEF IInv
    <3> QED BY <2>0, <3>1 DEF Current, HasRead
  <2>5. Grows
    BY <2>0 DEF Grows
  <2> QED BY <2>0, <2>1, <2>3, <2>4, <2>5, WriteKeeps
<1> QED BY <1>1, <1>2, <1>3

----------------------------------------------------------------------------
(* Artifacts *)

LEMMA SettleSteps ==
  ASSUME IInv, NEW r \in Requests, AskSettle(r) \/ SettleReads(r) \/ SettleWrites(r)
  PROVE  IInv'
<1>1. CASE AskSettle(r)
  <2>1. PICK a \in Artifacts :
          /\ artifact[a] # NoRow
          /\ \/ UploadConfirmed(a) /\ Ask(r, "settle", a, "READY")
             \/ Ask(r, "settle", a, "FAILED")
    BY <1>1 DEF AskSettle
  <2>2. UploadConfirmed(a) => Stored(a)
    BY WorkspaceAssumption DEF UploadConfirmed, Verified, Stored
  <2>3. "READY" \in ArtifactStatus /\ "FAILED" \in ArtifactStatus
    BY DEF ArtifactStatus, ArtifactTransitions
  <2> QED BY <2>1, <2>2, <2>3, AskKeeps
<1>2. CASE SettleReads(r)
  <2>1. CASE CanSettle(artifact[req[r].on].status, req[r].to)
    <3>1. ReadLocked(r, {}) /\ req[r].at = "asked" /\ req[r].op = "settle"
      BY <1>2, <2>1 DEF SettleReads, Asked
    <3>2. /\ req'[r].op = "settle" /\ req'[r].on = req[r].on /\ req'[r].to = req[r].to
          /\ artifact' = artifact
      BY <3>1 DEF ReadLocked, IInv, TypeOK, Request, tables
    <3>3. Current(r)'
      BY <2>1, <3>2 DEF Current, HasRead
    <3> QED BY <3>1, <3>3, ReadKeeps
  <2>2. CASE ~CanSettle(artifact[req[r].on].status, req[r].to)
    BY <1>2, <2>2, RefusedKeeps DEF SettleReads, Asked
  <2> QED BY <2>1, <2>2
<1>3. CASE SettleWrites(r)
  <2> DEFINE a == req[r].on
  <2>0. /\ req[r].at = "read" /\ req[r].op = "settle" /\ Ends(r)
        /\ UNCHANGED <<member, landed, object, versions>>
        /\ artifact' = [artifact EXCEPT ![a].status = req[r].to]
        /\ a \in Artifacts /\ artifact[a] # NoRow /\ req[r].to \in {"READY", "FAILED"}
        /\ req[r].to = "READY" => Stored(a)
        /\ CanSettle(artifact[a].status, req[r].to)
        /\ TablesTyped /\ TablesHold
    BY <1>3, Parts DEF SettleWrites, HasRead, IInv, Founded, Current
  <2>1. artifact \in [Artifacts -> Row \cup {NoRow}] /\ artifact[a] \in Row
    BY <2>0 DEF TablesTyped
  <2>2. artifact[a].status = "PENDING"
    BY <2>0, <2>1 DEF CanSettle, ArtifactTransitions, Row, ArtifactStatus
  <2>3. /\ artifact'[a] \in Row /\ artifact'[a].status = req[r].to
        /\ artifact'[a].name = artifact[a].name
        /\ \A b \in Artifacts \ {a} : artifact'[b] = artifact[b]
    BY <2>0, <2>1 DEF Row, ArtifactStatus, ArtifactTransitions
  <2>4. artifact'[a] # NoRow
    BY <2>3, <2>0, WorkspaceAssumption DEF NoRow, ArtifactStatus, ArtifactTransitions
  <2>5. TablesTyped'
    <3>1. artifact' \in [Artifacts -> Row \cup {NoRow}]
      BY <2>0, <2>1, <2>3
    <3> QED BY <2>0, <3>1 DEF TablesTyped
  <2>6. Grows
    BY <2>0, <2>2, <2>3, <2>4 DEF Grows
  <2>7. TablesHold'
    <3>1. \A b \in Artifacts : artifact'[b].status = "READY" => Stored(b)'
      BY <2>0, <2>3 DEF TablesHold, Stored
    <3>2. \A n \in DOMAIN versions : versions[n].artifact \in Artifacts
      BY <2>0, VersionsTyped
    <3>3. \A n \in DOMAIN versions' : artifact'[versions'[n].artifact].status = "READY"
      BY <2>0, <2>6, <3>2 DEF TablesHold, Grows
    <3> QED BY <2>0, <3>1, <3>3 DEF TablesHold, OwnerKept, OneProduction
  <2>8. ASSUME NEW s \in Requests \ {r} PROVE Current(s)'
    <3>1. Current(s) /\ req'[s] = req[s] /\ ~(HasRead(s, "settle") /\ req[s].on = a)
      BY <2>0, OtherRow, EndsTypes DEF IInv
    <3>2. req[s].op = "settle" => req[s].on \in Artifacts
      BY DEF IInv, Founded
    <3> QED BY <2>0, <2>3, <3>1, <3>2 DEF Current, HasRead
  <2> QED BY <2>0, <2>5, <2>6, <2>7, <2>8, WriteKeeps
<1> QED BY <1>1, <1>2, <1>3

(* The run's own steps take no lock *)
LEMMA RunSteps ==
  ASSUME IInv, NEW a \in Artifacts, RegisterArtifact(a) \/ UploadLands(a) PROVE IInv'
<1>0. TablesTyped /\ TablesHold /\ artifact \in [Artifacts -> Row \cup {NoRow}]
      /\ object \in [Names -> Artifacts \cup {Absent}]
      /\ \A n \in DOMAIN versions : versions[n].artifact \in Artifacts
  BY Parts, VersionsTyped DEF TablesTyped
<1>1. ASSUME RegisterArtifact(a)
      PROVE  Grows /\ TablesTyped' /\ TablesHold' /\ \A s \in Requests : Current(s)'
  <2>1. PICK m \in Names \cup {Outside} :
          artifact' = [artifact EXCEPT ![a] = [status |-> "PENDING", name |-> m]]
    BY <1>1 DEF RegisterArtifact
  <2>2. /\ artifact[a] = NoRow /\ UNCHANGED <<member, landed, object, versions, lock, req>>
        /\ artifact'[a].status = "PENDING" /\ artifact'[a] \in Row
        /\ \A b \in Artifacts \ {a} : artifact'[b] = artifact[b]
    BY <1>0, <1>1, <2>1 DEF RegisterArtifact, Row, ArtifactStatus, ArtifactTransitions
  <2>3. artifact[a].status # "READY"
    BY <2>2, WorkspaceAssumption DEF NoRow, ArtifactStatus, ArtifactTransitions
  <2>4. Grows
    BY <2>2, <2>3 DEF Grows
  <2>5. TablesTyped'
    <3>1. artifact' \in [Artifacts -> Row \cup {NoRow}]
      BY <1>0, <2>1, <2>2
    <3> QED BY <1>0, <2>2, <3>1 DEF TablesTyped
  <2>6. TablesHold'
    <3>1. \A b \in Artifacts : artifact'[b].status = "READY" => Stored(b)'
      BY <1>0, <2>2 DEF TablesHold, Stored
    <3>2. \A n \in DOMAIN versions' : artifact'[versions'[n].artifact].status = "READY"
      BY <1>0, <2>2, <2>4 DEF TablesHold, Grows
    <3> QED BY <1>0, <2>2, <3>1, <3>2 DEF TablesHold, OwnerKept, OneProduction
  <2>7. ASSUME NEW s \in Requests PROVE Current(s)'
    <3>1. Current(s) /\ Founded(s) BY DEF IInv
    <3> QED BY <2>2, <3>1 DEF Current, Founded, HasRead
  <2> QED BY <2>4, <2>5, <2>6, <2>7
<1>2. ASSUME UploadLands(a)
      PROVE  Grows /\ TablesTyped' /\ TablesHold' /\ \A s \in Requests : Current(s)'
  <2>1. /\ object' = [object EXCEPT ![artifact[a].name] = a] /\ landed' = landed \cup {a}
        /\ UNCHANGED <<member, artifact, versions, lock, req>>
    BY <1>2 DEF UploadLands
  <2>2. Grows
    BY <1>0, <2>1, WorkspaceAssumption DEF Grows
  <2>3. TablesTyped'
    BY <1>0, <2>1 DEF TablesTyped
  <2>4. TablesHold'
    BY <1>0, <2>1, <2>2 DEF TablesHold, Stored, Grows, OwnerKept, OneProduction
  <2>5. ASSUME NEW s \in Requests PROVE Current(s)'
    <3>1. Current(s) BY DEF IInv
    <3> QED BY <2>1, <3>1 DEF Current, HasRead
  <2> QED BY <2>2, <2>3, <2>4, <2>5
<1>3. Grows /\ TablesTyped' /\ TablesHold' /\ \A s \in Requests : Current(s)'
  BY <1>1, <1>2
<1>4. req' = req /\ lock' = lock
  BY DEF RegisterArtifact, UploadLands
<1>5. \A s \in Requests : Founded(s)'
  BY <1>3, <1>4, FoundedKept
<1> QED BY <1>3, <1>4, <1>5 DEF IInv, TypeOK, TablesTyped, TablesHold

----------------------------------------------------------------------------
(* Model versions *)

LEMMA RegisterSteps ==
  ASSUME IInv, NEW r \in Requests,
         AskRegister(r) \/ RegisterNumbers(r) \/ RegisterInserts(r)
  PROVE  IInv'
<1>0. TablesTyped /\ TablesHold /\ req[r] \in Request
  BY Parts
<1>1. CASE AskRegister(r)
  <2>1. PICK a \in Artifacts :
          artifact[a].status = "READY" /\ Ask(r, "register", a, INITIAL_STATUS)
    BY <1>1 DEF AskRegister
  <2>2. INITIAL_STATUS \in ModelStatus
    BY DEF INITIAL_STATUS, ModelStatus, ModelTransitions
  <2> QED BY <2>1, <2>2, AskKeeps
<1>2. CASE RegisterNumbers(r)
  <2> DEFINE n == NextVersionNumber(versions)
  <2>1. /\ req[r].at = "asked" /\ req[r].op = "register" /\ Len(versions) < MaxVersions
        /\ ReadLocked(r, {n})
    BY <1>2 DEF RegisterNumbers, Asked
  <2>2. {n} \in SUBSET (1 .. MaxVersions)
    BY <1>0, <2>1, VersionsTyped, WorkspaceAssumption DEF NextVersionNumber
  <2>3. req'[r].op = "register" /\ req'[r].read = {n} /\ versions' = versions
    BY <2>1 DEF ReadLocked, IInv, TypeOK, Request, tables
  <2>4. Current(r)'
    BY <2>1, <2>3 DEF Current, HasRead, NextVersionNumber
  <2> QED BY <2>1, <2>2, <2>4, ReadKeeps
<1>3. CASE RegisterInserts(r)
  <2> DEFINE new == [status |-> req[r].to, artifact |-> req[r].on]
  <2>0. /\ req[r].at = "read" /\ req[r].op = "register" /\ Ends(r)
        /\ UNCHANGED <<member, artifact, landed, object>>
        /\ versions' = Append(versions, new)
        /\ req[r].on \in Artifacts /\ artifact[req[r].on].status = "READY"
        /\ req[r].to = "CREATED" /\ Len(versions) < MaxVersions
    BY <1>3 DEF RegisterInserts, HasRead, IInv, Founded, Current, INITIAL_STATUS
  <2>1. new \in Version
    BY <2>0 DEF Version, ModelStatus, ModelTransitions
  <2>2. /\ versions' \in Seq(Version) /\ Len(versions') = Len(versions) + 1
        /\ DOMAIN versions' = 1 .. Len(versions) + 1
        /\ \A n \in DOMAIN versions : versions'[n] = versions[n]
        /\ versions'[Len(versions) + 1] = new
    BY <1>0, <2>0, <2>1, VersionsTyped
  <2>3. TablesTyped'
    BY <1>0, <2>0, <2>2, VersionsTyped, WorkspaceAssumption DEF TablesTyped, Version
  <2>4. DOMAIN versions' = DOMAIN versions \cup {Len(versions) + 1}
    BY <1>0, <2>2, VersionsTyped
  <2>5. TablesHold'
    <3>1. \A n \in DOMAIN versions' : artifact'[versions'[n].artifact].status = "READY"
      BY <1>0, <2>0, <2>2, <2>4 DEF TablesHold
    <3>2. OneProduction'
      BY <1>0, <2>0, <2>2, <2>4 DEF TablesHold, OneProduction
    <3> QED BY <1>0, <2>0, <3>1, <3>2 DEF TablesHold, OwnerKept, Stored
  <2>6. Grows
    BY <2>0, <2>4 DEF Grows
  <2>7. ASSUME NEW s \in Requests \ {r} PROVE Current(s)'
    <3>1. Current(s) /\ req'[s] = req[s] /\ ~HasRead(s, "register") /\ ~HasRead(s, "status")
      BY <2>0, OtherRow, EndsTypes DEF IInv
    <3> QED BY <2>0, <3>1 DEF Current, HasRead
  <2> QED BY <2>0, <2>3, <2>5, <2>6, <2>7, WriteKeeps
<1> QED BY <1>1, <1>2, <1>3

(* A promotion and what it displaces, under the model's lock *)
LEMMA PromotionShape ==
  ASSUME IInv, NEW r \in Requests, StatusWrites(r)
  PROVE  /\ req[r].on \in DOMAIN versions /\ req[r].to \in ModelStatus
         /\ CanMove(versions[req[r].on].status, req[r].to)
         /\ DOMAIN versions' = DOMAIN versions
         /\ \A n \in DOMAIN versions :
              /\ versions'[n] \in Version /\ versions'[n].artifact = versions[n].artifact
              /\ versions'[n].status =
                   IF n = req[r].on THEN req[r].to
                   ELSE IF req[r].to = "PRODUCTION" /\ versions[n].status = "PRODUCTION"
                        THEN "STAGING" ELSE versions[n].status
<1>0. TablesTyped
  BY Parts
<1>1. /\ req[r].at = "read" /\ req[r].op = "status"
      /\ versions' = Moved(versions, req[r].on, req[r].to, req[r].read)
      /\ req[r].on \in DOMAIN versions /\ req[r].to \in ModelStatus
      /\ CanMove(versions[req[r].on].status, req[r].to)
      /\ req[r].read = Incumbents(versions, req[r].on, req[r].to)
  BY DEF StatusWrites, HasRead, IInv, Founded, Current
<1>2. DOMAIN versions' = DOMAIN versions
  BY <1>1 DEF Moved
<1>3. ASSUME NEW n \in DOMAIN versions
      PROVE  /\ versions'[n] = [versions[n] EXCEPT !.status =
                  IF n = req[r].on THEN req[r].to
                  ELSE IF n \in req[r].read THEN "STAGING" ELSE @]
             /\ n # req[r].on =>
                  (n \in req[r].read <=> req[r].to = "PRODUCTION" /\ versions[n].status = "PRODUCTION")
  BY <1>1, <1>3 DEF Moved, Incumbents, Exclusive, DISPLACED_TO
<1>4. ASSUME NEW n \in DOMAIN versions, NEW to \in ModelStatus
      PROVE  /\ [versions[n] EXCEPT !.status = to] \in Version
             /\ [versions[n] EXCEPT !.status = to].status = to
             /\ [versions[n] EXCEPT !.status = to].artifact = versions[n].artifact
  BY <1>0, <1>4, VersionsTyped DEF Version
<1>5. "STAGING" \in ModelStatus
  BY DEF ModelStatus, ModelTransitions
<1>6. \A n \in DOMAIN versions : versions[n].status \in ModelStatus
  BY <1>0, VersionsTyped
<1> DEFINE To(n) == IF n = req[r].on THEN req[r].to
                    ELSE IF req[r].to = "PRODUCTION" /\ versions[n].status = "PRODUCTION"
                         THEN "STAGING" ELSE versions[n].status
<1>7. ASSUME NEW n \in DOMAIN versions
      PROVE  To(n) \in ModelStatus /\ versions'[n] = [versions[n] EXCEPT !.status = To(n)]
  BY <1>1, <1>3, <1>5, <1>6, <1>7
<1>8. ASSUME NEW n \in DOMAIN versions
      PROVE  /\ versions'[n] \in Version /\ versions'[n].artifact = versions[n].artifact
             /\ versions'[n].status = To(n)
  <2> HIDE DEF To
  <2>1. PICK to \in ModelStatus :
          to = To(n) /\ versions'[n] = [versions[n] EXCEPT !.status = to]
    BY <1>7, <1>8
  <2>2. /\ [versions[n] EXCEPT !.status = to] \in Version
        /\ [versions[n] EXCEPT !.status = to].status = to
        /\ [versions[n] EXCEPT !.status = to].artifact = versions[n].artifact
    BY <1>4, <1>8, <2>1
  <2> QED BY <2>1, <2>2
<1> QED BY <1>1, <1>2, <1>8

LEMMA StatusSteps ==
  ASSUME IInv, NEW r \in Requests,
         AskStatus(r) \/ StatusReads(r) \/ StatusWrites(r)
  PROVE  IInv'
<1>0. TablesTyped /\ TablesHold /\ req[r] \in Request
  BY Parts
<1>1. CASE AskStatus(r)
  <2>1. PICK n \in DOMAIN versions, to \in ModelStatus : Ask(r, "status", n, to)
    BY <1>1 DEF AskStatus
  <2> QED BY <1>0, <2>1, VersionsTyped, AskKeeps
<1>2. CASE StatusReads(r)
  <2> DEFINE read == Incumbents(versions, req[r].on, req[r].to)
  <2>1. CASE CanMove(versions[req[r].on].status, req[r].to)
    <3>1. /\ req[r].at = "asked" /\ req[r].op = "status" /\ ReadLocked(r, read)
      BY <1>2, <2>1 DEF StatusReads, Asked
    <3>2. read \in SUBSET (1 .. MaxVersions)
      BY <1>0, VersionsTyped DEF Incumbents
    <3>3. /\ req'[r].op = "status" /\ req'[r].on = req[r].on /\ req'[r].to = req[r].to
          /\ req'[r].read = read /\ versions' = versions
      BY <3>1 DEF ReadLocked, IInv, TypeOK, Request, tables
    <3>4. Current(r)'
      BY <2>1, <3>3 DEF Current, HasRead
    <3> QED BY <3>1, <3>2, <3>4, ReadKeeps
  <2>2. CASE ~CanMove(versions[req[r].on].status, req[r].to)
    BY <1>2, <2>2, RefusedKeeps DEF StatusReads, Asked
  <2> QED BY <2>1, <2>2
<1>3. CASE StatusWrites(r)
  <2>0. /\ req[r].at = "read" /\ req[r].op = "status" /\ Ends(r)
        /\ UNCHANGED <<member, artifact, landed, object>>
    BY <1>3 DEF StatusWrites, HasRead
  <2>1. /\ DOMAIN versions' = 1 .. Len(versions) /\ \A n \in 1 .. Len(versions) : versions'[n] \in Version
        /\ Len(versions) \in Nat /\ Len(versions) <= MaxVersions
    BY <1>0, <1>3, PromotionShape, VersionsTyped DEF TablesTyped
  <2>2. versions' \in Seq(Version) /\ Len(versions') = Len(versions)
    <3>1. versions' = [n \in 1 .. Len(versions) |-> versions'[n]]
      BY <1>3, <2>1 DEF StatusWrites, Moved
    <3>2. versions' \in [1 .. Len(versions) -> Version]
      BY <2>1, <3>1
    <3> QED BY <2>1, <3>2
  <2>3. TablesTyped'
    BY <1>0, <2>0, <2>1, <2>2 DEF TablesTyped, Version
  <2>4. TablesHold'
    <3>1. OneProduction'
      BY <1>0, <1>3, PromotionShape DEF TablesHold, OneProduction
    <3>2. \A n \in DOMAIN versions' : artifact'[versions'[n].artifact].status = "READY"
      BY <1>0, <1>3, <2>0, PromotionShape DEF TablesHold
    <3> QED BY <1>0, <2>0, <3>1, <3>2 DEF TablesHold, OwnerKept, Stored
  <2>5. Grows
    BY <1>3, <2>0, PromotionShape DEF Grows
  <2>6. ASSUME NEW s \in Requests \ {r} PROVE Current(s)'
    <3>1. Current(s) /\ req'[s] = req[s] /\ ~HasRead(s, "register") /\ ~HasRead(s, "status")
      BY <2>0, OtherRow, EndsTypes DEF IInv
    <3> QED BY <2>0, <3>1 DEF Current, HasRead
  <2> QED BY <2>0, <2>3, <2>4, <2>5, <2>6, WriteKeeps
<1> QED BY <1>1, <1>2, <1>3

----------------------------------------------------------------------------
(* The invariant *)

LEMMA InitHolds == ASSUME Init PROVE IInv
<1>1. TablesTyped
  BY WorkspaceAssumption
     DEF Init, TablesTyped, Standing, RANK, Version
<1>2. TablesHold
  BY WorkspaceAssumption
     DEF Init, TablesHold, NoRow, ArtifactStatus, ArtifactTransitions, Stored,
         OwnerKept, Owners, OneProduction
<1>3. /\ req \in [Requests -> Request] /\ lock \in [Locks -> Requests \cup {None}]
      /\ \A r \in Requests : req[r] = Idle
      /\ \A l \in Locks, r \in Requests :
           lock[l] = r <=> req[r].at = "read" /\ LockOf(req[r]) = l
  BY IdleRequest, WorkspaceAssumption DEF Init, Idle
<1> QED BY <1>1, <1>2, <1>3, IdleFounded, Parts

LEMMA StepHolds == ASSUME IInv, [Next]_vars PROVE IInv'
<1>1. ASSUME NEW r \in Requests, RequestStep(r) PROVE IInv'
  <2>1. CASE RollsBack(r)
    BY <2>1, EndKeeps DEF RollsBack
  <2> QED BY <1>1, <2>1, MemberSteps, SettleSteps, RegisterSteps, StatusSteps DEF RequestStep
<1>2. ASSUME NEW a \in Artifacts, RegisterArtifact(a) \/ UploadLands(a) PROVE IInv'
  BY <1>2, RunSteps
<1>3. CASE UNCHANGED vars
  <2>1. TablesTyped' /\ TablesHold' /\ UNCHANGED tables /\ req' = req /\ lock' = lock
    BY <1>3, Parts, TablesUntouched DEF vars
  <2>2. \A s \in Requests : Founded(s)' /\ Current(s)'
    BY <2>1, FoundedKept, UntouchedGrows, CurrentUntouched DEF IInv
  <2> QED BY <2>1, <2>2 DEF IInv, TypeOK, TablesTyped, TablesHold
<1> QED BY <1>1, <1>2, <1>3 DEF Next

(* Whatever requests overlap, each one that is between its read and its    *)
(* write holds its row alone, and what it read there is still true.        *)
THEOREM Inductive == Spec => []IInv
<1>1. Init => IInv BY InitHolds
<1>2. IInv /\ [Next]_vars => IInv' BY StepHolds
<1> QED BY <1>1, <1>2, PTL DEF Spec

(* Every variable has its type and each lock one holder, in all of repos/. *)
THEOREM TypeCorrect == Spec => []TypeOK
<1>1. IInv => TypeOK BY DEF IInv
<1> QED BY <1>1, Inductive, PTL

(* No overlap of demotions and removals leaves the project without owner   *)
(* (setMember, removeMember).                                              *)
THEOREM OwnerAlwaysKept == Spec => []OwnerKept
<1>1. IInv => OwnerKept BY DEF IInv
<1> QED BY <1>1, Inductive, PTL

(* No overlap of promotions leaves two versions in PRODUCTION (setStatus). *)
THEOREM OneInProduction == Spec => []OneProduction
<1>1. IInv => OneProduction BY DEF IInv
<1> QED BY <1>1, Inductive, PTL

(* No registration loses its number to another (registerVersion).          *)
THEOREM NumbersGivenOnce == Spec => []NumberStillFree
<1>1. ASSUME IInv, NEW r \in Requests, HasRead(r, "register")
      PROVE  req[r].read \cap DOMAIN versions = {}
  <2>1. req[r].read = {Len(versions) + 1}
    BY <1>1 DEF IInv, Current, NextVersionNumber
  <2>2. DOMAIN versions = 1 .. Len(versions) /\ Len(versions) \in Nat
    BY <1>1, Parts, VersionsTyped
  <2> QED BY <2>1, <2>2
<1>2. IInv => NumberStillFree BY <1>1 DEF NumberStillFree
<1> QED BY <1>2, Inductive, PTL

(* A version is always made of a confirmed artifact whose key, if it is    *)
(* the store's, has bytes (registerVersion, completeArtifact).             *)
THEOREM VersionsAlwaysUsable == Spec => []VersionsUsable
<1>1. ASSUME IInv, NEW n \in DOMAIN versions
      PROVE  LET a == artifact[versions[n].artifact] IN
             a.status = "READY" /\ (a.name \in Names => object[a.name] # Absent)
  <2>1. versions[n].artifact \in Artifacts
    BY <1>1, Parts, VersionsTyped
  <2> QED BY <1>1, <2>1 DEF IInv, Stored
<1>2. IInv => VersionsUsable BY <1>1 DEF VersionsUsable
<1> QED BY <1>2, Inductive, PTL

(* What has been archived stays archived, whoever promotes (transition).   *)
THEOREM ArchivedStaysArchived == Spec => ArchivedIsFinal
<1> DEFINE Final == \A n \in DOMAIN versions :
                     versions[n].status = "ARCHIVED" => versions'[n].status = "ARCHIVED"
<1>1. ASSUME IInv, [Next]_vars PROVE Final
  <2>0. TablesTyped
    BY <1>1, Parts
  <2>1. CASE versions' = versions
    BY <2>1
  <2>2. ASSUME NEW r \in Requests, RegisterInserts(r) PROVE Final
    BY <2>0, <2>2, VersionsTyped DEF RegisterInserts
  <2>3. ASSUME NEW r \in Requests, StatusWrites(r) PROVE Final
    BY <1>1, <2>3, PromotionShape DEF CanMove, ModelTransitions
  <2>4. ASSUME NEW r \in Requests, RequestStep(r) PROVE Final
    BY <2>1, <2>2, <2>3, <2>4
       DEF RequestStep, AskMember, MemberCounts, MemberWrites, AskSettle, SettleReads,
           SettleWrites, AskRegister, RegisterNumbers, AskStatus, StatusReads, RollsBack,
           Ask, ReadLocked, Refused, tables
  <2> QED BY <1>1, <2>1, <2>4 DEF Next, RegisterArtifact, UploadLands, vars, tables
<1>2. IInv /\ [Next]_vars => [Final]_vars BY <1>1
<1> QED BY <1>2, Inductive, PTL DEF Spec, ArchivedIsFinal
=============================================================================
