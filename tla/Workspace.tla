----------------------------- MODULE Workspace ------------------------------
(***************************************************************************)
(* One project as its members and its runs change it through the API: the  *)
(* membership (services/auth.js), the artifacts a job reports              *)
(* (services/artifacts.js over the object store) and the versions of one   *)
(* model registered from them (services/models.js).                        *)
(*                                                                         *)
(* A request is authorised on what was true when it arrived, then runs a   *)
(* transaction: it takes the row lock its invariant needs, reads, and      *)
(* writes and commits.  Requests interleave at each of those points, and a *)
(* transaction may roll back between reading and writing.                  *)
(***************************************************************************)
EXTENDS Access, Registry

CONSTANTS
  Users,        \* people with an API token
  Admins,       \* those who are platform administrators
  Artifacts,    \* the artifacts the job's attempts will register
  Names,        \* the names they register them under
  Outside,      \* the location of an artifact the run stored itself
  Absent,       \* no object under a key; no artifact row
  Requests,     \* requests in flight at once
  None,         \* a lock nobody holds
  Size,         \* the size of the bytes of each artifact
  MaxVersions   \* bound on the versions registered

ASSUME WorkspaceAssumption ==
  /\ Admins \subseteq Users /\ Users # {}
  /\ Outside \notin Names /\ Absent \notin Artifacts \cup ArtifactStatus /\ None \notin Requests
  /\ {"members", "model"} \cap Artifacts = {}
  /\ Size \in [Artifacts -> Nat] /\ MaxVersions \in Nat

VARIABLES
  member,     \* project_members: the role of each user
  artifact,   \* the artifacts table
  landed,     \* artifacts whose upload has reached the store
  object,     \* the store: whose bytes are under each key
  versions,   \* the model's versions, by number
  lock,       \* who holds each row lock
  req         \* each request

tables == <<member, artifact, landed, object, versions>>
vars   == <<tables, lock, req>>

Locks == {"members", "model"} \cup Artifacts

NoRow == [status |-> Absent, name |-> Absent]
Row   == [status : ArtifactStatus, name : Names \cup {Outside}]

Idle    == [at |-> "idle", op |-> "none", on |-> None, to |-> "NONE", read |-> {}]
Request == [at : {"idle", "asked", "read"},
            op : {"none", "member", "register", "status", "settle"},
            on : Users \cup Artifacts \cup (1 .. MaxVersions) \cup {None},
            to : Standing \cup ModelStatus \cup ArtifactStatus,
            read : SUBSET (1 .. MaxVersions)]

(* createProject: its creator is a member, and its owner *)
Init ==
  /\ \E u \in Users : member = [v \in Users |-> IF v = u THEN "OWNER" ELSE "NONE"]
  /\ artifact = [a \in Artifacts |-> NoRow]
  /\ landed = {} /\ object = [n \in Names |-> Absent]
  /\ versions = <<>>
  /\ lock = [l \in Locks |-> None]
  /\ req = [r \in Requests |-> Idle]

----------------------------------------------------------------------------
(* Authorisation: the project is "here", its one job "job" *)

Here == [project |-> "here", job |-> Null, experiment |-> Null, deployment |-> Null]
Job  == [Here EXCEPT !.job = "job"]

Caller(u) == UserPrincipal(u \in Admins, [p \in {"here"} |-> member[u]])
Pod       == RunPrincipal("job", "here", Null)

SomeoneMay(permission) == \E u \in Users : Answer(Caller(u), permission, Here) = "granted"
RunMayReport           == Answer(Pod, "RUN_REPORT", Job) = "granted"

----------------------------------------------------------------------------
(* Transactions *)

LockOf(q) == CASE q.op = "member"               -> "members"
               [] q.op \in {"register", "status"} -> "model"
               [] q.op = "settle"               -> q.on

Asked(r, op)   == req[r].at = "asked" /\ req[r].op = op
HasRead(r, op) == req[r].at = "read" /\ req[r].op = op

Ask(r, op, on, to) ==
  /\ req[r].at = "idle"
  /\ req' = [req EXCEPT ![r] = [at |-> "asked", op |-> op, on |-> on, to |-> to, read |-> {}]]
  /\ UNCHANGED <<tables, lock>>

(* SELECT ... FOR UPDATE, and what is read under it *)
ReadLocked(r, read) ==
  /\ lock[LockOf(req[r])] = None
  /\ lock' = [lock EXCEPT ![LockOf(req[r])] = r]
  /\ req' = [req EXCEPT ![r].at = "read", ![r].read = read]
  /\ UNCHANGED tables

(* Mutant: a plain SELECT *)
ReadUnlocked(r, read) ==
  /\ lock' = lock
  /\ req' = [req EXCEPT ![r].at = "read", ![r].read = read]
  /\ UNCHANGED tables

(* Mutant: the early return keeps the transaction open *)
RefusedUnreleased(r) ==
  /\ lock[LockOf(req[r])] = None
  /\ lock' = [lock EXCEPT ![LockOf(req[r])] = r]
  /\ req' = [req EXCEPT ![r] = Idle]
  /\ UNCHANGED tables

(* The row was free and what it says refuses the request: a 4xx, rolled back *)
Refused(r) ==
  /\ lock[LockOf(req[r])] = None
  /\ req' = [req EXCEPT ![r] = Idle]
  /\ UNCHANGED <<tables, lock>>

(* COMMIT or ROLLBACK: the request is answered and its lock released *)
Ends(r) ==
  /\ req' = [req EXCEPT ![r] = Idle]
  /\ lock' = [l \in Locks |-> IF lock[l] = r THEN None ELSE lock[l]]

RollsBack(r) == req[r].at # "idle" /\ Ends(r) /\ UNCHANGED tables

(* ---------------------- membership ------------------------------------- *)
AskMember(r) ==
  /\ SomeoneMay("PROJECT_ADMIN")
  /\ \E u \in Users, role \in Standing : Ask(r, "member", u, role)

(* Mutant: the owners are counted without the lock on the project *)
MemberCountsUnlocked(r) ==
  /\ Asked(r, "member")
  /\ IF MayChange(member, req[r].on, req[r].to) THEN ReadUnlocked(r, {}) ELSE Refused(r)

MemberCounts(r) ==
  /\ Asked(r, "member")
  /\ IF MayChange(member, req[r].on, req[r].to) THEN ReadLocked(r, {}) ELSE Refused(r)

MemberWrites(r) ==
  /\ HasRead(r, "member")
  /\ member' = [member EXCEPT ![req[r].on] = req[r].to]
  /\ Ends(r) /\ UNCHANGED <<artifact, landed, object, versions>>

(* ---------------------- artifacts -------------------------------------- *)
RegisterArtifact(a) ==
  /\ RunMayReport
  /\ artifact[a] = NoRow
  /\ \E n \in Names \cup {Outside} :
       artifact' = [artifact EXCEPT ![a] = [status |-> "PENDING", name |-> n]]
  /\ UNCHANGED <<member, landed, object, versions, lock, req>>

(* The pod's PUT reaches the bucket, under the key of the job and the name *)
UploadLands(a) ==
  /\ artifact[a].name \in Names /\ a \notin landed
  /\ landed' = landed \cup {a}
  /\ object' = [object EXCEPT ![artifact[a].name] = a]
  /\ UNCHANGED <<member, artifact, versions, lock, req>>

UploadConfirmed(a) ==
  LET n == artifact[a].name IN
  \/ n = Outside
  \/ n \in Names /\ Verified(object[n], Absent, Size, Size[a])

(* completeArtifact asks the store before its transaction; failArtifact does not *)
AskSettle(r) ==
  /\ RunMayReport
  /\ \E a \in Artifacts :
       /\ artifact[a] # NoRow
       /\ \/ UploadConfirmed(a) /\ Ask(r, "settle", a, "READY")
          \/ Ask(r, "settle", a, "FAILED")

(* Mutant: getArtifactStatusForUpdate without FOR UPDATE *)
SettleReadsUnlocked(r) ==
  /\ Asked(r, "settle")
  /\ IF CanSettle(artifact[req[r].on].status, req[r].to) THEN ReadUnlocked(r, {}) ELSE Refused(r)

SettleReads(r) ==
  /\ Asked(r, "settle")
  /\ IF CanSettle(artifact[req[r].on].status, req[r].to) THEN ReadLocked(r, {}) ELSE Refused(r)

SettleWrites(r) ==
  /\ HasRead(r, "settle")
  /\ artifact' = [artifact EXCEPT ![req[r].on].status = req[r].to]
  /\ Ends(r) /\ UNCHANGED <<member, landed, object, versions>>

(* ---------------------- model versions --------------------------------- *)
(* registerVersion reads the artifact before it takes the model's lock *)
AskRegister(r) ==
  /\ SomeoneMay("PROJECT_WRITE")
  /\ \E a \in Artifacts : artifact[a].status = "READY" /\ Ask(r, "register", a, INITIAL_STATUS)

(* Mutant: MAX(version) + 1 without the lock on the model *)
RegisterNumbersUnlocked(r) ==
  /\ Asked(r, "register") /\ Len(versions) < MaxVersions
  /\ ReadUnlocked(r, {NextVersionNumber(versions)})

RegisterNumbers(r) ==
  /\ Asked(r, "register") /\ Len(versions) < MaxVersions
  /\ ReadLocked(r, {NextVersionNumber(versions)})

RegisterInserts(r) ==
  /\ HasRead(r, "register")
  /\ req[r].read \cap DOMAIN versions = {}          \* UNIQUE (model_id, version)
  /\ versions' = Append(versions, [status |-> req[r].to, artifact |-> req[r].on])
  /\ Ends(r) /\ UNCHANGED <<member, artifact, landed, object>>

AskStatus(r) ==
  /\ SomeoneMay("PROJECT_WRITE")
  /\ \E n \in DOMAIN versions, to \in ModelStatus : Ask(r, "status", n, to)

(* Mutant: the incumbent is looked for before the lock *)
StatusReadsUnlocked(r) ==
  LET q == req[r] IN
  /\ Asked(r, "status")
  /\ IF CanMove(versions[q.on].status, q.to)
     THEN ReadUnlocked(r, Incumbents(versions, q.on, q.to)) ELSE Refused(r)

StatusReads(r) ==
  LET q == req[r] IN
  /\ Asked(r, "status")
  /\ IF CanMove(versions[q.on].status, q.to)
     THEN ReadLocked(r, Incumbents(versions, q.on, q.to)) ELSE Refused(r)

StatusWrites(r) ==
  /\ HasRead(r, "status")
  /\ versions' = Moved(versions, req[r].on, req[r].to, req[r].read)
  /\ Ends(r) /\ UNCHANGED <<member, artifact, landed, object>>

----------------------------------------------------------------------------
RequestStep(r) ==
  \/ AskMember(r)   \/ MemberCounts(r)    \/ MemberWrites(r)
  \/ AskSettle(r)   \/ SettleReads(r)     \/ SettleWrites(r)
  \/ AskRegister(r) \/ RegisterNumbers(r) \/ RegisterInserts(r)
  \/ AskStatus(r)   \/ StatusReads(r)     \/ StatusWrites(r)
  \/ RollsBack(r)

Next ==
  \/ \E r \in Requests : RequestStep(r)
  \/ \E a \in Artifacts : RegisterArtifact(a) \/ UploadLands(a)

Spec == Init /\ [][Next]_vars

----------------------------------------------------------------------------
(* Every variable has its type, and a lock is held exactly by the request  *)
(* that is between its read and its write: repos/*.js over db/pool.js.     *)
TypeOK ==
  /\ member \in [Users -> Standing]
  /\ artifact \in [Artifacts -> Row \cup {NoRow}]
  /\ landed \subseteq Artifacts
  /\ object \in [Names -> Artifacts \cup {Absent}]
  /\ versions \in Seq([status : ModelStatus, artifact : Artifacts])
  /\ Len(versions) <= MaxVersions
  /\ req \in [Requests -> Request]
  /\ lock \in [Locks -> Requests \cup {None}]
  /\ \A l \in Locks, r \in Requests :
       lock[l] = r <=> req[r].at = "read" /\ LockOf(req[r]) = l

(* Whoever demotes and removes whom at the same time, the project keeps an *)
(* owner (setMember and removeMember in services/auth.js).                 *)
OwnerKept == Owners(member) # {}

(* However promotions, archivals and registrations overlap, at most one    *)
(* version of the model is in PRODUCTION (setStatus in services/models.js).*)
OneProduction ==
  \A m, n \in DOMAIN versions :
    versions[m].status = "PRODUCTION" /\ versions[n].status = "PRODUCTION" => m = n

(* A number a registration has been given is still free when it inserts:   *)
(* no caller loses a version to the UNIQUE constraint (registerVersion).   *)
NumberStillFree ==
  \A r \in Requests : HasRead(r, "register") => req[r].read \cap DOMAIN versions = {}

(* Every version is made of an artifact that is still READY, and of one in *)
(* the store only if bytes are under its key, whatever other confirmation  *)
(* or abandonment of it was under way (registerVersion, settle, verify).   *)
VersionsUsable ==
  \A n \in DOMAIN versions :
    LET a == artifact[versions[n].artifact] IN
    /\ a.status = "READY"
    /\ a.name \in Names => object[a.name] # Absent

(* An archived version never comes back, not even as the incumbent another *)
(* promotion displaces (transition and setStatus).                         *)
ArchivedIsFinal ==
  [][\A n \in DOMAIN versions :
       versions[n].status = "ARCHIVED" => versions'[n].status = "ARCHIVED"]_vars

(* artifact-status.js: the digest describes exactly the bytes at that URI. *)
DigestDescribesBytes ==
  \A a \in Artifacts :
    artifact[a].status = "READY" /\ artifact[a].name \in Names => object[artifact[a].name] = a
=============================================================================
