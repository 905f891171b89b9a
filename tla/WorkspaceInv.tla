---------------------------- MODULE WorkspaceInv ----------------------------
(***************************************************************************)
(* The inductive invariant of Workspace.  Between its read and its write a *)
(* request acts on what it has read; the row lock it holds keeps that true *)
(* (Current).  What a request was asked with is older than its lock, and   *)
(* stays true because the tables only grow in it (Founded): a confirmed    *)
(* artifact stays confirmed, a key that has bytes keeps some, versions are *)
(* never deleted.                                                          *)
(***************************************************************************)
EXTENDS Workspace

Stored(a) == artifact[a].name \in Names => object[artifact[a].name] # Absent

Founded(r) ==
  LET q == req[r] IN
  /\ q.op = "none"     => q.at = "idle"
  /\ q.op = "member"   => q.on \in Users /\ q.to \in Standing
  /\ q.op = "settle"   => /\ q.on \in Artifacts /\ artifact[q.on] # NoRow
                          /\ q.to \in {"READY", "FAILED"}
                          /\ q.to = "READY" => Stored(q.on)
  /\ q.op = "register" => /\ q.on \in Artifacts /\ artifact[q.on].status = "READY"
                          /\ q.to = INITIAL_STATUS
  /\ q.op = "status"   => q.on \in DOMAIN versions /\ q.to \in ModelStatus

Current(r) ==
  LET q == req[r] IN
  /\ HasRead(r, "member")   => MayChange(member, q.on, q.to)
  /\ HasRead(r, "settle")   => CanSettle(artifact[q.on].status, q.to)
  /\ HasRead(r, "register") => /\ Len(versions) < MaxVersions
                               /\ q.read = {NextVersionNumber(versions)}
  /\ HasRead(r, "status")   => /\ CanMove(versions[q.on].status, q.to)
                               /\ q.read = Incumbents(versions, q.on, q.to)

IInv ==
  /\ TypeOK
  /\ \A r \in Requests : Founded(r) /\ Current(r)
  /\ \A a \in Artifacts : artifact[a].status = "READY" => Stored(a)
  /\ \A n \in DOMAIN versions : artifact[versions[n].artifact].status = "READY"
  /\ OwnerKept
  /\ OneProduction
=============================================================================
