------------------------------- MODULE Access -------------------------------
(***************************************************************************)
(* Who may do what (domain/roles.js, services/auth.js, auth/install.js):   *)
(* the ladder of project roles, the permissions, the three kinds of        *)
(* principal a bearer token can stand for, and the rule that no change of  *)
(* membership leaves a project without an owner.                           *)
(*                                                                         *)
(* Pure: a principal carries the memberships it was authenticated with.    *)
(***************************************************************************)
EXTENDS Integers, FiniteSets

CONSTANT Null   \* a scope field that is absent

RANK     == [NONE |-> 0, VIEWER |-> 1, EDITOR |-> 2, OWNER |-> 3]
Roles    == DOMAIN RANK \ {"NONE"}
Standing == DOMAIN RANK            \* NONE: no row in project_members

AtLeast(role, minimum) == role \in Roles /\ RANK[role] >= RANK[minimum]

REQUIRED_ROLE == [PROJECT_READ |-> "VIEWER", PROJECT_WRITE |-> "EDITOR",
                  PROJECT_ADMIN |-> "OWNER", ARTIFACT_FETCH |-> "VIEWER",
                  ROUTING_READ |-> "VIEWER"]
Permissions   == DOMAIN REQUIRED_ROLE \cup {"PLATFORM_ADMIN", "RUN_REPORT"}

(* Principals: a person, one attempt of one job, one deployment *)
UserPrincipal(isAdmin, memberships) ==
  [kind |-> "USER", isAdmin |-> isAdmin, memberships |-> memberships]
RunPrincipal(job, project, experiment) ==
  [kind |-> "RUN", job |-> job, project |-> project, experiment |-> experiment]
ServingPrincipal(deployment, project) ==
  [kind |-> "SERVING", deployment |-> deployment, project |-> project]

RoleIn(p, project) == p.memberships[project]

(* A run reports on itself, named by its job or by its experiment; a       *)
(* workload reads artifacts of its project, a deployment its own routing.  *)
RunCan(p, permission, scope) ==
  \/ /\ permission = "RUN_REPORT"
     /\ IF scope.job # Null THEN p.job = scope.job
        ELSE scope.experiment # Null /\ p.experiment = scope.experiment
  \/ permission = "ARTIFACT_FETCH" /\ scope.project # Null /\ p.project = scope.project

ServingCan(p, permission, scope) ==
  \/ permission = "ARTIFACT_FETCH" /\ scope.project # Null /\ p.project = scope.project
  \/ permission = "ROUTING_READ" /\ scope.deployment # Null /\ p.deployment = scope.deployment

UserCan(p, permission, scope) ==
  /\ permission # "RUN_REPORT"
  /\ \/ p.isAdmin
     \/ /\ permission \in DOMAIN REQUIRED_ROLE
        /\ scope.project # Null
        /\ AtLeast(RoleIn(p, scope.project), REQUIRED_ROLE[permission])

Can(p, permission, scope) ==
  \/ p.kind = "RUN"     /\ RunCan(p, permission, scope)
  \/ p.kind = "SERVING" /\ ServingCan(p, permission, scope)
  \/ p.kind = "USER"    /\ UserCan(p, permission, scope)

(* resolveProject and requireEntity: whoever can neither read the project  *)
(* nor do the thing asked is told that there is no such thing.             *)
Answer(p, permission, scope) ==
  CASE Can(p, permission, scope)        -> "granted"
    [] ~Can(p, permission, scope) /\ Can(p, "PROJECT_READ", scope) -> "forbidden"
    [] OTHER                            -> "not found"

(* Membership, as the row of each user in the project *)
Owners(member) == {u \in DOMAIN member : member[u] = "OWNER"}

(* setMember to a lesser role and removeMember, which asks for a row       *)
LeavesNoOwner(member, user, role) ==
  role # "OWNER" /\ Owners(member) = {user}

MayChange(member, user, role) ==
  /\ role = "NONE" => member[user] \in Roles
  /\ ~LeavesNoOwner(member, user, role)
=============================================================================
