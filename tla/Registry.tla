------------------------------ MODULE Registry ------------------------------
(***************************************************************************)
(* What the registry's tables may become (domain/model-status.js,          *)
(* domain/artifact-status.js, and the statements of repos/models.js and    *)
(* repos/artifacts.js): the two lifecycles, the next version number, a     *)
(* promotion and what it displaces, and what verifying an upload asks of   *)
(* the object store.  Pure: Workspace has the requests.                    *)
(***************************************************************************)
EXTENDS Integers, Sequences

ModelTransitions ==
  [CREATED    |-> {"STAGING", "PRODUCTION", "ARCHIVED"},
   STAGING    |-> {"PRODUCTION", "CREATED", "ARCHIVED"},
   PRODUCTION |-> {"STAGING", "ARCHIVED"},
   ARCHIVED   |-> {}]
ModelStatus    == DOMAIN ModelTransitions
CanMove(from, to) == to \in ModelTransitions[from]

INITIAL_STATUS  == "CREATED"
DISPLACED_TO    == "STAGING"
Exclusive(status) == status = "PRODUCTION"

(* COALESCE(MAX(version), 0) + 1: versions are numbered without gaps and   *)
(* never deleted                                                           *)
NextVersionNumber(versions) == Len(versions) + 1

(* The versions a move of this one to this status displaces *)
Incumbents(versions, version, status) ==
  IF Exclusive(status)
  THEN {n \in DOMAIN versions \ {version} : versions[n].status = status}
  ELSE {}

Moved(versions, version, status, displaced) ==
  [n \in DOMAIN versions |->
     [versions[n] EXCEPT !.status = IF n = version THEN status
                                    ELSE IF n \in displaced THEN DISPLACED_TO ELSE @]]

ArtifactTransitions ==
  [PENDING |-> {"READY", "FAILED"}, READY |-> {}, FAILED |-> {}]
ArtifactStatus      == DOMAIN ArtifactTransitions
CanSettle(from, to) == to \in ArtifactTransitions[from]

(* verify: an object at the key, of the size the run reported.  Outside    *)
(* the store there is nobody to ask, and the row says it was not checked.  *)
Verified(found, absent, size, claimed) == found # absent /\ size[found] = claimed
=============================================================================
