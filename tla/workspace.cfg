\* Two overlapping requests of any kind: two members, two artifacts under one name, two versions.
SPECIFICATION Spec
CONSTANTS
  Users = {u1, u2}
  Admins = {}
  Artifacts = {a1, a2}
  Names = {n1}
  Requests = {r1, r2}
  Outside = Outside
  Absent = Absent
  None = None
  Null = Null
  Size <- SameSize
  MaxVersions = 2
SYMMETRY Symmetry
INVARIANTS TypeOK OwnerKept OneProduction NumberStillFree VersionsUsable
PROPERTIES ArchivedIsFinal
