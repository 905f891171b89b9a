\* Two artifacts of one job under one name share a key: the second upload replaces the bytes of the first.
SPECIFICATION Spec
CONSTANTS
  Users = {u1, u2}
  Admins = {}
  Artifacts = {a1, a2}
  Names = {n1}
  Requests = {r1, r2}
  Outside = Outside
  Absent = Absent
  None = None
  Null = Null
  Size <- OwnSize
  MaxVersions = 2
SYMMETRY People
INVARIANT DigestDescribesBytes
