---------------------------- MODULE MCWorkspace -----------------------------
(* Instances of Workspace for TLC. Users and requests are interchangeable; *)
(* so are artifacts whose bytes all have one size.                         *)
EXTENDS Workspace, TLC

SameSize  == [a \in Artifacts |-> 1]
OwnSize   == CHOOSE s \in [Artifacts -> 1 .. Cardinality(Artifacts)] :
               \A a, b \in Artifacts : s[a] = s[b] => a = b

People    == Permutations(Users \ Admins) \cup Permutations(Requests)
Symmetry  == People \cup Permutations(Artifacts)
=============================================================================
