--------------------------- MODULE MCDeployments ---------------------------
(* Instances of Deployments for TLC. *)
EXTENDS DeploymentsInv, TLC

OperatorSymmetry == Permutations(Operators)
=============================================================================
