--------------------------- MODULE MCJobExecutor ---------------------------
(* Instances of JobExecutor for TLC. Jobs are interchangeable: no action   *)
(* orders them, so the safety runs may permute them.                       *)
EXTENDS JobExecutorInv, TLC

JobSymmetry == Permutations(Jobs)
=============================================================================
