------------------------------ MODULE MCRouter ------------------------------
(* Instances of Router for TLC: one version, a canary, and its promotion.  *)
EXTENDS Router, TLC

MCSplits == {1 :> 100 @@ 2 :> 0, 1 :> 90 @@ 2 :> 10, 1 :> 0 @@ 2 :> 100}
=============================================================================
