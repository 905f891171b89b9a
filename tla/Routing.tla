------------------------------ MODULE Routing ------------------------------
(***************************************************************************)
(* domain/routing.js: what a traffic weight means.  A split is a function  *)
(* from the versions a deployment serves to whole percentages.  The code   *)
(* computes shares in floating point and rounds down; a share that is an   *)
(* integer may come out a hair below it, but then its fraction is the      *)
(* largest and the remainder gives it back, so exact arithmetic agrees up  *)
(* to which of two unequal weights with equal fractions is rounded up.     *)
(***************************************************************************)
EXTENDS Integers, FiniteSets

TOTAL_WEIGHT == 100

Total(split) ==
  LET sum[S \in SUBSET DOMAIN split] ==
        IF S = {} THEN 0
        ELSE LET v == CHOOSE v \in S : TRUE IN split[v] + sum[S \ {v}]
  IN sum[DOMAIN split]

TakingTraffic(split) == {v \in DOMAIN split : split[v] > 0}

NeedsRouter(split) == Cardinality(TakingTraffic(split)) > 1

ValidWeights(split) ==
  /\ DOMAIN split # {}
  /\ \A v \in DOMAIN split : split[v] \in 0 .. TOTAL_WEIGHT
  /\ Total(split) = TOTAL_WEIGHT
  /\ TakingTraffic(split) # {}

(* The share one version keeps of what the rollout leaves, as a numerator  *)
(* over the sum of the others; in equal parts when the others have nothing *)
Portion(others, v, remaining) ==
  IF Total(others) > 0 THEN others[v] * remaining ELSE remaining

Parts(others) ==
  IF Total(others) > 0 THEN Total(others) ELSE Cardinality(DOMAIN others)

(* Largest fraction first, the lower version on a tie                      *)
Before(others, remaining, v, w) ==
  LET fraction(u) == Portion(others, u, remaining) % Parts(others)
  IN \/ fraction(v) > fraction(w)
     \/ fraction(v) = fraction(w) /\ v < w

(* What is left of a whole percentage goes to the largest fractions        *)
Rounded(others, remaining) ==
  LET floor    == [v \in DOMAIN others |-> Portion(others, v, remaining) \div Parts(others)]
      leftover == remaining - Total(floor)
      ahead(v) == {w \in DOMAIN others : Before(others, remaining, w, v)}
  IN [v \in DOMAIN others |-> floor[v] + (IF Cardinality(ahead(v)) < leftover THEN 1 ELSE 0)]

ApplyRollout(split, version, weight) ==
  LET others == [v \in DOMAIN split \ {version} |-> split[v]]
      next   == Rounded(others, TOTAL_WEIGHT - weight)
  IN IF DOMAIN others = {} THEN [v \in {version} |-> TOTAL_WEIGHT]
     ELSE [v \in DOMAIN others \cup {version} |-> IF v = version THEN weight ELSE next[v]]

(* The versions one request may be sent to.  Which of them a random point  *)
(* or a sticky key falls in is left open; that it is one of these is not.  *)
Eligible(split, ready) == TakingTraffic(split) \cap ready
=============================================================================
