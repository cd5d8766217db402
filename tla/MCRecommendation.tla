-------------------------- MODULE MCRecommendation --------------------------
(* Instances of Recommendation, and of the analysis it extends. *)
EXTENDS Recommendation, TLC

CONSTANTS w1, w2, v1, v2, r1, r2

TwoWorkers == {w1, w2}
TwoClerks == {v1, v2}
TwoResults == {r1, r2}
TwoChecks == {1, 2}

(* Threads are interchangeable, and so are the results. *)
Symmetry ==
  Permutations(Workers) \union Permutations(Clerks) \union Permutations(Results)
=============================================================================
