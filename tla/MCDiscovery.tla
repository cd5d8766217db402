----------------------------- MODULE MCDiscovery -----------------------------
(* Instances of Discovery. *)
EXTENDS Discovery, TLC

CONSTANTS w1, w2, t1, t2, j1, j2, j3

TwoWorkers == {w1, w2}
OneTarget == {t1}
TwoTargets == {t1, t2}
TwoJobs == {j1, j2}
ThreeJobs == {j1, j2, j3}

(* Workers, targets and rows are interchangeable, which the safety runs    *)
(* exploit.                                                                *)
Symmetry == Permutations(Workers) \union Permutations(Targets) \union Permutations(Jobs)
=============================================================================
