------------------------------- MODULE MCAgent -------------------------------
(* Instances of Agent. *)
EXTENDS Agent, TLC

CONSTANTS w1, w2, c1, c2, c3, c4

TwoWorkers == {w1, w2}
FourCredentials == {c1, c2, c3, c4}

(* Workers and rows are interchangeable, which the safety run exploits. *)
Symmetry == Permutations(Workers) \union Permutations(Credentials)
=============================================================================
