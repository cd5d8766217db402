---------------------------- MODULE MCDiagnostics ----------------------------
(* Instances of Diagnostics. *)
EXTENDS Diagnostics, TLC

CONSTANTS w1, w2, w3, w4

ThreeWorkers == {w1, w2, w3}
FourWorkers == {w1, w2, w3, w4}

(* The workers are interchangeable, which the safety runs exploit. *)
Symmetry == Permutations(Workers)
=============================================================================
