---------------------------- MODULE MCRemediation ----------------------------
(***************************************************************************)
(* Instances of Remediation.  The users hold the remediation permissions   *)
(* that permissions.py gives to two roles: an admin all six, a technician  *)
(* create and verify.                                                      *)
(***************************************************************************)
EXTENDS Remediation, TLC

CONSTANTS w1, w2, admin, technician

TwoWorkers == {w1, w2}
Team == {admin, technician}
RoleGrants ==
  [u \in Team |->
     {"remediation:create", "remediation:verify"} \union
     IF u = admin THEN {"remediation:approve", "remediation:manage", "remediation:execute"}
                  ELSE {}]

(* The workers are interchangeable, which the safety runs exploit. *)
Symmetry == Permutations(Workers)
=============================================================================
