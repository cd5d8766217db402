------------------------------ MODULE MCIncident ------------------------------
(***************************************************************************)
(* The instance of Incident that refutes what the documents say: two       *)
(* requests at a time, of users who hold every permission.                 *)
(***************************************************************************)
EXTENDS Incident

CONSTANTS w1, w2, admin1, admin2, text1, l1

TwoWorkers == {w1, w2}
Admins == {admin1, admin2}
AllGrants == [u \in Users |-> {Permission[op] : op \in DOMAIN Permission}]
OneText == {text1}
OneLevel == {l1}
=============================================================================
