----------------------------- MODULE MCPlatform -----------------------------
(***************************************************************************)
(* The parts of the platform that share no state with one another:         *)
(* incidents, schema migrations, the monitoring service and the enrolment  *)
(* of agents.  A behaviour is one of one part, which is chosen in the      *)
(* initial state; the others keep theirs.  The users hold what             *)
(* permissions.py gives to two roles: an admin everything, a technician    *)
(* creation and assignment.                                                *)
(***************************************************************************)
EXTENDS Incident, Migrations, Monitoring, Enrollment

CONSTANTS
  w1, w2, admin1, admin2, technician, text1, l1,
  r1, r2, e1, e2, t1, t2, d1, d2, n1, n2

TwoWorkers == {w1, w2}
Admins == {admin1, admin2}
Team == Admins \union {technician}
RoleGrants ==
  [u \in Users |->
     IF u = technician THEN {"incidents:create", "incidents:assign"}
                       ELSE {Permission[op] : op \in DOMAIN Permission}]
OneText == {text1}
OneLevel == {l1}
TwoReceivers == {r1, r2}
TwoEnrollers == {e1, e2}
TwoTokens == {t1, t2}
TwoDevices == {d1, d2}
TwoNames == {n1, n2}

(* Threads of one kind and admins are interchangeable. *)
Symmetry == Permutations(Workers) \union Permutations(Admins) \union Permutations(Receivers)

VARIABLE part

allVars == <<part, vars, migrationVars, monitoringVars, enrollmentVars>>

PlatformInit ==
  /\ part \in {"incidents", "migrations", "monitoring", "enrolment"}
  /\ Init /\ MigrationsInit /\ MonitoringInit /\ EnrollmentInit

PlatformNext ==
  \/ /\ part = "incidents" /\ Next
     /\ UNCHANGED <<part, migrationVars, monitoringVars, enrollmentVars>>
  \/ /\ part = "migrations" /\ MigrationsNext
     /\ UNCHANGED <<part, vars, monitoringVars, enrollmentVars>>
  \/ /\ part = "monitoring" /\ MonitoringNext
     /\ UNCHANGED <<part, vars, migrationVars, enrollmentVars>>
  \/ /\ part = "enrolment" /\ EnrollmentNext
     /\ UNCHANGED <<part, vars, migrationVars, monitoringVars>>

PlatformSpec == PlatformInit /\ [][PlatformNext]_allVars
=============================================================================
