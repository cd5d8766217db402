----------------------------- MODULE Migrations -----------------------------
(***************************************************************************)
(* The chain of schema migrations on PostgreSQL (database/migrations).     *)
(*                                                                         *)
(* A run of the migration tool upgrades or downgrades the database to a    *)
(* target revision, revision by revision, in one transaction (env.py); a   *)
(* statement that fails rolls the run back.  One revision needs an         *)
(* autocommit block, which commits what the run did before it: a run may   *)
(* die after it and leave the database between two revisions.              *)
(*                                                                         *)
(* A schema is a set of objects: tables, enumeration types, and the parts  *)
(* of them (keys, foreign keys, checks, groups of columns or indexes, and  *)
(* labels).  Dropping an object takes its parts along and is refused while *)
(* another object refers to it or to a part.                               *)
(***************************************************************************)
EXTENDS Integers, Sequences, SequencesExt

VARIABLES
  db,        (* the committed version, schema and rows                     *)
  tx,        (* the same, as the open transaction sees it                  *)
  job,       (* the migration that runs: its way, target and position      *)
  failure    (* how the last migration failed                              *)

migrationVars == <<db, tx, job, failure>>

-----------------------------------------------------------------------------
(* Statements                                                              *)

Object(name, of, refs) == [name |-> name, of |-> of, refs |-> refs]
NewType(t) == Object(t, t, {})

CreateObjects(objects) == [do |-> "create", objects |-> objects]
CreateTypes(types) == CreateObjects({NewType(t) : t \in types})
MakeTypes(types) == [CreateTypes(types) EXCEPT !.do = "make"]   \* checkfirst
CreateTable(t, types, refs, parts) ==
  CreateObjects({NewType(e) : e \in types} \union {Object(t, t, types \union refs)}
           \union {Object(p, t, {}) : p \in parts})
Add(t, parts, refs) == CreateObjects({Object(p, t, refs) : p \in parts})
Drop(names) == [do |-> "drop", names |-> names]
DropIfExists(names) == [do |-> "discard", names |-> names]
Rename(old, new) == [do |-> "rename", old |-> old, new |-> new]
Retype(t, old, new) == [do |-> "retype", table |-> t, old |-> old, new |-> new]
AddCancelled == [do |-> "label"]
RefuseCancelled == [do |-> "refuse"]

-----------------------------------------------------------------------------
(* The revisions, in the order of their down_revision                      *)

UpFoundationScope == <<
  CreateTable("organizations", {"organization_status"}, {}, {"ix_organizations"}),
  CreateTable("devices", {"device_status"}, {"organizations"}, {"ix_devices"}),
  CreateTable("roles", {}, {"organizations"}, {"ix_roles"}),
  CreateTable("users", {"user_status"}, {"organizations"}, {"ix_users"}),
  CreateTable("audit_events", {}, {"users", "organizations"}, {"ix_audit_events"}),
  CreateTable("incidents", {"incident_severity", "incident_priority", "incident_status"},
              {"users", "devices", "organizations"}, {"ix_incidents"}),
  CreateTable("user_roles", {}, {"users", "roles"}, {}) >>

UpFoundationWork == <<
  CreateTable("diagnostic_runs", {"diagnostic_run_status"},
              {"devices", "incidents", "organizations"}, {"ix_diagnostic_runs"}),
  CreateTable("escalations", {"escalation_status"}, {"incidents", "organizations"},
              {"ix_escalations"}),
  CreateTable("diagnostic_results", {"diagnostic_result_status", "diagnostic_result_severity"},
              {"diagnostic_runs"}, {"ix_diagnostic_results"}),
  CreateTable("recommendations", {"recommendation_priority", "recommendation_status"},
              {"devices", "diagnostic_results", "incidents", "organizations"},
              {"ix_recommendations"}),
  CreateTable("repair_actions", {"repair_action_status"},
              {"devices", "incidents", "organizations", "recommendations"},
              {"ix_repair_actions"}) >>

DropIndexedTable(t, index) == <<Drop({index}), Drop({t})>>
DownFoundation ==
  DropIndexedTable("repair_actions", "ix_repair_actions") \o
  DropIndexedTable("recommendations", "ix_recommendations") \o
  DropIndexedTable("diagnostic_results", "ix_diagnostic_results") \o
  DropIndexedTable("escalations", "ix_escalations") \o
  DropIndexedTable("diagnostic_runs", "ix_diagnostic_runs") \o
  <<Drop({"user_roles"})>> \o
  DropIndexedTable("incidents", "ix_incidents") \o
  DropIndexedTable("audit_events", "ix_audit_events") \o
  DropIndexedTable("users", "ix_users") \o
  DropIndexedTable("roles", "ix_roles") \o
  DropIndexedTable("devices", "ix_devices") \o
  DropIndexedTable("organizations", "ix_organizations") \o
  <<DropIfExists({"organization_status", "user_status", "device_status", "incident_severity",
                  "incident_priority", "incident_status", "diagnostic_run_status",
                  "diagnostic_result_status", "diagnostic_result_severity",
                  "recommendation_priority", "recommendation_status",
                  "repair_action_status", "escalation_status"})>>

UpPassword == <<
  Add("users", {"users.password_hash"}, {}),
  CreateTable("bootstrap_state", {}, {"organizations", "users"}, {}) >>
DownPassword == <<Drop({"bootstrap_state"}), Drop({"users.password_hash"})>>

UpDiscovery == <<
  CreateTable("discovery_jobs", {"discovery_job_status"}, {"organizations", "users"},
              {"ix_discovery_jobs"}),
  CreateTable("discovery_results", {"discovery_result_status", "reconciliation_status"},
              {"discovery_jobs", "organizations", "devices"}, {"ix_discovery_results"}) >>
DownDiscovery == <<
  Drop({"discovery_results"}), Drop({"discovery_jobs"}),
  DropIfExists({"reconciliation_status", "discovery_result_status", "discovery_job_status"}) >>

UpTimestamps == <<Add("discovery_results", {"discovery_results.stamps"}, {})>>
DownTimestamps == <<Drop({"discovery_results.stamps"})>>

UpDiagnostics == <<
  AddCancelled,
  MakeTypes({"diagnostic_check_type"}),
  Add("diagnostic_runs", {"diagnostic_runs.scope"}, {}),
  Add("diagnostic_runs", {"fk_diagnostic_runs_created_by_user_id"},
      {"users", "diagnostic_runs.scope"}),
  Add("diagnostic_results", {"diagnostic_results.check_type"}, {"diagnostic_check_type"}),
  Add("diagnostic_results", {"diagnostic_results.scope"}, {}),
  Add("diagnostic_results", {"fk_diagnostic_results_organization_id"},
      {"organizations", "diagnostic_results.scope"}),
  Add("diagnostic_results", {"fk_diagnostic_results_device_id"},
      {"devices", "diagnostic_results.scope"}),
  Add("diagnostic_results", {"ix_diagnostic_results_scope"}, {"diagnostic_results.scope"}),
  Add("diagnostic_runs", {"ix_diagnostic_runs_scope"}, {"diagnostic_runs.scope"}),
  Add("diagnostic_runs", {"ck_diagnostic_runs_terminal_timestamps"},
      {"diagnostic_runs.scope", "CANCELLED"}) >>

DownDiagnostics == <<
  Drop({"ck_diagnostic_runs_terminal_timestamps"}),
  Drop({"fk_diagnostic_runs_created_by_user_id"}),
  Drop({"ix_diagnostic_runs_scope", "ix_diagnostic_results_scope"}),
  Drop({"fk_diagnostic_results_device_id", "fk_diagnostic_results_organization_id"}),
  Drop({"diagnostic_results.scope", "diagnostic_results.check_type", "diagnostic_runs.scope"}),
  RefuseCancelled,
  CreateTypes({"diagnostic_run_status_original"}),
  Retype("diagnostic_runs", "diagnostic_run_status", "diagnostic_run_status_original"),
  Drop({"diagnostic_run_status"}),
  Rename("diagnostic_run_status_original", "diagnostic_run_status"),
  DropIfExists({"diagnostic_check_type"}) >>

RootCauseTypes == {"root_cause_analysis_status", "root_cause_finding_severity",
                   "root_cause_finding_status", "root_cause_finding_confidence"}
UpRootCause == <<
  MakeTypes(RootCauseTypes),
  Add("diagnostic_runs", {"uq_diagnostic_runs_id_device_organization"}, {}),
  Add("diagnostic_results", {"uq_diagnostic_results_id_device_organization"},
      {"diagnostic_results.scope"}),
  Add("devices", {"uq_devices_id_organization"}, {}),
  CreateTable("root_cause_analyses", {},
              {"root_cause_analysis_status", "organizations", "users",
               "uq_devices_id_organization", "uq_diagnostic_runs_id_device_organization"},
              {"uq_root_cause_analyses_id_device_organization"}),
  CreateTable("root_cause_findings", {},
              {"root_cause_finding_severity", "root_cause_finding_status",
               "root_cause_finding_confidence", "organizations", "uq_devices_id_organization",
               "uq_root_cause_analyses_id_device_organization",
               "uq_diagnostic_results_id_device_organization"},
              {"uq_root_cause_findings_id_device_organization"}),
  Add("root_cause_analyses", {"ix_root_cause_analyses"}, {}),
  Add("root_cause_findings", {"ix_root_cause_findings"}, {}) >>
DownRootCause == <<
  Drop({"ix_root_cause_findings"}), Drop({"root_cause_findings"}),
  Drop({"ix_root_cause_analyses"}), Drop({"root_cause_analyses"}),
  Drop({"uq_diagnostic_runs_id_device_organization"}),
  Drop({"uq_diagnostic_results_id_device_organization"}),
  Drop({"uq_devices_id_organization"}),
  DropIfExists(RootCauseTypes) >>

RecommendationTypes == {"recommendation_severity", "recommendation_confidence",
                        "recommendation_remediation_type"}
RecommendationKeys == {"fk_recommendations_finding_scope", "fk_recommendations_analysis_scope",
                       "fk_recommendations_result_scope", "fk_recommendations_device_scope",
                       "fk_recommendations_created_by_user",
                       "fk_recommendations_decided_by_user"}
UpRecommendation == <<
  MakeTypes(RecommendationTypes),
  Rename("recommendation_status", "recommendation_status_legacy"),
  CreateTypes({"recommendation_status"}),
  Retype("recommendations", "recommendation_status_legacy", "recommendation_status"),
  Drop({"recommendation_status_legacy"}),
  Add("recommendations", {"recommendations.columns"}, RecommendationTypes),
  Add("recommendations", {"ix_recommendations_scope"}, {"recommendations.columns"}),
  Add("recommendations", RecommendationKeys,
      {"recommendations.columns", "uq_root_cause_findings_id_device_organization",
       "uq_root_cause_analyses_id_device_organization", "users",
       "uq_diagnostic_results_id_device_organization", "uq_devices_id_organization"}),
  Add("recommendations", {"uq_recommendations_deterministic_identity"},
      {"recommendations.columns"}) >>
DownRecommendation == <<
  Drop({"uq_recommendations_deterministic_identity"}),
  Drop(RecommendationKeys),
  Drop({"ix_recommendations_scope"}),
  Drop({"recommendations.columns"}),
  Rename("recommendation_status", "recommendation_status_phase1i"),
  CreateTypes({"recommendation_status"}),
  Retype("recommendations", "recommendation_status_phase1i", "recommendation_status"),
  Drop({"recommendation_status_phase1i"}),
  Drop(RecommendationTypes) >>

CreateParentUniqueness == <<
  Add("recommendations", {"uq_recommendations_id_org", "uq_recommendations_id_device_org"}, {}),
  Add("root_cause_analyses", {"uq_root_cause_analyses_id_organization"}, {}),
  Add("root_cause_findings", {"uq_root_cause_findings_id_organization"}, {}) >>
DropParentUniqueness == <<
  Drop({"uq_root_cause_findings_id_organization"}),
  Drop({"uq_root_cause_analyses_id_organization"}),
  Drop({"uq_recommendations_id_org", "uq_recommendations_id_device_org"}) >>
UpRemediation == CreateParentUniqueness \o <<
  CreateTable("remediation_plans", {"remediation_plan_status", "remediation_verification_status"},
              {"organizations", "users", "uq_devices_id_organization",
               "uq_recommendations_id_device_org",
               "uq_root_cause_findings_id_device_organization"},
              {"uq_remediation_plans_id_device_org", "ix_remediation_plans"}),
  CreateTable("remediation_actions", {"remediation_action_status"},
              {"uq_remediation_plans_id_device_org", "uq_devices_id_organization"},
              {"ix_remediation_actions"}),
  CreateTable("remediation_verifications", {},
              {"remediation_verification_status", "uq_remediation_plans_id_device_org",
               "uq_devices_id_organization"},
              {"ix_remediation_verifications"}) >>

(* Mutation of DownRemediation: the parents' keys stay. *)
DownRemediationKeepingKeys == <<
  Drop({"remediation_verifications"}), Drop({"remediation_actions"}),
  Drop({"remediation_plans"}),
  DropIfExists({"remediation_action_status", "remediation_plan_status",
                "remediation_verification_status"}) >>

DownRemediation == <<
  Drop({"remediation_verifications"}), Drop({"remediation_actions"}),
  Drop({"remediation_plans"}),
  DropIfExists({"remediation_action_status", "remediation_plan_status",
                "remediation_verification_status"}) >> \o DropParentUniqueness

UpIncident == <<
  Add("users", {"uq_users_id_organization"}, {}),
  Add("incidents", {"uq_incidents_id_organization"}, {}),
  Add("incidents", {"fk_incidents_device_org"}, {"uq_devices_id_organization"}),
  Add("incidents", {"fk_incidents_assigned_user_org"}, {"uq_users_id_organization"}),
  Add("escalations", {"fk_escalations_incident_org"}, {"uq_incidents_id_organization"}),
  Add("escalations", {"uq_escalations_incident_level"}, {}) >>
DownIncident == <<
  Drop({"uq_escalations_incident_level"}), Drop({"fk_escalations_incident_org"}),
  Drop({"fk_incidents_assigned_user_org"}), Drop({"fk_incidents_device_org"}),
  Drop({"uq_incidents_id_organization"}), Drop({"uq_users_id_organization"}) >>

LifecycleKeys == {"fk_incidents_created_by_user_org", "fk_incidents_resolved_by_user_org",
                  "fk_incidents_closed_by_user_org"}
UpLifecycleFields == <<
  Add("incidents", {"incidents.lifecycle"}, {}),
  Add("incidents", LifecycleKeys, {"incidents.lifecycle", "uq_users_id_organization"}) >>
DownLifecycleFields == <<Drop(LifecycleKeys), Drop({"incidents.lifecycle"})>>

InventoryKeys == {"fk_devices_site_org", "fk_devices_network_org", "fk_devices_subnet_org",
                  "fk_devices_vlan_org", "fk_devices_wlan_org", "fk_devices_assigned_user_org"}
UpInventory == <<
  CreateTable("sites", {}, {"organizations"}, {"uq_sites_id_organization", "ix_sites"}),
  CreateTable("networks", {}, {"organizations", "uq_sites_id_organization"},
              {"uq_networks_id_organization", "ix_networks"}),
  CreateTable("subnets", {}, {"organizations", "uq_networks_id_organization"},
              {"uq_subnets_id_organization", "ix_subnets"}),
  CreateTable("vlans", {}, {"organizations", "uq_networks_id_organization"},
              {"uq_vlans_id_organization", "ix_vlans"}),
  CreateTable("wlans", {}, {"organizations", "uq_networks_id_organization"},
              {"uq_wlans_id_organization", "ix_wlans"}),
  MakeTypes({"asset_type", "device_criticality"}),
  Add("devices", {"devices.inventory"}, {"asset_type", "device_criticality"}),
  Add("devices", InventoryKeys,
      {"devices.inventory", "uq_sites_id_organization", "uq_networks_id_organization",
       "uq_subnets_id_organization", "uq_vlans_id_organization", "uq_wlans_id_organization",
       "uq_users_id_organization"}) >>
DownInventory ==
  <<Drop(InventoryKeys), Drop({"devices.inventory"}),
    DropIfExists({"asset_type", "device_criticality"})>> \o
  DropIndexedTable("wlans", "ix_wlans") \o DropIndexedTable("vlans", "ix_vlans") \o
  DropIndexedTable("subnets", "ix_subnets") \o DropIndexedTable("networks", "ix_networks") \o
  DropIndexedTable("sites", "ix_sites")

UpMonitoring == <<
  MakeTypes({"health_status"}),
  CreateTable("monitoring_targets", {},
              {"health_status", "organizations", "uq_devices_id_organization"},
              {"uq_monitoring_targets_id_organization"}),
  Add("monitoring_targets", {"ix_monitoring_targets"}, {}),
  CreateTable("health_telemetry", {},
              {"health_status", "organizations", "uq_monitoring_targets_id_organization",
               "uq_devices_id_organization"}, {}),
  Add("health_telemetry", {"ix_health_telemetry"}, {}) >>
DownMonitoring ==
  DropIndexedTable("health_telemetry", "ix_health_telemetry") \o
  DropIndexedTable("monitoring_targets", "ix_monitoring_targets")

UpAgent == <<
  MakeTypes({"agent_status"}),
  CreateTable("agents", {}, {"agent_status", "organizations", "uq_devices_id_organization"},
              {"uq_agents_id_organization", "ix_agents"}),
  CreateTable("agent_enrollment_tokens", {},
              {"organizations", "users", "uq_devices_id_organization"},
              {"ix_agent_enrollment_tokens"}),
  CreateTable("agent_credentials", {}, {"organizations", "uq_agents_id_organization"},
              {"ix_agent_credentials"}) >>
DownAgent == <<
  Drop({"ix_agent_credentials"}), Drop({"ix_agent_enrollment_tokens"}), Drop({"ix_agents"}),
  Drop({"agent_credentials"}), Drop({"agent_enrollment_tokens"}), Drop({"agents"}),
  DropIfExists({"agent_status"}) >>

Upgrade == << UpFoundationScope \o UpFoundationWork, UpPassword, UpDiscovery, UpTimestamps,
              UpDiagnostics, UpRootCause, UpRecommendation, UpRemediation, UpIncident,
              UpLifecycleFields, UpInventory, UpMonitoring, UpAgent >>
Downgrade == << DownFoundation, DownPassword, DownDiscovery, DownTimestamps,
                DownDiagnostics, DownRootCause, DownRecommendation, DownRemediation,
                DownIncident, DownLifecycleFields, DownInventory, DownMonitoring, DownAgent >>

Latest == Len(Upgrade)
Versions == 0 .. Latest
BeforeDiagnostics == 4       \* 8d2e4f6a1b90, where the autocommit block commits
RecommendationVersion == 7   \* c8d3e5f7a901, which replaces the statuses
MonitoringVersion == 12      \* b8c9d0e1f2a3, whose type stays behind

-----------------------------------------------------------------------------
(* What a statement does to the schema and to the rows                     *)

Names(schema) == {o.name : o \in schema}

(* The rows of a table go with it; an enumeration's rows are converted. *)
ToCurrent(status) == CASE status = "PROPOSED"  -> "pending"
                       [] status = "COMPLETED" -> "implemented"
                       [] status = "ACCEPTED"  -> "accepted"
                       [] status = "REJECTED"  -> "rejected"
                       [] OTHER                -> status

(* Mutation of ToLegacy: a reviewed recommendation counts as accepted. *)
ToLegacyAccepting(status) == CASE status = "pending" -> "PROPOSED"
                               [] status = "implemented" -> "COMPLETED"
                               [] status \in {"reviewed", "accepted"} -> "ACCEPTED"
                               [] status = "rejected" -> "REJECTED"
                               [] OTHER -> status

ToLegacy(status) == CASE status \in {"pending", "reviewed"} -> "PROPOSED"
                      [] status = "implemented" -> "COMPLETED"
                      [] status = "accepted"    -> "ACCEPTED"
                      [] status = "rejected"    -> "REJECTED"
                      [] OTHER                  -> status

Dropped(s, schema) == {o \in schema : o.name \in s.names \/ o.of \in s.names}

(* The statement does not raise. A label can be used once it is committed. *)
Applies(s, state, committed) ==
  LET present == Names(state.schema)
      known(objects) == present \union Names(objects)
  IN CASE s.do \in {"create", "make"} ->
            /\ s.do = "create" => Names(s.objects) \cap present = {}
            /\ \A o \in s.objects : o.refs \union {o.of} \subseteq known(s.objects)
            /\ \A o \in s.objects :
                 "CANCELLED" \in o.refs => "CANCELLED" \in Names(committed.schema)
       [] s.do \in {"drop", "discard"} ->
            /\ s.do = "drop" => s.names \subseteq present
            /\ LET dropped == Dropped(s, state.schema)
                   gone == Names(dropped)
               IN \A o \in state.schema \ dropped : o.refs \cap gone = {}
       [] s.do = "rename" -> s.old \in present /\ s.new \notin present
       [] s.do = "retype" -> /\ {s.table, s.old, s.new} \subseteq present
                             /\ s.table = "diagnostic_runs" => state.run # "cancelled"
       [] s.do = "label" -> "diagnostic_run_status" \in present
       [] s.do = "refuse" -> TRUE

Replace(old, new, names) == IF old \in names THEN (names \ {old}) \union {new} ELSE names
Renamed(o, old, new) == [name |-> IF o.name = old THEN new ELSE o.name,
                         of |-> IF o.of = old THEN new ELSE o.of,
                         refs |-> Replace(old, new, o.refs)]

(* The schema after it. *)
SchemaAfter(s, schema) ==
  CASE s.do \in {"create", "make"} -> schema \union s.objects
    [] s.do \in {"drop", "discard"} -> schema \ Dropped(s, schema)
    [] s.do = "rename" -> {Renamed(o, s.old, s.new) : o \in schema}
    [] s.do = "retype" ->
         {IF o.name = s.table THEN [o EXCEPT !.refs = Replace(s.old, s.new, @)] ELSE o :
            o \in schema}
    [] s.do = "label" -> schema \union {Object("CANCELLED", "diagnostic_run_status", {})}
    [] s.do = "refuse" -> schema

After(s, state) ==
  LET gone(t) == s.do = "drop" /\ t \in s.names
      converts == s.do = "retype" /\ s.table = "recommendations"
  IN [state EXCEPT
        !.schema = SchemaAfter(s, @),
        !.run = IF gone("diagnostic_runs") THEN "none" ELSE @,
        !.recommendation =
          IF gone("recommendations") THEN "none"
          ELSE IF ~converts THEN @
          ELSE IF s.old = "recommendation_status_legacy" THEN ToCurrent(@) ELSE ToLegacy(@)]

-----------------------------------------------------------------------------
(* The migration tool                                                      *)

NoJob == [way |-> "none", target |-> 0, at |-> 1]
Empty == [version |-> 0, schema |-> {}, recommendation |-> "none", run |-> "none"]

MigrationsInit ==
  /\ db = Empty
  /\ tx = Empty
  /\ job = NoJob
  /\ failure = "none"

Start(target) ==
  /\ job = NoJob
  /\ target # db.version
  /\ job' = [way |-> IF target > db.version THEN "up" ELSE "down", target |-> target, at |-> 1]
  /\ failure' = "none"
  /\ UNCHANGED <<db, tx>>

(* The script of the revision the run is at. *)
Script == IF job.way = "up" THEN Upgrade[tx.version + 1] ELSE Downgrade[tx.version]
Statement == Script[job.at]
Unfinished == job # NoJob /\ tx.version # job.target

(* The position after a statement, and the recorded version once it was    *)
(* the script's last.                                                      *)
Advance(state) ==
  IF job.at < Len(Script)
  THEN /\ job' = [job EXCEPT !.at = @ + 1]
       /\ tx' = state
  ELSE /\ job' = [job EXCEPT !.at = 1]
       /\ tx' = [state EXCEPT !.version = IF job.way = "up" THEN @ + 1 ELSE @ - 1]

Execute ==
  /\ Unfinished
  /\ Applies(Statement, tx, db)
  /\ Statement.do = "refuse" => tx.run # "cancelled"
  /\ Statement.do # "label"
  /\ Advance(After(Statement, tx))
  /\ UNCHANGED <<db, failure>>

(* Mutation of CommitLabel: the label is added within the transaction. *)
LabelInTransaction ==
  /\ Unfinished
  /\ Statement.do = "label"
  /\ Applies(Statement, tx, db)
  /\ Advance(After(Statement, tx))
  /\ UNCHANGED <<db, failure>>

(* The autocommit block commits the transaction, and the label on its own. *)
CommitLabel ==
  /\ Unfinished
  /\ Statement.do = "label"
  /\ Applies(Statement, tx, db)
  /\ db' = After(Statement, tx)
  /\ Advance(db')
  /\ UNCHANGED failure

Commit ==
  /\ job # NoJob
  /\ tx.version = job.target
  /\ db' = tx
  /\ job' = NoJob
  /\ UNCHANGED <<tx, failure>>

RollBack(reason) ==
  /\ job # NoJob
  /\ tx' = db
  /\ job' = NoJob
  /\ failure' = reason
  /\ UNCHANGED db

Refuse ==
  /\ Unfinished
  /\ Statement.do = "refuse"
  /\ tx.run = "cancelled"
  /\ RollBack("refused")

Raise ==
  /\ Unfinished
  /\ ~Applies(Statement, tx, db)
  /\ RollBack("error")

Die == RollBack("crash")

(* The application writes rows while the schema is the one it was written  *)
(* for: one recommendation and one diagnostic run stand for all.           *)
Write(recommendation, run) ==
  /\ job = NoJob
  /\ db.version = Latest
  /\ db' = [db EXCEPT !.recommendation = recommendation, !.run = run]
  /\ tx' = db'
  /\ UNCHANGED <<job, failure>>

Rows == [recommendation : {"none", "pending", "reviewed", "accepted", "rejected", "implemented"},
         run : {"none", "completed", "cancelled"}]

MigrationsNext ==
  \/ \E target \in Versions : Start(target)
  \/ Execute \/ CommitLabel \/ Commit \/ Refuse \/ Raise \/ Die
  \/ \E r \in Rows : Write(r.recommendation, r.run)

MigrationsSpec == MigrationsInit /\ [][MigrationsNext]_migrationVars

-----------------------------------------------------------------------------
(* Properties                                                              *)

(* From whatever an earlier run, refusal or crash left behind, every       *)
(* statement of an upgrade or a downgrade finds what it needs; only the    *)
(* cancelled runs, which the old schema cannot hold, stop a downgrade.     *)
MigrationsApply == failure # "error"

(* The schemas that a chain of upgrades from an empty database builds. *)
Schemas ==
  FoldLeft(LAMBDA built, script :
             Append(built, FoldLeft(LAMBDA schema, s : SchemaAfter(s, schema), Last(built), script)),
           << {} >>, Upgrade)
SchemaAt(v) == Schemas[v + 1]

(* A type that a downgrade keeps, and the label of an upgrade that died,   *)
(* which stays until its type is dropped.                                  *)
Residue(v) ==
  (IF v < MonitoringVersion THEN {NewType("health_status")} ELSE {})
    \union (IF v \in 1 .. BeforeDiagnostics
            THEN {Object("CANCELLED", "diagnostic_run_status", {})} ELSE {})

(* Whatever route of upgrades, downgrades, refusals and crashes led there, *)
(* the committed schema is the one of the recorded revision, but for the   *)
(* two remainders above, which the next upgrade tolerates.                 *)
SchemaMatchesVersion ==
  /\ SchemaAt(db.version) \subseteq db.schema
  /\ db.schema \ SchemaAt(db.version) \subseteq Residue(db.version)

(* A migration never decides upon a recommendation nor forgets a decision: *)
(* only a review is lost on the way down, and the rows speak the language  *)
(* of the revision's type.                                                 *)
MigrationsKeepDecisions ==
  [][(job # NoJob /\ db'.recommendation # "none") =>
       LET old == ToCurrent(db.recommendation)
           new == ToCurrent(db'.recommendation)
       IN /\ new = old \/ (old = "reviewed" /\ new = "pending")
          /\ (db'.version >= RecommendationVersion) = (db'.recommendation = new)]_migrationVars
=============================================================================
