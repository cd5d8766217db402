----------------------------- MODULE Monitoring -----------------------------
(***************************************************************************)
(* The monitoring service: one device's monitoring target and the requests *)
(* that create and configure it and deliver telemetry for it               *)
(* (services/monitoring.py, repositories/monitoring.py,                    *)
(* endpoints/monitoring.py, and the heartbeat of services/agent.py, whose  *)
(* telemetry takes the same path).                                         *)
(*                                                                         *)
(*   configure  idle -> loaded -> idle                                     *)
(*   ingest     idle -> target -> ready -> idle                            *)
(*   heartbeat  idle -> device -> ready (or unmonitored) -> idle           *)
(*                                                                         *)
(* Telemetry decides on the copies of the target and of the device that    *)
(* its request loaded, and writes the columns it changes by id.  The       *)
(* target's row is kept in two parts, the columns that users configure and *)
(* those that telemetry sets.  Times are microseconds, the smallest step   *)
(* the code takes.                                                         *)
(***************************************************************************)
EXTENDS Integers

CONSTANTS
  Receivers, (* the threads that serve requests                            *)
  MaxTime,   (* the bound on the clock                                     *)
  MaxStatus  (* the bound on the dates of the changes of status            *)

ASSUME MonitoringAssumption == MaxTime \in Nat \ {0} /\ MaxStatus \in Nat

VARIABLES
  clock,         (* the server's time                                      *)
  target,        (* the target's configuration, or NoTarget                *)
  targetStatus,  (* the target's health, last_seen_at and last_status_at   *)
  device,        (* the device's last_seen_at                              *)
  telemetry,     (* the observation times of the stored rows               *)
  serving        (* what each receiver is doing                            *)

monitoringVars == <<clock, target, targetStatus, device, telemetry, serving>>

Never == 0
Times == 1 .. MaxTime
HealthStatus == {"UNKNOWN", "HEALTHY"}    \* the ones that are told apart
Seconds == 1 .. 2                         \* the thresholds told apart

Configurations == [enabled : BOOLEAN, interval : Seconds, offline : Seconds]
NoTarget == [enabled |-> FALSE, interval |-> 0, offline |-> 0]
NoStatus == [health |-> "UNKNOWN", seen |-> Never, at |-> Never]
NoRequest == [pc |-> "idle", observed |-> 1, received |-> 1, health |-> "UNKNOWN",
              target |-> NoTarget, status |-> NoStatus, device |-> Never]

MonitoringInit ==
  /\ clock = 1
  /\ target = NoTarget
  /\ targetStatus = NoStatus
  /\ device = Never
  /\ telemetry = {}
  /\ serving = [w \in Receivers |-> NoRequest]

-----------------------------------------------------------------------------
(* Helpers                                                                 *)

Doing(w, pc) == serving[w].pc = pc
Set(w, r) == serving' = [serving EXCEPT ![w] = r]

(* The value that an ORM flush leaves in a column: one that keeps its      *)
(* loaded value is not written.                                            *)
Column(stored, loaded, new) == IF new = loaded THEN stored ELSE new

Newer(observed, seen) == observed > seen

(* Mutation of StatusAt: a change is dated by its reception alone. *)
StatusAtReception(loaded, received) == received

(* The change of status is dated by the reception, or just after the last  *)
(* change when that is later.                                              *)
StatusAt(loaded, received) ==
  IF loaded.at # Never /\ received <= loaded.at THEN loaded.at + 1 ELSE received

PassTime ==
  /\ clock < MaxTime
  /\ clock' = clock + 1
  /\ UNCHANGED <<target, targetStatus, device, telemetry, serving>>

-----------------------------------------------------------------------------
(* Creation and configuration                                              *)

(* The device's target is unique: a second creation is refused. *)
CreateTarget(w, values) ==
  /\ serving[w] = NoRequest
  /\ target = NoTarget
  /\ values.offline >= values.interval
  /\ target' = values
  /\ UNCHANGED <<clock, targetStatus, device, telemetry, serving>>

LoadTarget(w) ==
  /\ serving[w] = NoRequest
  /\ target # NoTarget
  /\ Set(w, [NoRequest EXCEPT !.pc = "loaded", !.target = target])
  /\ UNCHANGED <<clock, target, targetStatus, device, telemetry>>

(* The row after the flush of a change of the loaded configuration. *)
Configured(loaded, change) ==
  [c \in DOMAIN target |-> Column(target[c], loaded[c], change[c])]

(* The service compares the thresholds on the loaded copy; the table's     *)
(* check constraint compares those of the row that results.                *)
CommitConfiguration(w, change) ==
  /\ Doing(w, "loaded")
  /\ change.offline >= change.interval
  /\ LET row == Configured(serving[w].target, change)
     IN target' = IF row.offline >= row.interval THEN row ELSE target
  /\ Set(w, NoRequest)
  /\ UNCHANGED <<clock, targetStatus, device, telemetry>>

-----------------------------------------------------------------------------
(* Telemetry                                                               *)

(* A user's telemetry: the target is loaded first, and must be enabled... *)
LoadForIngest(w, observed, health) ==
  /\ serving[w] = NoRequest
  /\ target.enabled
  /\ Set(w, [NoRequest EXCEPT !.pc = "target", !.observed = observed, !.health = health,
                              !.status = targetStatus])
  /\ UNCHANGED <<clock, target, targetStatus, device, telemetry>>

(* ... its times are checked against the clock, and the device is loaded. *)
LoadDevice(w, received) ==
  /\ Doing(w, "target")
  /\ serving[w].observed <= received /\ received <= clock
  /\ Set(w, [serving[w] EXCEPT !.pc = "ready", !.received = received, !.device = device])
  /\ UNCHANGED <<clock, target, targetStatus, device, telemetry>>

(* An agent's heartbeat, of a time that has come: its device first... *)
LoadForHeartbeat(w, observed, health) ==
  /\ serving[w] = NoRequest
  /\ observed <= clock
  /\ Set(w, [NoRequest EXCEPT !.pc = "device", !.observed = observed, !.health = health,
                              !.device = device])
  /\ UNCHANGED <<clock, target, targetStatus, device, telemetry>>

(* ... then the target, and its telemetry is received now. *)
LoadTargetForHeartbeat(w) ==
  /\ Doing(w, "device")
  /\ Set(w, IF target.enabled
            THEN [serving[w] EXCEPT !.pc = "ready", !.received = clock, !.status = targetStatus]
            ELSE [serving[w] EXCEPT !.pc = "unmonitored"])
  /\ UNCHANGED <<clock, target, targetStatus, device, telemetry>>

(* The device's timestamp, after a commit that decided on a loaded one. *)
DeviceSeen(r) == IF Newer(r.observed, r.device) THEN r.observed ELSE device

(* The target's columns likewise. *)
StatusSeen(r) ==
  LET changed == r.health # r.status.health IN
  [health |-> Column(targetStatus.health, r.status.health, r.health),
   seen |-> IF Newer(r.observed, r.status.seen) THEN r.observed ELSE targetStatus.seen,
   at |-> IF changed THEN StatusAt(r.status, r.received) ELSE targetStatus.at]

(* Mutation of CommitTelemetry: an old observation is not stored, though   *)
(* the status may change.                                                  *)
CommitTelemetryEarly(w) ==
  /\ Doing(w, "ready")
  /\ targetStatus' = StatusSeen(serving[w])
  /\ targetStatus'.at <= MaxStatus
  /\ telemetry' = IF Newer(serving[w].observed, serving[w].device)
                  THEN telemetry \union {serving[w].observed} ELSE telemetry
  /\ device' = DeviceSeen(serving[w])
  /\ Set(w, NoRequest)
  /\ UNCHANGED <<clock, target>>

(* One commit stores the telemetry, the target and the device. *)
CommitTelemetry(w) ==
  /\ Doing(w, "ready")
  /\ targetStatus' = StatusSeen(serving[w])
  /\ targetStatus'.at <= MaxStatus
  /\ telemetry' = telemetry \union {serving[w].observed}
  /\ device' = DeviceSeen(serving[w])
  /\ Set(w, NoRequest)
  /\ UNCHANGED <<clock, target>>

(* A heartbeat whose device has no enabled target. *)
CommitUnmonitored(w) ==
  /\ Doing(w, "unmonitored")
  /\ device' = DeviceSeen(serving[w])
  /\ Set(w, NoRequest)
  /\ UNCHANGED <<clock, target, targetStatus, telemetry>>

(* A request fails or dies before its commit. *)
Abandon(w) ==
  /\ serving[w] # NoRequest
  /\ Set(w, NoRequest)
  /\ UNCHANGED <<clock, target, targetStatus, device, telemetry>>

-----------------------------------------------------------------------------

ServeMonitoring(w) ==
  \/ \E values \in Configurations : CreateTarget(w, values) \/ CommitConfiguration(w, values)
  \/ LoadTarget(w)
  \/ \E t \in Times, health \in HealthStatus :
       LoadForIngest(w, t, health) \/ LoadForHeartbeat(w, t, health)
  \/ \E received \in Times : LoadDevice(w, received)
  \/ LoadTargetForHeartbeat(w)
  \/ CommitTelemetry(w)
  \/ CommitUnmonitored(w)
  \/ Abandon(w)

MonitoringNext == PassTime \/ \E w \in Receivers : ServeMonitoring(w)

MonitoringSpec == MonitoringInit /\ [][MonitoringNext]_monitoringVars

-----------------------------------------------------------------------------
(* Properties                                                              *)

(* What the target or its device says it saw was stored as telemetry, for  *)
(* a target at any rate, and its device was seen too: telemetry commits    *)
(* wholly or not at all.                                                   *)
SeenIsStored ==
  targetStatus.seen # Never => targetStatus.seen \in telemetry /\ device # Never

(* Telemetry served one after the other never takes a timestamp back, late *)
(* or repeated as it may be, and every change of status is dated later     *)
(* than the one before.  Only a request whose copies were overtaken can.   *)
TimestampsNeedOverlap ==
  [][LET overtaken(w) == \/ serving[w].device # device
                         \/ Doing(w, "ready") /\ serving[w].status # targetStatus
         back == \/ targetStatus'.seen < targetStatus.seen
                 \/ device' < device
                 \/ targetStatus'.at < targetStatus.at
                 \/ targetStatus'.health # targetStatus.health /\ targetStatus'.at = targetStatus.at
     IN back => \E w \in Receivers :
            serving[w] # NoRequest /\ serving'[w] = NoRequest /\ overtaken(w)]_monitoringVars
=============================================================================
