# ITDS: specifications, model checking and proofs

ITDS is an IT-diagnostics platform: a FastAPI service over PostgreSQL
(`src/apps/api`), an endpoint agent (`src/apps/agent`) and a web dashboard
(`src/apps/web`). Its core is a set of services that move database rows through
lifecycles on behalf of concurrent HTTP requests:

    device -> diagnostic run -> root-cause analysis
      -> recommendation -> remediation plan;   discovery jobs, incidents and escalations
      beside it

This directory holds TLA+ specifications of those services, the TLC
configurations that check them, and TLAPS proofs of their main properties.

## 1. How the program runs, and what that means for a model

* Endpoints are synchronous functions, so Starlette serves each request in a
  thread of its pool. Each request has its own SQLAlchemy session (`db.py`), and
  the database runs at its default, READ COMMITTED. Two requests therefore
  interleave at every database round trip.
* A request loads a row as an object, decides on that object's attributes, and
  commits. Two kinds of write exist:
  - a *conditional* UPDATE whose WHERE clause names the expected status
    (`repositories/diagnostics.py`, `discovery.py`, `root_cause.py`,
    `recommendation.py`). It is atomic with its test.
  - an ORM flush, `UPDATE ... WHERE id = ?`, that no version column guards
    (`services/remediation.py`, `incident.py`, `agent.py`, `monitoring.py`).
    The test was made on a copy that may be stale. The flush also leaves out
    each column whose assigned value equals the loaded one, so the stored value
    survives there (operator `Flush`).
* Audit events are added to the session of the operation and commit with it.
* Nothing is retried by the server and nothing resumes work after a crash; a
  transaction that did not commit is lost. Only the agent's client retries.
* An INSERT under a unique constraint waits for a transaction that has inserted
  the same key, and a conditional UPDATE for one that has updated the row; both
  look again when it ends. Modules whose transactions keep such locks over
  several round trips model the wait as a guard (`Enrollment`, `Recommendation`).

The models follow this: a *worker* is a thread of the pool; a request is one
action per round trip, with its loaded copy kept in `req[w].seen`; a commit with
everything in its transaction is one action. Requests that are refused before
they read or write any row (validation, missing permission) are not steps.

## 2. Inventory

| Component | State | Operations | Hard behaviour | Correct when |
|---|---|---|---|---|
| Remediation (`services/remediation.py`) | plan, action and verification rows | generate, submit, approve, reject, queue, cancel, execute, verify | stale transitions, three commits per execution, an error path that overwrites, racing inserts | approval precedes use, execution precedes verification, no plan is stranded, generation is idempotent |
| Diagnostics (`services/diagnostics.py`) | run and result rows | create, run, cancel; device deletion cascades | start/start and complete/cancel races, failure after completion, deletion under a run | one runner, one outcome, truthful replies, every execution ends |
| Discovery (`services/discovery.py`) | job and result rows | create, run, cancel; each result is matched with the devices it finds | check-then-insert, lost completion, failure after completion | as above, and duplicates only by overlap |
| Incidents (`services/incident.py`) | incident and escalation rows | create, start, resolve, close, assign, update, escalate, acknowledge, resolve escalation | stale transitions of incident and escalations, columns that are not written, duplicate levels | nothing skips the start or the acknowledgement, closure is recorded, a resolution is undone only by overlap |
| Root cause (`services/root_cause.py`) | analysis and finding rows | create, run, cancel | as diagnostics, over a run that may vanish | one outcome, findings only with completion |
| Recommendations (`services/recommendation.py`) | recommendation rows | create, generate, review, accept, reject, implement | racing generations roll back whole batches | one recommendation per identity |
| Agents, server side (`services/agent.py`, `agent_auth.py`) | tokens, agents, credentials | create token, enrol, heartbeat, rotate, revoke, retire | a heartbeat resurrects a revoked agent, racing rotations | one use per token, revocation final |
| Monitoring (`services/monitoring.py`) | targets, telemetry | create, update, enable, ingest | out-of-order and repeated telemetry, lost updates | timestamps monotone, status effective |
| Agent runtime and client (`apps/agent`) | runtime state, stop event | start, stop, run, tick, heartbeat with retries | concurrent stop, repeated delivery | a stop is obeyed, attempts bounded |
| Migrations (`database/migrations`) | recorded revision, schema, converted rows | upgrade, downgrade to any revision | failures and crashes between two revisions, hand-written inverses | the schema of the recorded revision, no decision lost |
| Web client (`apps/web/src`) | polled data, session | poll, refresh, reload, login, logout | aborts, late answers | one request in flight, data of the current key |
| Auth, permissions (`services/auth.py`, `permissions.py`) | users, roles, tokens | login, permission checks | roles changed under a request | routes require their permission |
| Management, devices, inventory | users, roles, departments, locations, devices | create, update, delete | parents deleted under children | scopes consistent |
| Bootstrap (`scripts/bootstrap_admin.py`) | bootstrap row, first admin | bootstrap | two operators at once | one first admin |
| Dashboard | none | reads | none | not modelled: decides nothing |

Components interact through the database only: a remediation plan reads the
status of its recommendation, a recommendation rests on a finding of an
analysis, an analysis reads its diagnostic run and result rows, deleting a device
cascades through all of them, and a heartbeat writes device and monitoring rows.
The hazards of each are in `PROJECT.json`.

## 3. Modules

| Module | What it is |
|---|---|
| `Remediation` | one recommendation, its plan, and the requests on it |
| `ApprovalGate` | abstract: approve, then run, then verify, never taken back |
| `RemediationProofs` | theorems of `Remediation` |
| `Diagnostics` | one diagnostic run and the requests on it |
| `Discovery` | a table of discovery jobs and the requests on them |
| `RunLifecycle` | abstract: a run or job starts once, publishes results with completion only, ends once |
| `DiagnosticsProofs`, `DiscoveryProofs` | theorems of the two |
| `Incident` | one incident, its escalations, and the requests on them |
| `IncidentProofs` | theorems of `Incident` |
| `Agent` | one endpoint agent, its credentials, and the requests on them |
| `AgentProofs` | theorems of `Agent` |
| `RootCause` | one analysis of a diagnostic run and the requests on it, its rules as operators |
| `Recommendation` | extends `RootCause`: the recommendations generated from its findings, and their review |
| `RootCauseProofs` | theorems of `RootCause` |
| `RecommendationProofs` | theorems of `Recommendation` |
| `Enrollment` | one-time tokens and the enrolments of an organization's agents |
| `Monitoring` | one device's monitoring target, its configuration and its telemetry |
| `AgentRuntime` | the agent's loop, a thread that stops it, and the client's retries over a lossy network |
| `EndpointProofs` | theorems of `Enrollment`, `Monitoring` and `AgentRuntime` |
| `Migrations` | the thirteen revisions as scripts of DDL statements, and the tool that runs them |
| `MC*` | constants and symmetry of the instances TLC checks |
| `MCLive` | four services and the agent's runtime under fairness, one part per behaviour |
| `MCPlatform` | incidents, migrations, monitoring and enrolment, one part per behaviour |

One plan, one run, one analysis, one incident, one agent and one target stand for
all: rows of different ones share no state, no request touches two, and the
requests on one are all there is to interleave. Discovery has several rows because
creation looks for other jobs of the same target, `Enrollment` several agents
because they compete for tokens, devices and names, and `Recommendation` several
recommendations because one transaction inserts them all.

### Remediation

`status`, `approvedBy`, `executed`, `verification` are the plan's columns,
`action` the status of its only action (the actions of a plan change together,
in one transaction), `verifiedRow` the row `verify` inserts, `plan` its id.
`reply[w]` is how the worker's last request ended: the HTTP outcome and the plan
a generation returned.

    generate   LoadRecommendation | RefuseRecommendation -> LookupPlan -> InsertPlan | LoseInsert
    transition LoadPlan -> CommitTransition | RefuseTransition
    execute    LoadPlan -> CommitTransition -> RereadStarted -> RunActions | RunActionsRefused
                 -> RereadSucceeded -> FinishExecution
               ExecutionError -> RereadFailed -> MarkFailed   from inside the try block
    verify     LoadPlan -> CommitVerify | RefuseVerify

The sequential contract of this service is broken under concurrency (see the
findings); what survives, and is checked and proved, is the gate: approval, run
and verification happen in that order and leave their records.

### Diagnostics and Discovery

`Swap` is the repositories' conditional UPDATE. `status` also has the phases
before the insert and after the deletion of the row. `results` holds whose
result rows are stored. `ExecutionError` may strike at any point of the try
block, after the completion was committed too (the response still reads the
row). Discovery keeps several jobs in `job`, with `CheckTarget` and `InsertJob`
apart because nothing makes them atomic; it also distinguishes a cancellation
that lost to a start (`undecided`, HTTP 409 or 500 by the code's two exceptions).

### Incident

Columns of the incident, `escalation[l]` per level (the unique constraint makes
the level the key), and the requests. `resolvedAt` holds *whose* resolution
wrote the column: the time itself is irrelevant, but who wrote it relates it to
`resolvedBy`. A crash before the commit is the same as never committing, so no
crash action is needed.

### Agent

`status` and `lastSeen` are columns of the agent, `credential` its credential rows.
Each row also keeps which thread issued it; the database does not, and no guard
reads it: it lets the property say that two live credentials need two overlapping
threads.

    heartbeat       PresentCredential -> Authenticate | RefuseAgent
                      -> CommitHeartbeat | LoseHeartbeat
    rotate          LoadAgent -> CollectCredentials | RefuseRotation -> CommitRotation
    revoke, retire  LoadAgent -> CollectCredentials -> CommitRevoke | CommitRetire

The session keeps its objects across a commit (`expire_on_commit=False`), so the
heartbeat decides on the agent that authentication loaded. A revocation can thus
be overwritten by a heartbeat of a pending agent, and a rotation can leave a
withdrawn agent a credential. `WithdrawalIsFinal` says that this needs a request
already under way: once none is, nothing brings the agent back. `OFFLINE` is a
status of the enumeration that no code writes; it is read as the code reads it.

### RootCause and Recommendation

    analysis  create  idle -> creating -> idle
              run     idle -> loaded -> executing -> evaluated -> completed -> idle
                                                     evaluated -> superseded -> idle
                      with failing as the error path
              cancel  idle -> loaded -> cancelled -> idle
    recommendations
              generate    idle -> generating <-> inserting -> idle, failing on errors
              create      idle -> inserting -> created -> idle
              transition  idle -> loaded -> idle

`verdict` gives each result row of the diagnostic run the check it fails;
`RuleFindings` is what the fixed rules make of them, one finding per failed check
with every failed result as evidence. `MaxEvidence` is the number of result ids
that fit into the fingerprint's column: with more, the completion raises and the
analysis fails. The run under an analysis may vanish at any point
(`DeleteDevice`), and everything that rests on it with it.

A clerk's `todo` holds the findings a generation has still to treat, `inserted`
the rows its open transaction holds. `InsertRow` waits while another transaction
has inserted the same identity; `InsertionFails` rolls everything back. `audited`
adds up the counts that committed audit events report. Findings and
recommendations go by the check type, which is part of the identity of both.

### Enrollment

    enrol  idle -> read -> checked -> claimed -> inserted -> idle

The token is read, the device's agent looked for, the token claimed by a
conditional UPDATE, the agent inserted and everything committed. A claim and an
insertion are locks until then. The agent that `Agent` starts from is one that
`CommitEnrolment` stored.

### Monitoring

    configure  idle -> loaded -> idle
    ingest     idle -> target -> ready -> idle
    heartbeat  idle -> device -> ready | unmonitored -> idle

The columns users configure (`target`) and those telemetry sets (`targetStatus`) belong to
one row; `device` is the device's `last_seen_at`. Users' telemetry loads the target
first and heartbeats the device first, which matters for which copy is stale.
`StatusAt` is the rule that dates a change of status just after the last one
when the clock has not passed it. The effective status is computed on reading
and is no state.

### AgentRuntime

    run   out -> starting -> check -> tick -> sending -> cycled -> check
                             check -> finally -> out
    stop  no -> stopping -> set -> no

Two threads write `state` without a lock. An attempt of the client is in flight
until the server serves or refuses it; `TimeOut` ends the wait for its answer
without taking it back, so the server may serve it later, and again.

### Migrations

A schema is a set of objects, each with the object it is a part of and those it
refers to. `Upgrade` and `Downgrade` hold each revision's statements in their
order. `Applies` says when PostgreSQL raises: creating what exists, dropping what
is missing or referred to, using a label in the transaction that adds it, or
converting a column with a value the new type lacks. A run is one transaction,
but for the autocommit block of one revision (`CommitLabel`).

Two remainders are accepted: a run that dies after the autocommit block leaves the
label `CANCELLED` at an older revision, and the downgrade of b8c9 leaves the
type `health_status`. Both upgrades tolerate what they find (`IF NOT EXISTS`,
`checkfirst`), and `Residue` names them, so nothing else may be left.

## 4. Runs

| Run | Instance | Shows |
|---|---|---|
| `remediation` | 2 workers, an admin and a technician, crashes; 277,116 states | types, `ApprovedBeforeUse`, `ExecutedBeforeVerification`, `OnePlanPerRecommendation`, refinement `GateSpec` |
| `remediation_stale` | 2 workers | violation: a cancelled plan executes |
| `diagnostics` | 4 workers, crashes, device deletion; 10,353 states | types, `RepliesAreFinal`, refinement `LifecycleSpec` |
| `discovery` | 2 workers, 2 targets, 3 rows, crashes; 131,393 states | types, `RepliesAreTrue`, `DuplicatesNeedOverlap`, refinement `LifecycleSpec` per job |
| `discovery_duplicate` | 2 workers, 1 target, 2 rows | violation: two active jobs for one target |
| `incident_order` | 2 workers, 2 admins, 1 level, 1 text | violation: an incident moves backwards |
| `incident_escalation` | the same | violation: a request to resolve an open escalation does not |
| `agent` | 2 workers, 4 credential rows, 2 times; 67,311 states | types, `LiveCredentialsNeedOverlap`, `WithdrawalIsFinal` |
| `agent_seen` | the same | violation: an older heartbeat replaces a newer `last_seen_at` |
| `recommendation` | 2 analysts, 2 clerks, 2 checks, 2 results, evidence of 1, crashes, device deletion; 1,475,502 states | types, `OutcomeIsRecorded`, `RepliesAreFinal`, `RecommendationsAreFounded`, `GenerationCovers`, `AuditAccountsForRows`, `NoCircularWait`, `ReviewOrder`, refinement `LifecycleSpec` |
| `live` | plan, job and analysis with 2 workers, diagnostic run with 3, agent runtime with 3 attempts and 2 heartbeats; no crashes, fair threads; 316,723 states | `ExecutionsEnd`, `StopEndsRun`, `BeatsAreBounded`, `StoppedIsSilent`, `NotLeftRunning` |
| `platform` | 2 workers on one incident, 3 users, 1 level, 1 text; 13 revisions with crashes; 2 receivers on one target, 2 times; 2 enrolments, 2 tokens, 2 devices, 2 names; 1,785,643 states | types of the incident, `ClosureIsRecorded`, `StartIsNeverSkipped`, `UndoingNeedsOverlap`, `MigrationsApply`, `SchemaMatchesVersion`, `MigrationsKeepDecisions`, `SeenIsStored`, `TimestampsNeedOverlap`, `TokenPaysForAgent`, `OneAgentPerDevice` |

Bounds. Two workers give every pair of overlapping requests, and each worker
serves any number of requests one after the other, so the second of two stale
requests may have been preceded by any history. Diagnostics has four workers
because a completion, a failure, a cancellation and an observer fit in a small
state space. Three rows and two targets let two targets hold duplicates and leave
a free row. Two admins and a technician are the least that distinguish two
permitted users and one who is not. Four credential rows are the first one and
three rotations, of which two overlap; two observation times are one that is
older than another. Two checks are the least that can be inserted in two orders,
two results make one check exceed `MaxEvidence = 1`, and two tokens, devices and
names make every key of `Enrollment` conflict or not.

`live` and `platform` put parts that share no variable into one run: the part is
chosen in the initial state and the others stand still, so their state spaces add
up instead of multiplying.

Bounds inside a specification: the number of job rows (`CheckTarget` asks for a
free one) and of credential rows (`LoadAgent` asks for a free one per rotation under
way); the clocks (`MaxTime`, `LastBeat`); the dates of changes of status
(`MaxStatus`, one more than `MaxTime`, because a change may be dated after the
clock). `MaxAttempts` is not a bound of the model but the 3 of the code. The
proofs show that the safety properties they establish depend on none of these.
Symmetry is used in safety runs only.

Deadlock is checked everywhere but in `live` and never occurs: a new request may
always arrive. In `live` the agent's part may really stop, with its run ended,
nothing in flight and no heartbeat left within `LastBeat`.

Fairness, in `live`:

* `WF(Serves(w))`: a thread that has begun a request goes on running it. The
  operating system schedules runnable threads, database statements return or
  raise, and no step of these services waits for another request.
* `WF(InsideRun)`: the agent's loop goes on. Every wait in it has a timeout:
  the event's, the HTTP client's, the back-off's.
* `WF(TimePasses)`.

Nothing is assumed of arrivals, of stops, of the network or of the server's
answers, and errors are not excluded: `ExecutionError` may strike in every step
of the try blocks and every attempt may be lost. Crashes are left out
(`MayCrash = FALSE`), because the code resumes nothing after one and a row then
stays where it was; the safety runs include them. A statement that raises outside
a try block or within a handler (the re-read after the starting commit,
`discovery.py:123` and `remediation.py:120`, or the commit of a failure) leaves the
row in the same way and counts as a crash: `ExecutionsEnd` does not speak of it.

## 5. Proofs

All theorems hold for every set of workers, users, targets, rows, levels and
grants, under the `...Assumption`s of the modules (null values are not users,
finite workers and rows for the counting theorem, finitely many checks that are
numbers, `MayCrash` a Boolean).

* `RemediationProofs`. `Typing`, then an invariant over the loaded copies.
  `ApprovedBeforeUse` is not inductive: a stale copy may be written back. It is
  proved with the strengthening that every loaded copy beyond approval was taken
  from a row that an approver had signed, and that a signature, once there, is
  only replaced by another. `ExecutionIsOwned` needs what each program counter
  says about its copy; `GateSpec` follows from the same invariant, each
  action mapping to a gate step or a stutter.
* `DiagnosticsProofs`. `OneRunner` strengthened with what each program counter
  says of the row; from it `StampsTellOutcome`, `RepliesAreFinal` (a reported
  status is terminal or pending and no step leaves a terminal one except to
  deletion) and `LifecycleSpec`.
* `DiscoveryProofs`. The same per row (`RowsInv`, `KnowledgeInv`), and
  `DuplicatesNeedOverlap` by counting: a creation moves a worker from
  `CreatingFor` to a row in `ActiveFor`, and only a worker that found no active
  job enters `CreatingFor`, so active plus pending never exceeds the workers.
* `RootCauseProofs`. As for diagnostics, with the run's deletion and the findings:
  the worker that evaluated holds the only claim on the running status, so what
  completion stores is what the rules found, and `OutcomeIsRecorded` and
  `LifecycleSpec` follow for any set of checks and results.
* `RecommendationProofs`. Every behaviour of the pipeline is one of its analysis
  (`PipelineRunsAnalysis`), which lends it the theorems above. `TransactionInv`
  says of each open transaction that its rows rest on findings, are not stored
  yet, are in no other transaction and precede what is left to insert, and that a
  generation has treated every finding not left; `GenerationInv` that a generation
  had a completed analysis, whose findings no later step adds to. Commits then
  keep `RecommendationsAreFounded`, `GenerationCovers` and, the union being of
  disjoint finite sets, `AuditAccountsForRows`. `NoCircularWait` follows from the
  order: who waits turns to an identity below the next one of its holder, and a
  finite set of identities has a greatest. `ReviewOrder` and `DecisionsAreDated`
  rest on what a step may do to one row.
* `EndpointProofs`, in three parts.
  * Enrolment. The claims of open transactions are for different tokens that are
    not consumed, and the rows they inserted conflict with neither each other nor a
    committed agent; both properties follow at the commit.
  * Monitoring. `SeenIsStored` needs what a request knows of its device: one it
    loaded as seen is still seen when it commits. For `TimestampsNeedOverlap` the
    commit of a request whose copies are still right is shown to take no date back
    (`CommitInOrder`), and every other step to leave the dates alone.
  * The runtime. `StoppedIsSilent` rests on what the loop's position says once the
    event is set (a heartbeat decided on before is still to come, or was the one
    that counts as late), `NotLeftRunning` on what each position of the loop and of
    the stopping thread says of `state`. `BeatsAreBounded` is not inductive: the
    invariant is that what the server stored of a heartbeat and the attempts still
    in flight together never exceed the attempts made, of which there are
    at most `MaxAttempts`, for any number of them and of heartbeats.
* `IncidentProofs`. `ClosureInv` relates every loaded copy to the columns
  (nullable columns, once set, stay set to permitted users), `OpenInv` says an
  open incident has only open copies, `EscalationInv` the same for escalations.
  `UndoingNeedsOverlap` then says which request an escalation's way back takes: one
  that still believes it open.
* `AgentProofs`. `Inv` adds to the properties what requests know
  (`RequestInv`: observed times are dates, found credentials exist, a copy dated
  implies a row dated) and `CredentialInv`: a rotation about to commit has found
  every live credential its own thread issued, which is why only overlapping
  rotations leave two. `WithdrawalIsFinal` follows from `Inv` step by step.

Some invariants are proved and no longer part of a run, because the refinement or
the liveness property of that run rests on them: `ExecutionIsOwned`, `OneRunner`,
`OneAnalyst`, `StampsTellOutcome`, `EscalationsAreDated`, `ActiveWasSeen` and
`DecisionsAreDated`.

Requests that do not overlap. Four of the violations share one cause, and
theorems state it exactly: under the hypothesis that requests are served in turn
(`[]ServedInTurn`: no two are under way at once), the claims the runs refute hold.

| Claim | Refuted by | Proved in turn |
|---|---|---|
| no unapproved plan executes | `remediation_stale` | `NoneExecutesUnapprovedInTurn`, from the full order of a plan's statuses (`RemediationProofs.OrderHoldsInTurn`) |
| an incident follows its order | `incident_order` | `IncidentProofs.OrderHoldsInTurn`, of its escalations too |
| one active job per target | `discovery_duplicate` | `OneActiveJobInTurn`, where only creations of one target must not overlap (`CreatedInTurn`) |
| no older heartbeat replaces a newer one | `agent_seen` | `NewestSeenInTurn` |

Two more were never claimed but are expected of the same services:
`CredentialsInTurn` (one live credential, and a withdrawn agent stays withdrawn
without one, at once and not only after the requests under way) and `TimesGrowInTurn`
(no timestamp of monitoring goes back). The inductive invariant of all of them
is freshness: what a request has loaded is what the row holds. The hypothesis
is a constraint on behaviours, not on constants: arrivals, crashes and errors
stay as they are. A single thread satisfies it (`OneThreadInTurn` in each
module), and so does any number of threads behind a lock per row, so these
theorems also say what such a lock would buy.

Progress. The prover has no rule for `WF_` with a quantified `ENABLED`, so the end
of executions is proved from what fairness gives: a hypothesis that whoever
executes goes on, `[]<>(nobody executes) \/ []<><<a step of who executes>>`. It is
the weak fairness of those steps with "the execution is under way" in the place of
their being enabled; the fairness that `MCLive` assumes of each worker implies it,
since a worker that executes always has a step. From it, and without crashes,
`ExecutionsEndIfServed` (Diagnostics), `AnalysesEndIfServed` (RootCause) and
`RunsEndIfServed` (Discovery, for every job) hold for any number of workers, jobs,
checks and results. In Remediation several requests may execute one plan, so one
of them could in principle go on for ever at the expense of the others; there the hypothesis
is made for each final part of an execution (`Tails`: those on their last
step, on their last two, ...), and the proof shows that who is nearest to the end
stays so, or the plan is no longer held.

* What crashes leave. `AbandonedIsNotResumed` (Diagnostics, RootCause, Discovery):
  a row left RUNNING by a worker that died is taken up by no request. A
  cancellation or the deletion of its device ends it, for a discovery job a
  cancellation only. `JobsHaveOneRunner` says for each job that at most one worker runs
  it and that a job running without one is the work of a crash.
* Measures. `RequestsEnd`: the steps left to a request on recommendations
  (`ClerkSteps`, from the findings still to treat) decrease with each of its own
  steps and never otherwise; with `NoDeadlock` a generation neither hangs nor goes
  on for ever. `StoppedRunsWindDown`: the same for a stopped runtime
  (`StepsLeft`, from the attempts left), whatever the server and the other thread do.

From one component to the next. A later component reads what an earlier one stored,
so what it relies on is proved of the earlier one: `ResultsAreKept` (Diagnostics,
Discovery) and `FindingsAreKept` (RootCause) say that a completed row keeps what it
stored until its deletion. `DiagnosisReachesRecommendations` puts the chain
together: every recommendation answers a check that a stored result of a completed
run fails, and after a generation that succeeded the recommendations are exactly
the failed checks, as long as the analysis exists.

What TLC alone checks: liveness under `WF_` itself (`ExecutionsEnd` and
`StopEndsRun` of `live`: `ENABLED` is out of the prover's reach, and that a measure that only
decreases comes to zero would be an induction), the violations, and the three properties
of `Migrations`. That module has no constant: its run is its only instance and TLC
visits all of it, while a proof would have to evaluate thirteen scripts
and fold them into `Schemas`, statement by statement.

## 6. Findings

Five runs end in a violation of something the repository says; `PROJECT.json`
quotes each line. Four come from one cause, the unguarded `UPDATE ... WHERE id`
or check-then-insert after a stale read: a cancelled plan may execute, an
incident may move backwards, a target may have two active discovery jobs, and an
older heartbeat may replace a newer `last_seen_at`.

The fifth is a disagreement of a document with the code, without any concurrency:
`docs/operations/phase-1k-incident-escalation.md` says "Escalations are open →
acknowledged or resolved", and the code resolves acknowledged escalations only, as
`test_escalation_cannot_skip_acknowledgement` expects. The project states the order
of the code (`UndoingNeedsOverlap`). The common cause reaches it as well: the test
`test_escalation_lifecycle_is_strict_and_terminal` takes a resolved escalation to
be final, and an acknowledgement that loaded it open, committed last, puts it back
to acknowledged, with `resolved_at` still set. Served in turn it is final.

## 7. Not modelled

* Discovery's reconciliation looks up the devices with a result's address or host
  name and stores the match with the result; it changes no device. It is folded
  into the completing transaction, and which device matches is left out. The
  normalization of targets is string parsing before any row is read.
* Authentication: the permission a route requires is a guard where it decides
  something (`Remediation`, `Incident`). Login writes an audit row and issues a
  token that expires by its own date; the server keeps no session.
* Management, devices and inventory: the deletion of a device is modelled where it
  takes rows away from under a request. The rest creates, edits and deletes single
  rows guarded by the database's keys, without a lifecycle.
* Web client: a polling hook and the session of the signed-in user, in the
  browser's single thread. It decides nothing about the platform's data.
* Bootstrap: one transaction run once by an operator; a unique row makes a second
  one fail.
* Dashboard (reads only), schemas (validation before any state) and the PowerShell
  placeholders.
