----------------------------- MODULE Remediation -----------------------------
(***************************************************************************)
(* The remediation service: one accepted recommendation, the plan it may   *)
(* generate, and the HTTP requests that move the plan through its          *)
(* lifecycle (services/remediation.py, endpoints/remediation.py).          *)
(*                                                                         *)
(* Every request runs in a thread of the server's pool with a database     *)
(* session of its own.  It loads the plan's row, decides on the loaded     *)
(* copy and commits an UPDATE that names only the row's id, so between the *)
(* load and the commit any other request may have changed the row.  A      *)
(* request is therefore one step per database round trip:                  *)
(*                                                                         *)
(*   generate   idle -> lookup -> insert -> idle                           *)
(*   the rest   idle -> loaded -> idle, and for an accepted execute        *)
(*              loaded -> started -> running -> succeeded -> finishing     *)
(*              -> idle, with failing -> marking -> idle as the error path *)
(*                                                                         *)
(* Plans share no state, so one plan stands for all of them.               *)
(***************************************************************************)
CONSTANTS
  Workers,    (* the threads that serve requests                           *)
  Users,      (* the users of the plan's organization                      *)
  Grants,     (* the permissions of each user's roles                      *)
  Nobody,     (* the null of approved_by_user_id                           *)
  NoPlan,     (* no row                                                    *)
  MayCrash    (* whether a worker may die in the middle of a request       *)

ASSUME RemediationAssumption ==
  /\ Nobody \notin Users
  /\ NoPlan \notin Workers
  /\ MayCrash \in BOOLEAN

Statuses ==
  {"draft", "pending_approval", "approved", "rejected", "queued", "executing",
   "succeeded", "failed", "cancelled", "verification_required", "verified"}

(* Mutation of Target: cancel writes a status the enumeration lacks. *)
TargetMisspelt ==
  [submit |-> "pending_approval", approve |-> "approved", reject |-> "rejected",
   queue |-> "queued", cancel |-> "canceled", execute |-> "executing"]

(* The status a request writes, by route. *)
Target ==
  [submit |-> "pending_approval", approve |-> "approved", reject |-> "rejected",
   queue |-> "queued", cancel |-> "cancelled", execute |-> "executing"]

(* Mutation of Allowed: a plan may be queued while it awaits approval. *)
AllowedQueuesUnapproved ==
  [submit  |-> {"draft"},
   approve |-> {"pending_approval"},
   reject  |-> {"pending_approval"},
   queue   |-> {"pending_approval", "approved"},
   cancel  |-> {"draft", "pending_approval", "approved", "queued"},
   execute |-> {"queued"}]

(* The statuses from which each route may leave. *)
Allowed ==
  [submit  |-> {"draft"},
   approve |-> {"pending_approval"},
   reject  |-> {"pending_approval"},
   queue   |-> {"approved"},
   cancel  |-> {"draft", "pending_approval", "approved", "queued"},
   execute |-> {"queued"}]

(* The permission each route requires. *)
Permission ==
  [generate |-> "remediation:create",  submit |-> "remediation:create",
   approve  |-> "remediation:approve", reject |-> "remediation:approve",
   queue    |-> "remediation:manage",  cancel |-> "remediation:manage",
   execute  |-> "remediation:execute", verify |-> "remediation:verify"]

Transitions == DOMAIN Allowed
Approvers == {u \in Users : "remediation:approve" \in Grants[u]}

VARIABLES
  recommendation,   (* the recommendation: its status, and whether its     *)
                    (* evidence yields a catalogued action                 *)
  plan,             (* the row's id (the worker that inserted it)          *)
  status,           (* the plan's lifecycle status                         *)
  approvedBy,       (* approved_by_user_id                                 *)
  executed,         (* executed_at is set                                  *)
  verification,     (* verification_status                                 *)
  action,           (* the status of the plan's only action                *)
  verifiedRow,      (* a verification row exists                           *)
  req,              (* what each worker is doing                           *)
  reply             (* how each worker's last request ended                *)

row == <<plan, status, approvedBy, executed, verification, action, verifiedRow>>
vars == <<recommendation, row, req, reply>>

Copies == [status : Statuses, approvedBy : Users \union {Nobody},
           verification : {"pending", "passed"}]
Stored == [status |-> status, approvedBy |-> approvedBy,
           verification |-> verification]
NoCopy == [status |-> "draft", approvedBy |-> Nobody, verification |-> "pending"]

Idle == [pc |-> "idle", op |-> "generate", actor |-> Nobody, seen |-> NoCopy]
NoReply == [code |-> "none", plan |-> NoPlan]

ExecutePCs == {"started", "running", "succeeded", "finishing", "failing", "marking"}
PCs == {"idle", "lookup", "insert", "loaded"} \union ExecutePCs

Init ==
  /\ recommendation \in [status : {"reviewed"}, safe : BOOLEAN]
  /\ plan = NoPlan
  /\ status = "draft"
  /\ approvedBy = Nobody
  /\ executed = FALSE
  /\ verification = "pending"
  /\ action = "pending"
  /\ verifiedRow = FALSE
  /\ req = [w \in Workers |-> Idle]
  /\ reply = [w \in Workers |-> NoReply]

-----------------------------------------------------------------------------
(* Helpers                                                                 *)

(* SQLAlchemy leaves a column out of the UPDATE when the value assigned is *)
(* the one it loaded: the stored value then survives the commit.           *)
Flush(stored, loaded, assigned) == IF assigned = loaded THEN stored ELSE assigned

Goto(w, pc) == req' = [req EXCEPT ![w].pc = pc]
Reread(w, pc) == req' = [req EXCEPT ![w].pc = pc, ![w].seen = Stored]

(* The request ends with an HTTP result and the plan it returns. *)
End(w, code, id) ==
  /\ req' = [req EXCEPT ![w] = Idle]
  /\ reply' = [reply EXCEPT ![w] = [code |-> code, plan |-> id]]

(* A request arrives; the permission check has passed. *)
Arrive(w, u, op, pc) ==
  /\ req[w] = Idle
  /\ Permission[op] \in Grants[u]
  /\ req' = [req EXCEPT ![w] = [pc |-> pc, op |-> op, actor |-> u, seen |-> Stored]]
  /\ reply' = [reply EXCEPT ![w] = NoReply]

At(w, pc) == req[w].pc = pc
Op(w) == req[w].op
Seen(w) == req[w].seen

-----------------------------------------------------------------------------
(* Mutations of the actions below, which the runs must refute              *)

(* The table lacks its unique constraint. *)
InsertPlanTwice(w) ==
  /\ At(w, "insert")
  /\ plan' = w
  /\ status' = "draft"
  /\ End(w, "ok", w)
  /\ UNCHANGED <<recommendation, approvedBy, executed, verification, action, verifiedRow>>

(* A submission clears an earlier approval. *)
CommitTransitionClears(w) ==
  /\ At(w, "loaded")
  /\ Op(w) \in Transitions
  /\ Seen(w).status \in Allowed[Op(w)]
  /\ status' = Target[Op(w)]
  /\ approvedBy' = CASE Op(w) = "approve" -> req[w].actor
                     [] Op(w) = "submit" -> Nobody
                     [] OTHER -> approvedBy
  /\ IF Op(w) = "execute" THEN Goto(w, "started") /\ UNCHANGED reply
                          ELSE End(w, "ok", plan)
  /\ UNCHANGED <<recommendation, plan, executed, verification, action, verifiedRow>>

(* executed_at is forgotten. *)
FinishExecutionUndated(w) ==
  /\ At(w, "finishing")
  /\ status' = Flush(status, Seen(w).status, "verification_required")
  /\ verification' = Flush(verification, Seen(w).verification, "pending")
  /\ End(w, "ok", plan)
  /\ UNCHANGED <<recommendation, plan, approvedBy, executed, action, verifiedRow>>

(* The error path records the failure and leaves the status alone. *)
MarkFailedReportsOnly(w) ==
  /\ At(w, "marking")
  /\ End(w, "failed", NoPlan)
  /\ UNCHANGED <<recommendation, row>>

-----------------------------------------------------------------------------
(* The recommendation's own lifecycle moves on under the plan.             *)

AcceptRecommendation ==
  /\ recommendation.status = "reviewed"
  /\ recommendation' = [recommendation EXCEPT !.status = "accepted"]
  /\ UNCHANGED <<row, req, reply>>

ImplementRecommendation ==
  /\ recommendation.status = "accepted"
  /\ recommendation' = [recommendation EXCEPT !.status = "implemented"]
  /\ UNCHANGED <<row, req, reply>>

-----------------------------------------------------------------------------
(* Generation                                                              *)

(* The recommendation is read; unless it is accepted the request is refused. *)
LoadRecommendation(w, u) ==
  /\ recommendation.status = "accepted"
  /\ Arrive(w, u, "generate", "lookup")
  /\ UNCHANGED <<recommendation, row>>

RefuseRecommendation(w, u) ==
  /\ req[w] = Idle
  /\ Permission["generate"] \in Grants[u]
  /\ recommendation.status # "accepted"
  /\ End(w, "refused", NoPlan)
  /\ UNCHANGED <<recommendation, row>>

(* An existing plan is returned as it is; otherwise the actions are        *)
(* generated, which an unsafe recommendation does not survive.             *)
LookupPlan(w) ==
  /\ At(w, "lookup")
  /\ \/ plan # NoPlan /\ End(w, "ok", plan)
     \/ plan = NoPlan /\ ~recommendation.safe /\ End(w, "invalid", NoPlan)
     \/ plan = NoPlan /\ recommendation.safe /\ Goto(w, "insert") /\ UNCHANGED reply
  /\ UNCHANGED <<recommendation, row>>

InsertPlan(w) ==
  /\ At(w, "insert")
  /\ plan = NoPlan
  /\ plan' = w
  /\ status' = "draft"
  /\ End(w, "ok", w)
  /\ UNCHANGED <<recommendation, approvedBy, executed, verification, action, verifiedRow>>

(* The unique constraint on (organization, recommendation) rejects the     *)
(* second insert; the request rolls back and returns the first plan.       *)
LoseInsert(w) ==
  /\ At(w, "insert")
  /\ plan # NoPlan
  /\ End(w, "ok", plan)
  /\ UNCHANGED <<recommendation, row>>

-----------------------------------------------------------------------------
(* Transitions                                                             *)

LoadPlan(w, u, op) ==
  /\ plan # NoPlan
  /\ op \in Transitions \union {"verify"}
  /\ Arrive(w, u, op, "loaded")
  /\ UNCHANGED <<recommendation, row>>

(* The loaded status does not allow the transition: 409. *)
RefuseTransition(w) ==
  /\ At(w, "loaded")
  /\ Op(w) \in Transitions
  /\ Seen(w).status \notin Allowed[Op(w)]
  /\ End(w, "refused", NoPlan)
  /\ UNCHANGED <<recommendation, row>>

CommitTransition(w) ==
  /\ At(w, "loaded")
  /\ Op(w) \in Transitions
  /\ Seen(w).status \in Allowed[Op(w)]
  /\ status' = Target[Op(w)]
  /\ approvedBy' = IF Op(w) = "approve"
                     THEN Flush(approvedBy, Seen(w).approvedBy, req[w].actor)
                     ELSE approvedBy
  /\ IF Op(w) = "execute" THEN Goto(w, "started") /\ UNCHANGED reply
                          ELSE End(w, "ok", plan)
  /\ UNCHANGED <<recommendation, plan, executed, verification, action, verifiedRow>>

-----------------------------------------------------------------------------
(* Execution                                                               *)

(* transition() reads the row again after its commit. *)
RereadStarted(w) ==
  /\ At(w, "started")
  /\ Reread(w, "running")
  /\ UNCHANGED <<recommendation, row, reply>>

(* The actions are dry-run in memory and committed with the transition to  *)
(* SUCCEEDED...                                                            *)
RunActions(w) ==
  /\ At(w, "running")
  /\ Seen(w).status = "executing"
  /\ action' = "succeeded"
  /\ status' = "succeeded"
  /\ Goto(w, "succeeded")
  /\ UNCHANGED <<recommendation, plan, approvedBy, executed, verification, verifiedRow, reply>>

(* ... or with the audit event of its refusal, when another request moved  *)
(* the plan before the row was read again.                                 *)
RunActionsRefused(w) ==
  /\ At(w, "running")
  /\ Seen(w).status # "executing"
  /\ action' = "succeeded"
  /\ Goto(w, "failing")
  /\ UNCHANGED <<recommendation, plan, status, approvedBy, executed, verification, verifiedRow, reply>>

RereadSucceeded(w) ==
  /\ At(w, "succeeded")
  /\ Reread(w, "finishing")
  /\ UNCHANGED <<recommendation, row, reply>>

FinishExecution(w) ==
  /\ At(w, "finishing")
  /\ status' = Flush(status, Seen(w).status, "verification_required")
  /\ verification' = Flush(verification, Seen(w).verification, "pending")
  /\ executed' = TRUE
  /\ End(w, "ok", plan)
  /\ UNCHANGED <<recommendation, plan, approvedBy, action, verifiedRow>>

(* An exception inside the try block: an action the catalogue refuses, or  *)
(* a failed statement.  The transaction is lost.                           *)
ExecutionError(w) ==
  /\ req[w].pc \in {"running", "succeeded", "finishing"}
  /\ Goto(w, "failing")
  /\ UNCHANGED <<recommendation, row, reply>>

RereadFailed(w) ==
  /\ At(w, "failing")
  /\ Reread(w, "marking")
  /\ UNCHANGED <<recommendation, row, reply>>

MarkFailed(w) ==
  /\ At(w, "marking")
  /\ status' = Flush(status, Seen(w).status, "failed")
  /\ End(w, "failed", NoPlan)
  /\ UNCHANGED <<recommendation, plan, approvedBy, executed, verification, action, verifiedRow>>

-----------------------------------------------------------------------------
(* Verification                                                            *)

RefuseVerify(w) ==
  /\ At(w, "loaded")
  /\ Op(w) = "verify"
  /\ Seen(w).status # "verification_required"
  /\ End(w, "refused", NoPlan)
  /\ UNCHANGED <<recommendation, row>>

CommitVerify(w) ==
  /\ At(w, "loaded")
  /\ Op(w) = "verify"
  /\ Seen(w).status = "verification_required"
  /\ verifiedRow' = TRUE
  /\ status' = "verified"
  /\ verification' = Flush(verification, Seen(w).verification, "passed")
  /\ End(w, "ok", plan)
  /\ UNCHANGED <<recommendation, plan, approvedBy, executed, action>>

-----------------------------------------------------------------------------
(* The process dies, or an exception escapes the error path (the read at   *)
(* the end of transition lies outside it, too): the open transaction is    *)
(* rolled back and nothing resumes the request.                            *)
Crash(w) ==
  /\ MayCrash
  /\ req[w] # Idle
  /\ req' = [req EXCEPT ![w] = Idle]
  /\ UNCHANGED <<recommendation, row, reply>>

(* The steps of a request that has begun. *)
Serve(w) ==
  \/ LookupPlan(w) \/ InsertPlan(w) \/ LoseInsert(w)
  \/ RefuseTransition(w) \/ CommitTransition(w)
  \/ RereadStarted(w) \/ RunActions(w) \/ RunActionsRefused(w)
  \/ RereadSucceeded(w) \/ FinishExecution(w)
  \/ ExecutionError(w) \/ RereadFailed(w) \/ MarkFailed(w)
  \/ RefuseVerify(w) \/ CommitVerify(w)

Next ==
  \/ AcceptRecommendation
  \/ ImplementRecommendation
  \/ \E w \in Workers :
       \/ Serve(w)
       \/ Crash(w)
       \/ \E u \in Users :
            \/ LoadRecommendation(w, u)
            \/ RefuseRecommendation(w, u)
            \/ \E op \in Transitions \union {"verify"} : LoadPlan(w, u, op)

Spec == Init /\ [][Next]_vars

-----------------------------------------------------------------------------
(* Properties                                                              *)

(* Every variable keeps its type; the row, its loaded copies, the requests *)
(* in progress and the replies hold nothing but the values the columns and *)
(* responses can have.                                                     *)
TypeOK ==
  /\ recommendation \in [status : {"reviewed", "accepted", "implemented"}, safe : BOOLEAN]
  /\ plan \in Workers \union {NoPlan}
  /\ status \in Statuses
  /\ approvedBy \in Users \union {Nobody}
  /\ executed \in BOOLEAN
  /\ verification \in {"pending", "passed"}
  /\ action \in {"pending", "succeeded"}
  /\ verifiedRow \in BOOLEAN
  /\ req \in [Workers -> [pc : PCs, op : DOMAIN Permission,
                          actor : Users \union {Nobody}, seen : Copies]]
  /\ reply \in [Workers -> [code : {"none", "ok", "refused", "invalid", "failed"},
                            plan : Workers \union {NoPlan}]]

(* The statuses a plan reaches only by way of an approval. *)
BeyondApproval ==
  {"approved", "queued", "executing", "succeeded", "failed",
   "verification_required", "verified"}

(* However stale the copies that concurrent submit, approve, queue and     *)
(* execute requests decide on, a plan that is queued, executing or past    *)
(* execution carries the approval of a user who holds remediation:approve. *)
ApprovedBeforeUse == status \in BeyondApproval => approvedBy \in Approvers

(* A plan that awaits verification or is verified has a recorded execution *)
(* of its action, even when two executions and a verification overlap.     *)
ExecutedBeforeVerification ==
  status \in {"verification_required", "verified"} => executed /\ action = "succeeded"

(* Generation is idempotent under concurrency: whichever request wins the  *)
(* insert, every successful generate returns the one plan that is stored,  *)
(* and that plan comes from a safe recommendation that was accepted.       *)
OnePlanPerRecommendation ==
  /\ \A w \in Workers : reply[w].plan \in {NoPlan, plan}
  /\ plan # NoPlan => recommendation.safe /\ recommendation.status # "reviewed"

(* A worker whose next write certainly moves the plan out of execution. *)
WillLeaveExecution(w) ==
  /\ req[w].pc \in ExecutePCs
  /\ At(w, "finishing") => Seen(w).status # "verification_required"
  /\ At(w, "marking") => Seen(w).status # "failed"

(* As long as no worker dies, a plan marked executing or succeeded is in   *)
(* the hands of a request that will still move it on: overlapping          *)
(* executions, late cancellations and unwritten columns never leave it     *)
(* there with nobody in charge (it has no transition out of either).       *)
ExecutionIsOwned ==
  ~MayCrash /\ status \in {"executing", "succeeded"} =>
    \E w \in Workers : WillLeaveExecution(w)

(* Every execution ends while the threads keep running. *)
ExecutionEnds ==
  status \in {"executing", "succeeded"} ~> status \notin {"executing", "succeeded"}

(* The plan implements the approval gate. *)
Gate == INSTANCE ApprovalGate WITH
          approved <- approvedBy # Nobody,
          ran <- action = "succeeded",
          verified <- verifiedRow

(* Through every interleaving, the plan's action is recorded as run only   *)
(* after an approval was, its verification only after the run, and no      *)
(* later request erases any of the three.                                  *)
GateSpec == Gate!Spec

-----------------------------------------------------------------------------
(* What the documents say, and the code does not keep.                     *)

(* Claimed by test_execute_rejects_every_unapproved_lifecycle_state: an    *)
(* execution never starts on a plan that is unapproved, rejected or        *)
(* cancelled.                                                              *)
UnapprovedNeverExecutes ==
  [][status' = "executing" =>
       status \notin {"draft", "pending_approval", "rejected", "cancelled"}]_vars

=============================================================================
