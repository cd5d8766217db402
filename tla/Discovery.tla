------------------------------ MODULE Discovery ------------------------------
(***************************************************************************)
(* The discovery service: the jobs that scan an organization's targets and *)
(* the requests that create, run and cancel them (services/discovery.py,   *)
(* repositories/discovery.py, endpoints/discovery.py).                     *)
(*                                                                         *)
(* A job's status changes by conditional UPDATEs, as in Diagnostics; what  *)
(* a request read before its UPDATE may be stale.  Creation looks for an   *)
(* active job of the same target in one statement and inserts in another:  *)
(*                                                                         *)
(*   create  idle -> creating -> idle                                      *)
(*   run     idle -> loaded -> started -> discovering -> completed -> idle *)
(*                                        discovering -> superseded -> idle*)
(*           with failing as the error path                                *)
(*   cancel  idle -> loaded -> idle, or loaded -> outrun -> idle when      *)
(*           another request moved the job first                           *)
(***************************************************************************)
EXTENDS Naturals, FiniteSets

CONSTANTS
  Workers,    (* the threads that serve requests                           *)
  Targets,    (* normalized target definitions                             *)
  Jobs,       (* row ids: the bound on the number of jobs                  *)
  NoJob,      (* no row                                                    *)
  NoTarget,   (* the target of a row that does not exist                   *)
  MayCrash    (* whether a worker may die in the middle of a request       *)

ASSUME DiscoveryAssumption ==
  /\ IsFiniteSet(Workers)
  /\ IsFiniteSet(Jobs)
  /\ NoJob \notin Jobs
  /\ NoTarget \notin Targets
  /\ MayCrash \in BOOLEAN

Statuses == {"pending", "running", "completed", "failed", "cancelled"}
Active == {"pending", "running"}
Terminal == {"completed", "failed", "cancelled"}

VARIABLES
  job,        (* the rows: status, target, and what the row records        *)
  results,    (* per job, the workers whose result rows are stored         *)
  req,        (* what each worker is doing                                 *)
  reply       (* how each worker's last request ended                      *)

table == <<job, results>>
vars == <<table, req, reply>>

Absent == [status |-> "absent", target |-> NoTarget, started |-> FALSE,
           completed |-> FALSE, cancelled |-> FALSE, error |-> FALSE]
NewJob(t) == [status |-> "pending", target |-> t, started |-> FALSE,
              completed |-> FALSE, cancelled |-> FALSE, error |-> FALSE]
Rows == [status : Statuses \union {"absent"}, target : Targets \union {NoTarget},
         started : BOOLEAN, completed : BOOLEAN, cancelled : BOOLEAN, error : BOOLEAN]

Ops == {"create", "run", "cancel"}
RunPCs == {"started", "discovering", "completed", "superseded", "failing"}
PCs == {"idle", "creating", "loaded", "outrun"} \union RunPCs
Idle == [pc |-> "idle", op |-> "create", job |-> NoJob, target |-> NoTarget,
         seen |-> "pending"]
NoReply == [op |-> "create", code |-> "none", job |-> NoJob, status |-> "absent"]

Init ==
  /\ job = [j \in Jobs |-> Absent]
  /\ results = [j \in Jobs |-> {}]
  /\ req = [w \in Workers |-> Idle]
  /\ reply = [w \in Workers |-> NoReply]

-----------------------------------------------------------------------------
(* Helpers                                                                 *)

At(w, pc) == req[w].pc = pc
Op(w) == req[w].op
Row(w) == job[req[w].job]
Goto(w, pc) == req' = [req EXCEPT ![w].pc = pc] /\ UNCHANGED reply

(* The request about job j ends; "reported" is the status its response     *)
(* shows, and "absent" when it shows none.                                 *)
End(w, code, j, reported) ==
  /\ req' = [req EXCEPT ![w] = Idle]
  /\ reply' = [reply EXCEPT ![w] =
       [op |-> req[w].op, code |-> code, job |-> j, status |-> reported]]

(* The active jobs of a target, and the requests about to add one. *)
ActiveFor(t) == {j \in Jobs : job[j].target = t /\ job[j].status \in Active}
Creating == {w \in Workers : At(w, "creating")}
CreatingFor(t) == {w \in Creating : req[w].target = t}
Free == {j \in Jobs : job[j].status = "absent"}

(* Mutation of Swap: the UPDATE names the row's id only. *)
SwapUnconditionally(w, from, changed) ==
  /\ job' = [job EXCEPT ![req[w].job] = changed]

(* The conditional UPDATE finds the status it expects and replaces it. *)
Swap(w, from, changed) ==
  /\ Row(w).status = from
  /\ job' = [job EXCEPT ![req[w].job] = changed]

-----------------------------------------------------------------------------
(* Creation                                                                *)

(* Mutation of CheckTarget: no look for an active job. *)
CheckTargetSkipped(w, t) ==
  /\ req[w] = Idle
  /\ Cardinality(Creating) < Cardinality(Free)
  /\ req' = [req EXCEPT ![w] = [Idle EXCEPT !.pc = "creating", !.target = t]]
  /\ UNCHANGED <<table, reply>>

(* The target has no active job.  The bound: enough row ids are free. *)
CheckTarget(w, t) ==
  /\ req[w] = Idle
  /\ ActiveFor(t) = {}
  /\ Cardinality(Creating) < Cardinality(Free)
  /\ req' = [req EXCEPT ![w] = [Idle EXCEPT !.pc = "creating", !.target = t]]
  /\ UNCHANGED <<table, reply>>

RefuseDuplicate(w, t) ==
  /\ req[w] = Idle
  /\ ActiveFor(t) # {}
  /\ End(w, "duplicate", NoJob, "absent")
  /\ UNCHANGED table

(* Mutation of InsertJob: a status the enumeration lacks. *)
InsertJobQueued(w, j) ==
  /\ At(w, "creating")
  /\ j \in Free
  /\ job' = [job EXCEPT ![j] = [NewJob(req[w].target) EXCEPT !.status = "queued"]]
  /\ End(w, "ok", j, "pending")
  /\ UNCHANGED results

(* Nothing in the table makes a target's active job unique. *)
InsertJob(w, j) ==
  /\ At(w, "creating")
  /\ j \in Free
  /\ job' = [job EXCEPT ![j] = NewJob(req[w].target)]
  /\ End(w, "ok", j, "pending")
  /\ UNCHANGED results

-----------------------------------------------------------------------------
(* Running                                                                 *)

LoadJob(w, j, op) ==
  /\ req[w] = Idle
  /\ job[j].status # "absent"
  /\ req' = [req EXCEPT ![w] = [Idle EXCEPT !.pc = "loaded", !.op = op, !.job = j,
                                            !.seen = job[j].status]]
  /\ reply' = [reply EXCEPT ![w] = NoReply]
  /\ UNCHANGED table

Start(w) ==
  /\ At(w, "loaded")
  /\ Op(w) = "run"
  /\ req[w].seen = "pending"
  /\ Swap(w, "pending", [Row(w) EXCEPT !.status = "running", !.started = TRUE])
  /\ Goto(w, "started")
  /\ UNCHANGED results

RefuseStart(w) ==
  /\ At(w, "loaded")
  /\ Op(w) = "run"
  /\ req[w].seen # "pending" \/ Row(w).status # "pending"
  /\ End(w, "conflict", req[w].job, "absent")
  /\ UNCHANGED table

(* The job is read again for its target before the provider is asked. *)
RereadStarted(w) ==
  /\ At(w, "started")
  /\ Goto(w, "discovering")
  /\ UNCHANGED table

(* The provider's results are flushed one by one and commit together with  *)
(* the job's completion.                                                   *)
Complete(w) ==
  /\ At(w, "discovering")
  /\ Swap(w, "running", [Row(w) EXCEPT !.status = "completed", !.completed = TRUE])
  /\ results' = [results EXCEPT ![req[w].job] = @ \union {w}]
  /\ Goto(w, "completed")

ReportCompletion(w) ==
  /\ At(w, "completed")
  /\ End(w, "ok", req[w].job, "completed")
  /\ UNCHANGED table

(* The job was cancelled meanwhile: the flushed results are rolled back... *)
LoseCompletion(w) ==
  /\ At(w, "discovering")
  /\ Row(w).status # "running"
  /\ Goto(w, "superseded")
  /\ UNCHANGED table

(* ... and the job is read again for the response. *)
ReportCurrent(w) ==
  /\ At(w, "superseded")
  /\ End(w, "ok", req[w].job, Row(w).status)
  /\ UNCHANGED table

(* The provider or a statement raises, and the transaction is lost: also   *)
(* after the completion, while the job is read for the response.           *)
ExecutionError(w) ==
  /\ req[w].pc \in {"discovering", "completed", "superseded"}
  /\ Goto(w, "failing")
  /\ UNCHANGED table

(* Mutation of MarkFailed: the failure is reported and not recorded. *)
MarkFailedReportsOnly(w) ==
  /\ At(w, "failing")
  /\ End(w, "failed", req[w].job, "absent")
  /\ UNCHANGED table

MarkFailed(w) ==
  /\ At(w, "failing")
  /\ Swap(w, "running",
          [Row(w) EXCEPT !.status = "failed", !.completed = TRUE, !.error = TRUE])
  /\ End(w, "failed", req[w].job, "absent")
  /\ UNCHANGED results

(* A job that was cancelled, or had completed, keeps its status. *)
MarkFailedTooLate(w) ==
  /\ At(w, "failing")
  /\ Row(w).status # "running"
  /\ End(w, "failed", req[w].job, "absent")
  /\ UNCHANGED table

-----------------------------------------------------------------------------
(* Cancellation                                                            *)

RefuseCancel(w) ==
  /\ At(w, "loaded")
  /\ Op(w) = "cancel"
  /\ req[w].seen \notin Active
  /\ End(w, "conflict", req[w].job, "absent")
  /\ UNCHANGED table

Cancel(w) ==
  /\ At(w, "loaded")
  /\ Op(w) = "cancel"
  /\ req[w].seen \in Active
  /\ Swap(w, req[w].seen, [Row(w) EXCEPT !.status = "cancelled", !.cancelled = TRUE])
  /\ End(w, "ok", req[w].job, "cancelled")
  /\ UNCHANGED results

(* The status is no longer the one loaded; the job is read again... *)
LoseCancel(w) ==
  /\ At(w, "loaded")
  /\ Op(w) = "cancel"
  /\ req[w].seen \in Active
  /\ Row(w).status # req[w].seen
  /\ Goto(w, "outrun")
  /\ UNCHANGED table

(* Mutation of RefuseLostCancel: no second look at the status. *)
RefuseLostCancelBlindly(w) ==
  /\ At(w, "outrun")
  /\ End(w, "conflict", req[w].job, "absent")
  /\ UNCHANGED table

(* ... and if it can no longer be cancelled the client is told so; if it   *)
(* can, the client is told that this request failed.                       *)
RefuseLostCancel(w) ==
  /\ At(w, "outrun")
  /\ End(w, IF Row(w).status \in Active THEN "undecided" ELSE "conflict", req[w].job, "absent")
  /\ UNCHANGED table

-----------------------------------------------------------------------------
(* The process dies, or an exception escapes the error path (the second    *)
(* read of a started job lies outside it): the open transaction is rolled  *)
(* back and nothing resumes the request.                                   *)
Crash(w) ==
  /\ MayCrash
  /\ req[w] # Idle
  /\ req' = [req EXCEPT ![w] = Idle]
  /\ UNCHANGED <<table, reply>>

Serve(w) ==
  \/ \E j \in Jobs : InsertJob(w, j)
  \/ Start(w) \/ RefuseStart(w) \/ RereadStarted(w)
  \/ Complete(w) \/ ReportCompletion(w) \/ LoseCompletion(w) \/ ReportCurrent(w)
  \/ ExecutionError(w) \/ MarkFailed(w) \/ MarkFailedTooLate(w)
  \/ RefuseCancel(w) \/ Cancel(w) \/ LoseCancel(w) \/ RefuseLostCancel(w)

Next ==
  \E w \in Workers :
    \/ \E t \in Targets : CheckTarget(w, t) \/ RefuseDuplicate(w, t)
    \/ \E j \in Jobs, op \in {"run", "cancel"} : LoadJob(w, j, op)
    \/ Serve(w)
    \/ Crash(w)

Spec == Init /\ [][Next]_vars

-----------------------------------------------------------------------------
(* Properties                                                              *)

(* Every row, request and reply holds values of its columns and fields. *)
TypeOK ==
  /\ job \in [Jobs -> Rows]
  /\ results \in [Jobs -> SUBSET Workers]
  /\ req \in [Workers -> [pc : PCs, op : Ops, job : Jobs \union {NoJob},
                          target : Targets \union {NoTarget}, seen : Statuses]]
  /\ \A w \in Workers : req[w].pc \in {"loaded", "outrun"} \union RunPCs => req[w].job \in Jobs
  /\ reply \in [Workers ->
       [op : Ops, code : {"none", "ok", "duplicate", "conflict", "undecided", "failed"},
        job : Jobs \union {NoJob}, status : Statuses \union {"absent"}]]

(* However the requests about a job overlap, its timestamps and error code *)
(* tell the one outcome it reached.                                        *)
StampsTellOutcome ==
  \A j \in Jobs :
    LET r == job[j] IN
    /\ r.started => r.status \in {"running", "completed", "failed", "cancelled"}
    /\ r.status \in {"running", "completed", "failed"} => r.started
    /\ r.completed <=> r.status \in {"completed", "failed"}
    /\ r.cancelled <=> r.status = "cancelled"
    /\ r.error <=> r.status = "failed"

(* What a client was told about a job stays true: a reported outcome is    *)
(* final; a refused run means the job no longer waits; a cancellation is   *)
(* refused as invalid only for a job that has ended, also when the request *)
(* lost the race to a start; a failed run leaves no job running.           *)
RepliesAreTrue ==
  \A w \in Workers :
    LET r == reply[w]
        s == job[r.job].status
    IN r.job \in Jobs =>
         /\ r.code = "ok" /\ r.op # "create" => r.status \in Terminal /\ s = r.status
         /\ r.code = "conflict" /\ r.op = "run" => s \in Statuses \ {"pending"}
         /\ r.code = "conflict" /\ r.op = "cancel" => s \in Terminal
         /\ r.code = "undecided" => s \in Statuses \ {"pending"}
         /\ r.code = "failed" => s \in Terminal

(* Duplicates are the work of requests that overlap: a target never has    *)
(* more jobs active or about to be inserted than there are threads that    *)
(* may look for one at the same time (so one thread makes no duplicate).   *)
DuplicatesNeedOverlap ==
  \A t \in Targets :
    Cardinality(ActiveFor(t)) + Cardinality(CreatingFor(t)) <= Cardinality(Workers)

Lifecycle(j) == INSTANCE RunLifecycle WITH
                  phase <- job[j].status, published <- results[j] # {}

(* Every job implements the lifecycle: it runs at most once, its results   *)
(* appear with its completion only, and terminal states are final.         *)
LifecycleSpec ==
  /\ \A j \in Jobs : Lifecycle(j)!Init
  /\ [][\A j \in Jobs : [Lifecycle(j)!Next]_<<job[j].status, results[j] # {}>>]_vars

(* Every started job ends while the threads keep running. *)
RunsEnd ==
  \A j \in Jobs : job[j].status = "running" ~> job[j].status # "running"

-----------------------------------------------------------------------------
(* What a message of the code says, and the code does not keep.            *)

(* Claimed by the refusal "An active discovery job already exists for this *)
(* target": a target has one active job at most.                           *)
OneActiveJobPerTarget == \A t \in Targets : Cardinality(ActiveFor(t)) <= 1
=============================================================================
