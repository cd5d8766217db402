----------------------------- MODULE Diagnostics -----------------------------
(***************************************************************************)
(* The diagnostic service: one run of a device's diagnostics and the       *)
(* requests that create, execute and cancel it (services/diagnostics.py,   *)
(* repositories/diagnostics.py, endpoints/diagnostics.py).                 *)
(*                                                                         *)
(* Unlike the remediation service, this one changes the row's status by an *)
(* UPDATE whose WHERE clause names the status it expects.  The UPDATE, the *)
(* audit event and the rows added in the same session commit together, so  *)
(* each commit is one step; what a request read before it may be stale:    *)
(*                                                                         *)
(*   run     idle -> loaded -> executing -> completed -> idle              *)
(*                             executing -> superseded -> idle             *)
(*           with failing as the error path                                *)
(*   cancel  idle -> loaded -> idle                                        *)
(*                                                                         *)
(* Runs share no state, so one run stands for all of them.                 *)
(***************************************************************************)
EXTENDS FiniteSets

CONSTANTS
  Workers,    (* the threads that serve requests                           *)
  MayCrash    (* whether a worker may die in the middle of a request       *)

ASSUME DiagnosticsAssumption == MayCrash \in BOOLEAN

(* "absent" before the run's row is inserted, "deleted" once it is gone. *)
Statuses == {"pending", "running", "completed", "failed", "cancelled"}
Active == {"pending", "running"}
Terminal == {"completed", "failed", "cancelled"}
Phases == Statuses \union {"absent", "deleted"}

VARIABLES
  status,     (* the row's status                                          *)
  started,    (* started_at is set                                         *)
  completed,  (* completed_at is set                                       *)
  cancelled,  (* cancelled_at is set                                       *)
  error,      (* error_code is set                                         *)
  results,    (* the workers whose result rows are stored                  *)
  req,        (* what each worker is doing                                 *)
  reply       (* how each worker's last request ended                      *)

row == <<status, started, completed, cancelled, error, results>>
vars == <<row, req, reply>>

Idle == [pc |-> "idle", op |-> "run", seen |-> "pending"]
NoReply == [code |-> "none", status |-> "absent"]
ExecutePCs == {"executing", "completed", "superseded", "failing"}
PCs == {"idle", "loaded"} \union ExecutePCs

Init ==
  /\ status = "absent"
  /\ started = FALSE
  /\ completed = FALSE
  /\ cancelled = FALSE
  /\ error = FALSE
  /\ results = {}
  /\ req = [w \in Workers |-> Idle]
  /\ reply = [w \in Workers |-> NoReply]

-----------------------------------------------------------------------------
(* Helpers                                                                 *)

At(w, pc) == req[w].pc = pc
Op(w) == req[w].op
Goto(w, pc) == req' = [req EXCEPT ![w].pc = pc] /\ UNCHANGED reply

(* The request ends, reporting a status when it succeeds. *)
End(w, code, reported) ==
  /\ req' = [req EXCEPT ![w] = Idle]
  /\ reply' = [reply EXCEPT ![w] = [code |-> code, status |-> reported]]

(* Mutation of Swap: the UPDATE names the row's id only. *)
SwapUnconditionally(from, to) ==
  /\ status \in Statuses
  /\ status' = to

(* The conditional UPDATE finds the status it expects and replaces it. *)
Swap(from, to) ==
  /\ status = from
  /\ status' = to

-----------------------------------------------------------------------------
(* Mutations of the actions below, which the runs must refute              *)

(* The error path reports the failure and leaves the row. *)
MarkFailedReportsOnly(w) ==
  /\ At(w, "failing")
  /\ End(w, "failed", "absent")
  /\ UNCHANGED row

(* The response is built from whatever the read returned. *)
ReportCurrentUnchecked(w) ==
  /\ At(w, "superseded")
  /\ End(w, "ok", status)
  /\ UNCHANGED row

-----------------------------------------------------------------------------
(* Creation and deletion                                                   *)

(* The device exists; the run is inserted as pending. *)
Create(w) ==
  /\ req[w] = Idle
  /\ status = "absent"
  /\ status' = "pending"
  /\ End(w, "ok", "pending")
  /\ UNCHANGED <<started, completed, cancelled, error, results>>

(* The device is deleted, and by the foreign keys' cascade the run and its *)
(* results with it.                                                        *)
DeleteDevice ==
  /\ status \in Statuses
  /\ status' = "deleted"
  /\ results' = {}
  /\ UNCHANGED <<started, completed, cancelled, error, req, reply>>

-----------------------------------------------------------------------------
(* Execution                                                               *)

LoadRun(w, op) ==
  /\ req[w] = Idle
  /\ status \in Statuses
  /\ req' = [req EXCEPT ![w] = [pc |-> "loaded", op |-> op, seen |-> status]]
  /\ reply' = [reply EXCEPT ![w] = NoReply]
  /\ UNCHANGED row

RunMissing(w) ==
  /\ req[w] = Idle
  /\ status \notin Statuses
  /\ End(w, "missing", "absent")
  /\ UNCHANGED row

Start(w) ==
  /\ At(w, "loaded")
  /\ Op(w) = "run"
  /\ Swap("pending", "running")
  /\ started' = TRUE
  /\ Goto(w, "executing")
  /\ UNCHANGED <<completed, cancelled, error, results>>

RefuseStart(w) ==
  /\ At(w, "loaded")
  /\ Op(w) = "run"
  /\ status # "pending"
  /\ End(w, "conflict", "absent")
  /\ UNCHANGED row

(* The provider's checks become result rows in the transaction that        *)
(* completes the run.                                                      *)
Complete(w) ==
  /\ At(w, "executing")
  /\ Swap("running", "completed")
  /\ completed' = TRUE
  /\ results' = results \union {w}
  /\ Goto(w, "completed")
  /\ UNCHANGED <<started, cancelled, error>>

ReportCompletion(w) ==
  /\ At(w, "completed")
  /\ status # "deleted"
  /\ End(w, "ok", "completed")
  /\ UNCHANGED row

(* The run was cancelled or deleted meanwhile: the result rows are rolled  *)
(* back...                                                                 *)
LoseCompletion(w) ==
  /\ At(w, "executing")
  /\ status # "running"
  /\ Goto(w, "superseded")
  /\ UNCHANGED row

(* ... and the status is read again for the response. *)
ReportCurrent(w) ==
  /\ At(w, "superseded")
  /\ status # "deleted"
  /\ End(w, "ok", status)
  /\ UNCHANGED row

(* The response needs a row that is gone. *)
ReportMissing(w) ==
  /\ req[w].pc \in {"completed", "superseded"}
  /\ status = "deleted"
  /\ End(w, "failed", "absent")
  /\ UNCHANGED row

(* The provider or a statement raises, and the transaction is lost: also   *)
(* after the run was completed, while the row is read for the response.    *)
ExecutionError(w) ==
  /\ req[w].pc \in {"executing", "completed", "superseded"}
  /\ Goto(w, "failing")
  /\ UNCHANGED row

(* The client is told 500 whether or not the row could be marked. *)
MarkFailed(w) ==
  /\ At(w, "failing")
  /\ Swap("running", "failed")
  /\ completed' = TRUE
  /\ error' = TRUE
  /\ End(w, "failed", "absent")
  /\ UNCHANGED <<started, cancelled, results>>

MarkFailedTooLate(w) ==
  /\ At(w, "failing")
  /\ status # "running"
  /\ End(w, "failed", "absent")
  /\ UNCHANGED row

-----------------------------------------------------------------------------
(* Cancellation                                                            *)

Cancel(w) ==
  /\ At(w, "loaded")
  /\ Op(w) = "cancel"
  /\ req[w].seen \in Active
  /\ Swap(req[w].seen, "cancelled")
  /\ cancelled' = TRUE
  /\ End(w, "ok", "cancelled")
  /\ UNCHANGED <<started, completed, error, results>>

(* The loaded status is terminal, or it is no longer the row's: a run that *)
(* was started after the load is refused too.                              *)
RefuseCancel(w) ==
  /\ At(w, "loaded")
  /\ Op(w) = "cancel"
  /\ req[w].seen \notin Active \/ status # req[w].seen
  /\ End(w, "conflict", "absent")
  /\ UNCHANGED row

-----------------------------------------------------------------------------
(* The process dies, or an exception escapes the error path itself: the    *)
(* open transaction is rolled back and nothing resumes the request.        *)
Crash(w) ==
  /\ MayCrash
  /\ req[w] # Idle
  /\ req' = [req EXCEPT ![w] = Idle]
  /\ UNCHANGED <<row, reply>>

Serve(w) ==
  \/ Start(w) \/ RefuseStart(w)
  \/ Complete(w) \/ ReportCompletion(w)
  \/ LoseCompletion(w) \/ ReportCurrent(w) \/ ReportMissing(w)
  \/ ExecutionError(w) \/ MarkFailed(w) \/ MarkFailedTooLate(w)
  \/ Cancel(w) \/ RefuseCancel(w)

Next ==
  \/ DeleteDevice
  \/ \E w \in Workers :
       \/ Create(w)
       \/ RunMissing(w)
       \/ \E op \in {"run", "cancel"} : LoadRun(w, op)
       \/ Serve(w)
       \/ Crash(w)

Spec == Init /\ [][Next]_vars

-----------------------------------------------------------------------------
(* Properties                                                              *)

(* Every column, request and reply holds one of the values it can have. *)
TypeOK ==
  /\ status \in Phases
  /\ started \in BOOLEAN
  /\ completed \in BOOLEAN
  /\ cancelled \in BOOLEAN
  /\ error \in BOOLEAN
  /\ results \subseteq Workers
  /\ req \in [Workers -> [pc : PCs, op : {"run", "cancel"}, seen : Statuses]]
  /\ reply \in [Workers -> [code : {"none", "ok", "missing", "conflict", "failed"},
                            status : Statuses \union {"absent"}]]

(* A run has one runner: two run requests, a cancellation and a failure    *)
(* interleaved never leave two workers executing it, and a running run     *)
(* that nobody executes any more is the work of a crash.                   *)
OneRunner ==
  LET runners == {w \in Workers : req[w].pc \in ExecutePCs}
  IN /\ \A w, v \in runners : w = v
     /\ status = "running" /\ ~MayCrash =>
          \E w \in runners : req[w].pc \in {"executing", "failing"}

(* However completion, failure and cancellation overlap, the timestamps    *)
(* and the error code of the row tell the one outcome it reached.          *)
StampsTellOutcome ==
  status \in Statuses =>
    /\ completed <=> status \in {"completed", "failed"}
    /\ cancelled <=> status = "cancelled"
    /\ error <=> status = "failed"
    /\ status \in {"running", "completed", "failed"} => started

(* What a client was told stays true: a reported outcome is the row's      *)
(* until the row is deleted, no request that executed or cancelled the run *)
(* is answered with a run still in progress, and a 500 from an execution   *)
(* leaves no run running.                                                  *)
RepliesAreFinal ==
  \A w \in Workers :
    LET r == reply[w] IN
    /\ r.code = "ok" => r.status \in Terminal \union {"pending"}
    /\ r.code = "ok" /\ r.status \in Terminal => status \in {r.status, "deleted"}
    /\ r.code = "failed" => status \in Terminal \union {"deleted"}

(* Every execution ends while the threads keep running. *)
ExecutionEnds == status = "running" ~> status # "running"

Lifecycle == INSTANCE RunLifecycle WITH phase <- status, published <- results # {}

(* The run implements the lifecycle: it starts once, shows results exactly *)
(* from its completion on, and no concurrent or late request re-enters or  *)
(* overwrites a terminal state.                                            *)
LifecycleSpec == Lifecycle!Spec
=============================================================================
