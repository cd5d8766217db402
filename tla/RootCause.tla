------------------------------ MODULE RootCause ------------------------------
(***************************************************************************)
(* The root-cause service: one analysis of a completed diagnostic run and  *)
(* the requests that create, run and cancel it (services/root_cause.py,    *)
(* repositories/root_cause.py, root_cause.py, endpoints/root_cause.py).    *)
(*                                                                         *)
(* The analysis' status moves by conditional UPDATEs, as a diagnostic      *)
(* run's does; here the run under it may be deleted as well, with a device *)
(* and by the foreign keys' cascade, and the findings are computed from    *)
(* the run's stored results by fixed rules, one per check type.            *)
(*                                                                         *)
(*   create  idle -> creating -> idle                                      *)
(*   run     idle -> loaded -> executing -> evaluated -> completed -> idle *)
(*                                          evaluated -> superseded -> idle *)
(*           with failing as the error path                                *)
(*   cancel  idle -> loaded -> cancelled -> idle                           *)
(*                                                                         *)
(* Analyses share no state, so one analysis stands for all of them.        *)
(***************************************************************************)
EXTENDS Integers, FiniteSets

CONSTANTS
  Workers,      (* the threads that serve requests                         *)
  Checks,       (* the check types; a finding's id is ordered as its type  *)
  Results,      (* the ids of the run's result rows                        *)
  MaxEvidence,  (* the result ids that fit into a finding's fingerprint    *)
  MayCrash      (* whether a worker may die in the middle of a request     *)

Passed == 0     (* the verdict of a result that is not a failed check      *)

ASSUME RootCauseAssumption ==
  /\ Checks \subseteq Nat \ {Passed}
  /\ IsFiniteSet(Checks)
  /\ IsFiniteSet(Results)
  /\ MaxEvidence \in Nat
  /\ MayCrash \in BOOLEAN

Statuses == {"pending", "running", "completed", "failed", "cancelled"}
Active == {"pending", "running"}
Terminal == {"completed", "failed", "cancelled"}
Phases == Statuses \union {"absent", "deleted"}

VARIABLES
  run,        (* the diagnostic run: unfinished, completed or gone         *)
  verdict,    (* the check each of its results fails, or Passed            *)
  status,     (* the analysis' status, absent before and deleted after     *)
  completed,  (* completed_at is set                                       *)
  cancelled,  (* cancelled_at is set                                       *)
  error,      (* error_code is set                                         *)
  findings,   (* the stored findings                                       *)
  req,        (* what each worker is doing                                 *)
  reply       (* how each worker's last request ended                      *)

row == <<status, completed, cancelled, error, findings>>
analysisVars == <<run, verdict, row, req, reply>>

Idle == [pc |-> "idle", op |-> "run", seen |-> "pending"]
NoReply == [code |-> "none", status |-> "absent"]
ExecutePCs == {"executing", "evaluated", "completed", "superseded", "failing"}
PCs == {"idle", "creating", "loaded", "cancelled"} \union ExecutePCs

Init ==
  /\ run \in {"unfinished", "completed"}
  /\ verdict \in [Results -> Checks \union {Passed}]
  /\ status = "absent"
  /\ completed = FALSE
  /\ cancelled = FALSE
  /\ error = FALSE
  /\ findings = {}
  /\ req = [w \in Workers |-> Idle]
  /\ reply = [w \in Workers |-> NoReply]

-----------------------------------------------------------------------------
(* The rules: a failed check type yields one finding, whose evidence is    *)
(* every failed result of that type.                                       *)

Evidence(c) == {r \in Results : verdict[r] = c}

(* Mutation of RuleFindings: a rule stops at its first match. *)
RuleFindingsFirstMatch ==
  {[rule |-> c, evidence |-> {CHOOSE r \in Results : verdict[r] = c}] :
     c \in {d \in Checks : Evidence(d) # {}}}

RuleFindings ==
  {[rule |-> c, evidence |-> Evidence(c)] : c \in {d \in Checks : Evidence(d) # {}}}

(* The fingerprint lists the evidence and its column is bounded. *)
Storable == \A f \in RuleFindings : Cardinality(f.evidence) <= MaxEvidence

-----------------------------------------------------------------------------
(* Helpers                                                                 *)

At(w, pc) == req[w].pc = pc
Op(w) == req[w].op
Goto(w, pc) == req' = [req EXCEPT ![w].pc = pc] /\ UNCHANGED reply

(* The request ends, reporting a status when it succeeds. *)
End(w, code, reported) ==
  /\ req' = [req EXCEPT ![w] = Idle]
  /\ reply' = [reply EXCEPT ![w] = [code |-> code, status |-> reported]]

(* Mutation of Swap: the UPDATE names the row's id only. *)
SwapUnconditionally(from, to) ==
  /\ status \in (IF from = "absent" THEN {"absent"} ELSE Statuses)
  /\ status' = to

(* The conditional UPDATE finds the status it expects and replaces it. *)
Swap(from, to) ==
  /\ status = from
  /\ status' = to

-----------------------------------------------------------------------------
(* The diagnostic run                                                      *)

FinishDiagnostics ==
  /\ run = "unfinished"
  /\ run' = "completed"
  /\ UNCHANGED <<verdict, row, req, reply>>

(* The device is deleted, and by the foreign keys' cascade the run, its    *)
(* results, the analysis and its findings.                                 *)
DeleteDevice ==
  /\ run # "gone"
  /\ run' = "gone"
  /\ status' = IF status \in Statuses THEN "deleted" ELSE status
  /\ findings' = {}
  /\ UNCHANGED <<verdict, completed, cancelled, error, req, reply>>

-----------------------------------------------------------------------------
(* Creation                                                                *)

CheckRun(w) ==
  /\ req[w] = Idle
  /\ run = "completed"
  /\ status = "absent"
  /\ req' = [req EXCEPT ![w].pc = "creating"]
  /\ reply' = [reply EXCEPT ![w] = NoReply]
  /\ UNCHANGED <<run, verdict, row>>

RefuseCreate(w) ==
  /\ req[w] = Idle
  /\ run # "completed"
  /\ End(w, IF run = "gone" THEN "missing" ELSE "conflict", "absent")
  /\ UNCHANGED <<run, verdict, row>>

Insert(w) ==
  /\ At(w, "creating")
  /\ run = "completed"
  /\ Swap("absent", "pending")
  /\ End(w, "ok", "pending")
  /\ UNCHANGED <<run, verdict, completed, cancelled, error, findings>>

(* Another request created an analysis of the run meanwhile: this one is a *)
(* second, which is not followed.                                          *)
InsertAnother(w) ==
  /\ At(w, "creating")
  /\ run = "completed"
  /\ status # "absent"
  /\ End(w, "ok", "pending")
  /\ UNCHANGED <<run, verdict, row>>

(* The run was deleted after the check: the foreign key refuses the row. *)
InsertOrphan(w) ==
  /\ At(w, "creating")
  /\ run = "gone"
  /\ End(w, "conflict", "absent")
  /\ UNCHANGED <<run, verdict, row>>

-----------------------------------------------------------------------------
(* Mutations of the actions below, which the runs must refute              *)

(* The error path reports the failure and leaves the row. *)
MarkFailedReportsOnly(w) ==
  /\ At(w, "failing")
  /\ End(w, "failed", "absent")
  /\ UNCHANGED <<run, verdict, row>>

(* The response is built from whatever the read returned. *)
ReportCurrentUnchecked(w) ==
  /\ At(w, "superseded")
  /\ End(w, "ok", status)
  /\ UNCHANGED <<run, verdict, row>>

-----------------------------------------------------------------------------
(* Execution                                                               *)

Load(w, op) ==
  /\ req[w] = Idle
  /\ status \in Statuses
  /\ req' = [req EXCEPT ![w] = [pc |-> "loaded", op |-> op, seen |-> status]]
  /\ reply' = [reply EXCEPT ![w] = NoReply]
  /\ UNCHANGED <<run, verdict, row>>

Missing(w) ==
  /\ req[w] = Idle
  /\ status \notin Statuses
  /\ End(w, "missing", "absent")
  /\ UNCHANGED <<run, verdict, row>>

Start(w) ==
  /\ At(w, "loaded")
  /\ Op(w) = "run"
  /\ req[w].seen = "pending"
  /\ Swap("pending", "running")
  /\ Goto(w, "executing")
  /\ UNCHANGED <<run, verdict, completed, cancelled, error, findings>>

RefuseStart(w) ==
  /\ At(w, "loaded")
  /\ Op(w) = "run"
  /\ req[w].seen # "pending" \/ status # "pending"
  /\ End(w, "conflict", "absent")
  /\ UNCHANGED <<run, verdict, row>>

(* The analysis, its run and the run's results are read again, and the     *)
(* rules applied.                                                          *)
Evaluate(w) ==
  /\ At(w, "executing")
  /\ status \in Statuses
  /\ run = "completed"
  /\ Goto(w, "evaluated")
  /\ UNCHANGED <<run, verdict, row>>

(* The UPDATE to completed is sent, and the commit flushes the findings. *)
Complete(w) ==
  /\ At(w, "evaluated")
  /\ Storable
  /\ Swap("running", "completed")
  /\ completed' = TRUE
  /\ findings' = RuleFindings
  /\ Goto(w, "completed")
  /\ UNCHANGED <<run, verdict, cancelled, error>>

(* The analysis was cancelled or deleted meanwhile: the session, with its  *)
(* findings, is rolled back...                                             *)
LoseCompletion(w) ==
  /\ At(w, "evaluated")
  /\ status # "running"
  /\ Goto(w, "superseded")
  /\ UNCHANGED <<run, verdict, row>>

(* ... and the row is read again for the response. *)
ReportCurrent(w) ==
  /\ At(w, "superseded")
  /\ status # "deleted"
  /\ End(w, "ok", status)
  /\ UNCHANGED <<run, verdict, row>>

Report(w) ==
  /\ req[w].pc \in {"completed", "cancelled"}
  /\ status # "deleted"
  /\ End(w, "ok", req[w].pc)
  /\ UNCHANGED <<run, verdict, row>>

(* The response needs a row that is gone. *)
ReportMissing(w) ==
  /\ req[w].pc \in {"completed", "superseded", "cancelled"}
  /\ status = "deleted"
  /\ End(w, "failed", "absent")
  /\ UNCHANGED <<run, verdict, row>>

(* A row that should be there is not, the fingerprint does not fit, or a   *)
(* statement raises: the session is rolled back.                           *)
ExecutionError(w) ==
  /\ req[w].pc \in {"executing", "evaluated", "completed", "superseded"}
  /\ Goto(w, "failing")
  /\ UNCHANGED <<run, verdict, row>>

MarkFailed(w) ==
  /\ At(w, "failing")
  /\ Swap("running", "failed")
  /\ completed' = TRUE
  /\ error' = TRUE
  /\ End(w, "failed", "absent")
  /\ UNCHANGED <<run, verdict, cancelled, findings>>

MarkFailedTooLate(w) ==
  /\ At(w, "failing")
  /\ status # "running"
  /\ End(w, "failed", "absent")
  /\ UNCHANGED <<run, verdict, row>>

-----------------------------------------------------------------------------
(* Cancellation                                                            *)

Cancel(w) ==
  /\ At(w, "loaded")
  /\ Op(w) = "cancel"
  /\ req[w].seen \in Active
  /\ Swap(req[w].seen, "cancelled")
  /\ cancelled' = TRUE
  /\ Goto(w, "cancelled")
  /\ UNCHANGED <<run, verdict, completed, error, findings>>

(* The loaded status is terminal, or no longer the row's. *)
RefuseCancel(w) ==
  /\ At(w, "loaded")
  /\ Op(w) = "cancel"
  /\ req[w].seen \notin Active \/ status # req[w].seen
  /\ End(w, "conflict", "absent")
  /\ UNCHANGED <<run, verdict, row>>

-----------------------------------------------------------------------------
(* The process dies: the open transaction is rolled back and nothing       *)
(* resumes the request.                                                    *)
Crash(w) ==
  /\ MayCrash
  /\ req[w] # Idle
  /\ req' = [req EXCEPT ![w] = Idle]
  /\ UNCHANGED <<run, verdict, row, reply>>

Serve(w) ==
  \/ Insert(w) \/ InsertAnother(w) \/ InsertOrphan(w)
  \/ Start(w) \/ RefuseStart(w)
  \/ Evaluate(w) \/ Complete(w) \/ LoseCompletion(w)
  \/ Report(w) \/ ReportCurrent(w) \/ ReportMissing(w)
  \/ ExecutionError(w) \/ MarkFailed(w) \/ MarkFailedTooLate(w)
  \/ Cancel(w) \/ RefuseCancel(w)

Request(w) ==
  \/ CheckRun(w) \/ RefuseCreate(w)
  \/ Missing(w)
  \/ \E op \in {"run", "cancel"} : Load(w, op)

Next ==
  \/ FinishDiagnostics
  \/ DeleteDevice
  \/ \E w \in Workers : Request(w) \/ Serve(w) \/ Crash(w)

Spec == Init /\ [][Next]_analysisVars

-----------------------------------------------------------------------------
(* Properties                                                              *)

(* Every column, request and reply holds one of the values it can have. *)
TypeOK ==
  /\ run \in {"unfinished", "completed", "gone"}
  /\ verdict \in [Results -> Checks \union {Passed}]
  /\ status \in Phases
  /\ completed \in BOOLEAN
  /\ cancelled \in BOOLEAN
  /\ error \in BOOLEAN
  /\ findings \subseteq [rule : Checks, evidence : SUBSET Results]
  /\ req \in [Workers -> [pc : PCs, op : {"run", "cancel"}, seen : Statuses]]
  /\ reply \in [Workers -> [code : {"none", "ok", "missing", "conflict", "failed"},
                            status : Statuses \union {"absent"}]]

(* However completion, failure, cancellation and deletion overlap, the     *)
(* timestamps, the error code and the findings tell the one outcome: a     *)
(* completed analysis holds every failed check of its run as evidence, and *)
(* no other keeps a finding.                                               *)
OutcomeIsRecorded ==
  /\ status \in Statuses =>
       /\ completed <=> status \in {"completed", "failed"}
       /\ cancelled <=> status = "cancelled"
       /\ error <=> status = "failed"
  /\ status = "completed" =>
       \A r \in Results :
         verdict[r] # Passed => \E f \in findings : f.rule = verdict[r] /\ r \in f.evidence
  /\ status # "completed" => findings = {}
  /\ \A f \in findings : \A r \in f.evidence : verdict[r] = f.rule

(* An analysis has one runner, and a running one that nobody runs any more *)
(* is the work of a crash.                                                 *)
OneAnalyst ==
  LET runners == {w \in Workers : req[w].pc \in ExecutePCs}
  IN /\ \A w, v \in runners : w = v
     /\ status = "running" /\ ~MayCrash =>
          \E w \in runners : req[w].pc \in {"executing", "evaluated", "failing"}

(* What a client was told of an outcome stays true until the deletion, no  *)
(* run or cancellation is answered with an analysis still in progress, and *)
(* a 500 leaves none running.                                              *)
RepliesAreFinal ==
  \A w \in Workers :
    LET r == reply[w] IN
    /\ r.code = "ok" => r.status \in Terminal \union {"pending"}
    /\ r.code = "ok" /\ r.status \in Terminal => status \in {r.status, "deleted"}
    /\ r.code = "failed" => status \in Terminal \union {"deleted"}

(* Every analysis that was started ends while the threads keep running. *)
AnalysisEnds == status = "running" ~> status # "running"

Lifecycle == INSTANCE RunLifecycle WITH
               phase <- status,
               published <- IF status = "completed" THEN findings = RuleFindings
                                                    ELSE findings # {}

(* The analysis implements the lifecycle of a run: it starts once, its     *)
(* rules' findings appear with its completion and with no other outcome,   *)
(* and no late request re-enters or overwrites a terminal state.           *)
LifecycleSpec == Lifecycle!Spec
=============================================================================
