--------------------------- MODULE DiscoveryProofs ---------------------------
(***************************************************************************)
(* Proofs about the discovery service, for any workers, targets and rows,  *)
(* with or without crashes.                                                *)
(***************************************************************************)
EXTENDS Discovery, FiniteSetTheorems, TLAPS

Requests == [pc : PCs, op : Ops, job : Jobs \union {NoJob},
             target : Targets \union {NoTarget}, seen : Statuses]
Codes == {"none", "ok", "duplicate", "conflict", "undecided", "failed"}
Replies == [op : Ops, code : Codes, job : Jobs \union {NoJob},
            status : Statuses \union {"absent"}]
OnJob == {"loaded", "outrun"} \union RunPCs

RequestsTyped ==
  /\ req \in [Workers -> Requests]
  /\ \A w \in Workers : req[w].pc \in OnJob => req[w].job \in Jobs
  /\ reply \in [Workers -> Replies]

LEMMA TypeParts ==
  TypeOK <=> /\ job \in [Jobs -> Rows]
             /\ results \in [Jobs -> SUBSET Workers]
             /\ RequestsTyped
  BY DEF TypeOK, RequestsTyped, Requests, Replies, Codes, OnJob

LEMMA ConstantsTyped == Idle \in Requests /\ NoReply \in Replies /\ Absent \in Rows
  BY DEF Idle, Requests, NoReply, Replies, Codes, PCs, Ops, Statuses, Absent, Rows

(* A request that moves on and one that ends keep the types of requests    *)
(* and replies.                                                            *)
LEMMA GotoTyped ==
  ASSUME RequestsTyped, NEW w \in Workers, req[w].pc \in OnJob, NEW pc \in RunPCs \union {"outrun"},
         Goto(w, pc)
  PROVE  RequestsTyped'
  BY DEF RequestsTyped, Goto, Requests, PCs, OnJob

LEMMA EndTyped ==
  ASSUME RequestsTyped, NEW w \in Workers, NEW code \in Codes, NEW j \in Jobs \union {NoJob},
         NEW reported \in Statuses \union {"absent"}, End(w, code, j, reported)
  PROVE  RequestsTyped'
<1>1. req' = [req EXCEPT ![w] = Idle]
  BY DEF End
<1>2. [op |-> req[w].op, code |-> code, job |-> j, status |-> reported] \in Replies
  BY DEF RequestsTyped, Requests, Replies
<1>3. reply' \in [Workers -> Replies]
  BY <1>2 DEF RequestsTyped, End
<1>4. QED
  BY <1>1, <1>3, ConstantsTyped DEF RequestsTyped, Idle, OnJob, RunPCs

(* What the execution and cancel write to a row leaves it a row.           *)
LEMMA WrittenRows ==
  ASSUME NEW r \in Rows
  PROVE  /\ [r EXCEPT !.status = "running", !.started = TRUE] \in Rows
         /\ [r EXCEPT !.status = "completed", !.completed = TRUE] \in Rows
         /\ [r EXCEPT !.status = "failed", !.completed = TRUE, !.error = TRUE] \in Rows
         /\ [r EXCEPT !.status = "cancelled", !.cancelled = TRUE] \in Rows
BY DEF Rows, Statuses

(* What a conditional UPDATE or an insertion writes to one row.            *)
LEMMA SwapTyped ==
  ASSUME TypeOK, NEW w \in Workers, req[w].job \in Jobs, NEW from, NEW r \in Rows, Swap(w, from, r)
  PROVE  job' \in [Jobs -> Rows]
  BY DEF TypeOK, Swap

LEMMA TypeStep == TypeOK /\ [Next]_vars => TypeOK'
<1> DEFINE Typed == /\ job \in [Jobs -> Rows]
                    /\ results \in [Jobs -> SUBSET Workers]
                    /\ RequestsTyped
<1> SUFFICES ASSUME TypeOK, Typed, [Next]_vars PROVE Typed'
  BY TypeParts DEF TypeOK, RequestsTyped, Requests, Replies, Codes, OnJob
<1>1. ASSUME NEW w \in Workers, NEW t \in Targets, CheckTarget(w, t) PROVE Typed'
  <2>1. [Idle EXCEPT !.pc = "creating", !.target = t] \in Requests
    BY ConstantsTyped DEF Requests, PCs
  <2>2. QED
    BY <1>1, <2>1 DEF CheckTarget, table, RequestsTyped, OnJob, RunPCs, Idle
<1>2. ASSUME NEW w \in Workers, NEW t \in Targets, RefuseDuplicate(w, t) PROVE Typed'
  BY <1>2, EndTyped DEF RefuseDuplicate, table, Codes
<1>3. ASSUME NEW w \in Workers, NEW j \in Jobs, NEW op \in {"run", "cancel"}, LoadJob(w, j, op)
      PROVE  Typed'
  <2> DEFINE r == [Idle EXCEPT !.pc = "loaded", !.op = op, !.job = j, !.seen = job[j].status]
  <2>1. r \in Requests /\ r.job \in Jobs
    BY <1>3, ConstantsTyped DEF LoadJob, Requests, PCs, Ops, Rows
  <2>2. QED
    BY <1>3, <2>1, ConstantsTyped DEF LoadJob, table, RequestsTyped
<1>4. ASSUME NEW w \in Workers, Serve(w) PROVE Typed'
  <2>1. ASSUME NEW j \in Jobs, InsertJob(w, j) PROVE Typed'
    <3>1. NewJob(req[w].target) \in Rows
      BY DEF RequestsTyped, Requests, NewJob, Rows, Statuses
    <3>2. QED
      BY <2>1, <3>1, EndTyped DEF InsertJob, Codes, Statuses
  <2>2. CASE Start(w)
    <3>1. req[w].job \in Jobs
      BY <2>2 DEF Start, At, RequestsTyped, OnJob
    <3>2. [Row(w) EXCEPT !.status = "running", !.started = TRUE] \in Rows
      BY <3>1, WrittenRows DEF Row
    <3>3. QED
      BY <2>2, <3>1, <3>2, SwapTyped, GotoTyped DEF Start, At, OnJob, RunPCs
  <2>3. CASE Complete(w)
    <3>1. req[w].job \in Jobs
      BY <2>3 DEF Complete, At, RequestsTyped, OnJob, RunPCs
    <3>2. [Row(w) EXCEPT !.status = "completed", !.completed = TRUE] \in Rows
      BY <3>1, WrittenRows DEF Row
    <3>3. QED
      BY <2>3, <3>1, <3>2, SwapTyped, GotoTyped DEF Complete, At, OnJob, RunPCs
  <2>4. CASE MarkFailed(w)
    <3>1. req[w].job \in Jobs
      BY <2>4 DEF MarkFailed, At, RequestsTyped, OnJob, RunPCs
    <3>2. [Row(w) EXCEPT !.status = "failed", !.completed = TRUE, !.error = TRUE] \in Rows
      BY <3>1, WrittenRows DEF Row
    <3>3. QED
      BY <2>4, <3>1, <3>2, SwapTyped, EndTyped DEF MarkFailed, Codes
  <2>5. CASE Cancel(w)
    <3>1. req[w].job \in Jobs
      BY <2>5 DEF Cancel, At, RequestsTyped, OnJob
    <3>2. [Row(w) EXCEPT !.status = "cancelled", !.cancelled = TRUE] \in Rows
      BY <3>1, WrittenRows DEF Row
    <3>3. QED
      BY <2>5, <3>1, <3>2, SwapTyped, EndTyped DEF Cancel, Codes, Statuses
  <2>6. CASE RereadStarted(w) \/ LoseCompletion(w) \/ ExecutionError(w) \/ LoseCancel(w)
    BY <2>6, GotoTyped
    DEF RereadStarted, LoseCompletion, ExecutionError, LoseCancel, At, OnJob, RunPCs, table
  <2>7. CASE ReportCurrent(w)
    <3>1. req[w].job \in Jobs
      BY <2>7 DEF ReportCurrent, At, RequestsTyped, OnJob, RunPCs
    <3>2. QED
      BY <2>7, <3>1, EndTyped DEF ReportCurrent, Row, Rows, Codes, table
  <2>8. CASE \/ RefuseStart(w) \/ ReportCompletion(w) \/ MarkFailedTooLate(w) \/ RefuseCancel(w)
             \/ RefuseLostCancel(w)
    <3>1. req[w].job \in Jobs \union {NoJob}
      BY DEF RequestsTyped, Requests
    <3>2. QED
      BY <2>8, <3>1, EndTyped
      DEF RefuseStart, ReportCompletion, MarkFailedTooLate, RefuseCancel, RefuseLostCancel,
          table, Codes, Statuses
  <2>9. QED
    BY <1>4, <2>1, <2>2, <2>3, <2>4, <2>5, <2>6, <2>7, <2>8 DEF Serve
<1>5. ASSUME NEW w \in Workers, Crash(w) PROVE Typed'
  BY <1>5, ConstantsTyped DEF Crash, table, RequestsTyped, Idle, OnJob, RunPCs
<1>6. CASE UNCHANGED vars
  BY <1>6 DEF vars, table, RequestsTyped
<1>7. QED
  BY <1>1, <1>2, <1>3, <1>4, <1>5, <1>6 DEF Next

(* Every reachable state is well typed, whatever the constants. *)
THEOREM Typing == Spec => []TypeOK
<1>1. Init => TypeOK
  BY ConstantsTyped, TypeParts DEF Init, RequestsTyped, Idle, OnJob, RunPCs
<1>2. QED
  BY <1>1, TypeStep, PTL DEF Spec

-----------------------------------------------------------------------------
(* The rows                                                                *)

(* A row that exists tells its outcome, one that does not records nothing, *)
(* and only completed jobs have results.                                   *)
RowInv(j) ==
  LET r == job[j] IN
  /\ r.started => r.status \in {"running", "completed", "failed", "cancelled"}
  /\ r.status \in {"running", "completed", "failed"} => r.started
  /\ r.completed <=> r.status \in {"completed", "failed"}
  /\ r.cancelled <=> r.status = "cancelled"
  /\ r.error <=> r.status = "failed"
  /\ results[j] # {} => r.status = "completed"

(* What one step does to one row: it is inserted, or its status is swapped *)
(* and what it records follows, or it stays as it is.                      *)
Records(j, started, completed, cancelled, error) ==
  /\ job[j].started = started
  /\ job[j].completed = completed
  /\ job[j].cancelled = cancelled
  /\ job[j].error = error

Becomes(j, from, to) == job[j].status = from /\ job'[j].status = to /\ job'[j] \in Rows

Moved(j) ==
  LET r == job[j] IN
  \/ /\ Becomes(j, "absent", "pending")
     /\ Records(j, FALSE, FALSE, FALSE, FALSE)'
     /\ results'[j] = results[j]
  \/ /\ Becomes(j, "pending", "running")
     /\ job'[j] = [r EXCEPT !.status = "running", !.started = TRUE]
     /\ results'[j] = results[j]
  \/ /\ Becomes(j, "running", "completed")
     /\ job'[j] = [r EXCEPT !.status = "completed", !.completed = TRUE]
     /\ results'[j] # {}
  \/ /\ Becomes(j, "running", "failed")
     /\ job'[j] = [r EXCEPT !.status = "failed", !.completed = TRUE, !.error = TRUE]
     /\ results'[j] = results[j]
  \/ /\ Becomes(j, "pending", "cancelled") \/ Becomes(j, "running", "cancelled")
     /\ job'[j] = [r EXCEPT !.status = "cancelled", !.cancelled = TRUE]
     /\ results'[j] = results[j]
  \/ UNCHANGED <<job[j], results[j]>>

(* The steps of a worker that leave the table alone.                       *)
LEMMA TableSteps ==
  ASSUME NEW w \in Workers, Serve(w)
  PROVE  \/ \E j \in Jobs : InsertJob(w, j)
         \/ Start(w) \/ Complete(w) \/ MarkFailed(w) \/ Cancel(w) \/ UNCHANGED table
  BY DEF Serve, RefuseStart, RereadStarted, ReportCompletion, LoseCompletion, ReportCurrent,
         ExecutionError, MarkFailedTooLate, RefuseCancel, LoseCancel, RefuseLostCancel

LEMMA RowsMove ==
  ASSUME TypeOK, [Next]_vars, NEW j \in Jobs
  PROVE  Moved(j)
<1>t. job'[j] \in Rows
  BY TypeStep DEF TypeOK
<1> USE DEF Moved, Becomes
<1>1. CASE UNCHANGED table
  BY <1>1 DEF table
<1>2. ASSUME NEW w \in Workers, NEW i \in Jobs, InsertJob(w, i) PROVE Moved(j)
  <2>1. i # j => UNCHANGED <<job[j], results[j]>>
    BY <1>2 DEF InsertJob, TypeOK
  <2>2. i = j => job'[j] = NewJob(req[w].target) /\ job[j].status = "absent" /\ results' = results
    BY <1>2 DEF InsertJob, TypeOK, Free
  <2>3. QED
    BY <2>1, <2>2, <1>t DEF NewJob, Records
<1>3. ASSUME NEW w \in Workers, Start(w) PROVE Moved(j)
  BY <1>3, <1>t DEF Start, Swap, Row, TypeOK, Rows
<1>4. ASSUME NEW w \in Workers, Complete(w) PROVE Moved(j)
  BY <1>4, <1>t DEF Complete, Swap, Row, TypeOK, Rows
<1>5. ASSUME NEW w \in Workers, MarkFailed(w) PROVE Moved(j)
  BY <1>5, <1>t DEF MarkFailed, Swap, Row, TypeOK, Rows
<1>6. ASSUME NEW w \in Workers, Cancel(w) PROVE Moved(j)
  BY <1>6, <1>t DEF Cancel, Swap, Row, TypeOK, Rows, Active
<1>7. QED
  BY <1>1, <1>2, <1>3, <1>4, <1>5, <1>6, TableSteps
  DEF Next, CheckTarget, RefuseDuplicate, LoadJob, Crash, vars

RowsInv == \A j \in Jobs : RowInv(j)

LEMMA RowsStep == TypeOK /\ RowsInv /\ [Next]_vars => RowsInv'
<1> SUFFICES ASSUME TypeOK, RowsInv, [Next]_vars, NEW j \in Jobs PROVE RowInv(j)'
  BY DEF RowsInv
<1>1. Moved(j) /\ RowInv(j) /\ job[j] \in Rows
  BY RowsMove DEF RowsInv, TypeOK
<1>2. QED
  BY <1>1 DEF Moved, RowInv, Rows, Becomes, Records

LEMMA RowsInvariant == Spec => []RowsInv
<1>1. Init => RowsInv
  BY DEF Init, RowsInv, RowInv, Absent
<1>2. QED
  BY <1>1, RowsStep, Typing, PTL DEF Spec

(* A job's timestamps and error code tell its outcome in every reachable   *)
(* state.                                                                  *)
THEOREM OutcomesAreStamped == Spec => []StampsTellOutcome
<1>1. RowsInv => StampsTellOutcome
  BY DEF RowsInv, RowInv, StampsTellOutcome
<1>2. QED
  BY <1>1, RowsInvariant, PTL

-----------------------------------------------------------------------------
(* Refinement                                                              *)

LEMMA LifecycleStep ==
  ASSUME TypeOK, RowsInv, [Next]_vars, NEW j \in Jobs
  PROVE  [Lifecycle(j)!Next]_<<job[j].status, results[j] # {}>>
<1>1. Moved(j) /\ RowInv(j) /\ job[j] \in Rows
  BY RowsMove DEF RowsInv, TypeOK
<1>2. QED
  BY <1>1
  DEF Moved, Becomes, RowInv, Lifecycle!Next, Lifecycle!Move, Lifecycle!Create,
      Lifecycle!Start, Lifecycle!Complete, Lifecycle!Fail, Lifecycle!Cancel

(* Every job implements the lifecycle: no interleaving starts it twice,    *)
(* shows results without its completion, or leaves a terminal state.       *)
THEOREM ImplementsLifecycle == Spec => LifecycleSpec
<1>1. Init => \A j \in Jobs : Lifecycle(j)!Init
  BY DEF Init, Absent, Lifecycle!Init
<1>2. TypeOK /\ RowsInv /\ [Next]_vars =>
        [\A j \in Jobs : [Lifecycle(j)!Next]_<<job[j].status, results[j] # {}>>]_vars
  BY LifecycleStep
<1>3. QED
  BY <1>1, <1>2, Typing, RowsInvariant, PTL DEF Spec, LifecycleSpec

-----------------------------------------------------------------------------
(* Replies                                                                 *)

Past == {"running", "completed", "failed", "cancelled"}

(* Statuses move forward only.                                             *)
LEMMA Forward ==
  ASSUME TypeOK, [Next]_vars, NEW j \in Jobs
  PROVE  /\ job[j].status # "absent" => job'[j].status # "absent"
         /\ job[j].status \in Past => job'[j].status \in Past
         /\ job[j].status \in Terminal => job'[j].status = job[j].status
  BY RowsMove DEF Moved, Becomes, Past, Terminal

(* What a request knows of its job still holds: the status it loaded or    *)
(* wrote has at most moved forward.                                        *)
KnowsInv(w) ==
  LET s == job[req[w].job].status IN
  /\ At(w, "creating") => Op(w) = "create"
  /\ At(w, "loaded") =>
       /\ s # "absent"
       /\ req[w].seen # "pending" => s \in Past
       /\ req[w].seen \in Terminal => s = req[w].seen
  /\ req[w].pc \in RunPCs \union {"outrun"} => s \in Past
  /\ At(w, "completed") => s = "completed"
  /\ At(w, "superseded") => s \in Terminal

LEMMA KnowledgeKept ==
  ASSUME TypeOK, [Next]_vars, NEW w \in Workers, KnowsInv(w),
         req'[w] = req[w] \/ req'[w] = Idle
  PROVE  KnowsInv(w)'
<1>1. CASE req'[w] = Idle
  BY <1>1 DEF KnowsInv, Op, At, Idle, RunPCs
<1>2. CASE req'[w] = req[w] /\ req[w].pc \in OnJob
  <2>1. req[w].job \in Jobs
    BY <1>2 DEF TypeOK, OnJob
  <2>2. QED
    BY <1>2, <2>1, Forward DEF KnowsInv, Op, At, Terminal
<1>3. CASE req'[w] = req[w] /\ req[w].pc \notin OnJob
  BY <1>3 DEF KnowsInv, Op, At, OnJob, RunPCs
<1>4. QED
  BY <1>1, <1>2, <1>3

KnowledgeInv == \A w \in Workers : KnowsInv(w)

LEMMA KnowledgeStep == TypeOK /\ KnowledgeInv /\ [Next]_vars => KnowledgeInv'
<1> SUFFICES ASSUME TypeOK, KnowledgeInv, [Next]_vars, NEW v \in Workers PROVE KnowsInv(v)'
  BY DEF KnowledgeInv
<1>k. KnowsInv(v)
  BY DEF KnowledgeInv
<1>1. CASE req'[v] = req[v] \/ req'[v] = Idle
  BY <1>1, <1>k, KnowledgeKept
<1>2. ASSUME NEW t \in Targets, CheckTarget(v, t) PROVE KnowsInv(v)'
  BY <1>2 DEF CheckTarget, KnowsInv, Op, At, Idle, RunPCs, TypeOK
<1>3. ASSUME NEW j \in Jobs, NEW op \in {"run", "cancel"}, LoadJob(v, j, op) PROVE KnowsInv(v)'
  <2>1. /\ req'[v].pc = "loaded" /\ req'[v].job = j
        /\ req'[v].seen = job[j].status /\ job' = job
    BY <1>3 DEF LoadJob, Idle, TypeOK, table
  <2>2. job[j].status \in Statuses
    BY <1>3 DEF LoadJob, TypeOK, Rows
  <2>3. QED
    BY <2>1, <2>2, <1>3 DEF LoadJob, KnowsInv, Op, At, RunPCs, Past, Statuses
<1>4. CASE Start(v)
  <2>1. req[v].job \in Jobs
    BY <1>4 DEF Start, At, TypeOK
  <2>2. req'[v].pc = "started" /\ req'[v].job = req[v].job /\ job'[req[v].job].status = "running"
    BY <1>4, <2>1 DEF Start, Goto, Swap, Row, TypeOK, Rows
  <2>3. QED
    BY <2>2 DEF KnowsInv, Op, At, RunPCs, Past
<1>5. CASE Complete(v)
  <2>1. req[v].job \in Jobs
    BY <1>5 DEF Complete, At, TypeOK, RunPCs
  <2>2. req'[v].pc = "completed" /\ req'[v].job = req[v].job /\ job'[req[v].job].status = "completed"
    BY <1>5, <2>1 DEF Complete, Goto, Swap, Row, TypeOK, Rows
  <2>3. QED
    BY <2>2 DEF KnowsInv, Op, At, RunPCs, Past
<1>6. CASE RereadStarted(v) \/ ExecutionError(v)
  <2>1. /\ req'[v].pc \in {"discovering", "failing"}
        /\ req'[v].job = req[v].job /\ job' = job /\ job[req[v].job].status \in Past
    BY <1>6, <1>k DEF RereadStarted, ExecutionError, Goto, TypeOK, table, KnowsInv, Op, At, RunPCs
  <2>2. QED
    BY <2>1 DEF KnowsInv, Op, At
<1>7. CASE LoseCompletion(v)
  <2>1. /\ req'[v].pc = "superseded"
        /\ req'[v].job = req[v].job /\ job' = job /\ job[req[v].job].status \in Terminal
    BY <1>7, <1>k DEF LoseCompletion, Goto, TypeOK, table, KnowsInv, Op, At, RunPCs, Row, Past, Terminal
  <2>2. QED
    BY <2>1 DEF KnowsInv, Op, At, Terminal, Past
<1>8. CASE LoseCancel(v)
  <2>1. req[v].job \in Jobs
    BY <1>8 DEF LoseCancel, At, TypeOK
  <2>2. job[req[v].job].status \in Past
    BY <1>8, <1>k, <2>1 DEF LoseCancel, KnowsInv, Op, At, Row, TypeOK, Rows, Statuses, Past, Active
  <2>3. req'[v].pc = "outrun" /\ req'[v].job = req[v].job /\ job' = job
    BY <1>8 DEF LoseCancel, Goto, TypeOK, table
  <2>4. QED
    BY <2>2, <2>3 DEF KnowsInv, Op, At
<1>9. QED
  BY <1>1, <1>2, <1>3, <1>4, <1>5, <1>6, <1>7, <1>8
  DEF Next, Serve, vars, table, CheckTarget, RefuseDuplicate, LoadJob, InsertJob, Start, RefuseStart,
      RereadStarted, Complete, ReportCompletion, LoseCompletion, ReportCurrent, ExecutionError,
      MarkFailed, MarkFailedTooLate, RefuseCancel, Cancel, LoseCancel, RefuseLostCancel, Crash,
      Goto, End, TypeOK

LEMMA KnowledgeInvariant == Spec => []KnowledgeInv
<1>1. Init => KnowledgeInv
  BY DEF Init, KnowledgeInv, KnowsInv, Op, At, Idle, RunPCs
<1>2. QED
  BY <1>1, KnowledgeStep, Typing, PTL DEF Spec

(* A reply that is true of a status.                                       *)
TrueOf(r, s) ==
  /\ r.code = "ok" /\ r.op # "create" => r.status \in Terminal /\ s = r.status
  /\ r.code = "conflict" /\ r.op = "run" => s \in Past
  /\ r.code = "conflict" /\ r.op = "cancel" => s \in Terminal
  /\ r.code = "undecided" => s \in Past
  /\ r.code = "failed" => s \in Terminal

LEMMA RepliesTrueOf ==
  RepliesAreTrue <=> \A w \in Workers : reply[w].job \in Jobs => TrueOf(reply[w], job[reply[w].job].status)
  BY DEF RepliesAreTrue, TrueOf, Past, Statuses

LEMMA ReplyKept ==
  ASSUME TypeOK, [Next]_vars, NEW r, r.job \in Jobs, TrueOf(r, job[r.job].status)
  PROVE  TrueOf(r, job'[r.job].status)
  BY Forward DEF TrueOf

LEMMA RepliesStep == TypeOK /\ KnowledgeInv /\ RepliesAreTrue /\ [Next]_vars => RepliesAreTrue'
<1> SUFFICES ASSUME TypeOK, KnowledgeInv, RepliesAreTrue, [Next]_vars,
                    NEW w \in Workers, reply'[w].job \in Jobs
             PROVE  TrueOf(reply'[w], job'[reply'[w].job].status)
  BY DEF RepliesAreTrue, TrueOf, Past, Statuses
<1>k. KnowsInv(w)
  BY DEF KnowledgeInv
<1>1. CASE reply'[w] = reply[w]
  BY <1>1, RepliesTrueOf, ReplyKept
<1>2. CASE reply'[w] = NoReply
  BY <1>2 DEF NoReply, TrueOf
<1>3. ASSUME NEW t \in Targets, RefuseDuplicate(w, t)
      PROVE  TrueOf(reply'[w], job'[reply'[w].job].status)
  BY <1>3, DiscoveryAssumption DEF RefuseDuplicate, End, TypeOK, TrueOf
<1>4. ASSUME NEW j \in Jobs, InsertJob(w, j)
      PROVE  TrueOf(reply'[w], job'[reply'[w].job].status)
  BY <1>4, <1>k DEF InsertJob, End, TypeOK, TrueOf, KnowsInv, Op, At
<1>5. CASE RefuseStart(w) \/ RefuseCancel(w) \/ ReportCompletion(w) \/ ReportCurrent(w)
           \/ MarkFailedTooLate(w) \/ RefuseLostCancel(w)
  <2>1. job' = job /\ req[w].job \in Jobs
    BY <1>5 DEF RefuseStart, RefuseCancel, ReportCompletion, ReportCurrent, MarkFailedTooLate,
                RefuseLostCancel, At, TypeOK, RunPCs, table
  <2> DEFINE s == job[req[w].job].status
  <2>2. s \in Statuses \union {"absent"}
    BY <2>1 DEF TypeOK, Rows
  <2>3. reply'[w].job = req[w].job /\ reply'[w].op = req[w].op
    BY <1>5 DEF RefuseStart, RefuseCancel, ReportCompletion, ReportCurrent, MarkFailedTooLate,
                RefuseLostCancel, End, TypeOK
  <2>4. CASE RefuseStart(w)
    <3>1. reply'[w].code = "conflict" /\ req[w].op = "run" /\ s \in Past
      BY <2>4, <1>k, <2>2 DEF RefuseStart, End, TypeOK, KnowsInv, Op, At, Row, Statuses, Past
    <3>2. QED
      BY <3>1, <2>1, <2>3 DEF TrueOf
  <2>5. CASE RefuseCancel(w)
    <3>1. reply'[w].code = "conflict" /\ req[w].op = "cancel" /\ s \in Terminal
      BY <2>5, <1>k, <2>2 DEF RefuseCancel, End, TypeOK, KnowsInv, Op, At, Statuses, Active, Terminal
    <3>2. QED
      BY <3>1, <2>1, <2>3 DEF TrueOf
  <2>6. CASE ReportCompletion(w) \/ ReportCurrent(w)
    <3>1. reply'[w].code = "ok" /\ reply'[w].status = s /\ s \in Terminal
      BY <2>6, <1>k DEF ReportCompletion, ReportCurrent, End, TypeOK, KnowsInv, Op, At, Row, Terminal
    <3>2. QED
      BY <3>1, <2>1, <2>3 DEF TrueOf
  <2>7. CASE MarkFailedTooLate(w)
    <3>1. reply'[w].code = "failed" /\ s \in Terminal
      BY <2>7, <1>k DEF MarkFailedTooLate, End, TypeOK, KnowsInv, Op, At, Row, RunPCs, Past, Terminal
    <3>2. QED
      BY <3>1, <2>1, <2>3 DEF TrueOf
  <2>8. CASE RefuseLostCancel(w)
    <3>1. s \in Past /\ reply'[w].code = IF s \in Active THEN "undecided" ELSE "conflict"
      BY <2>8, <1>k DEF RefuseLostCancel, End, TypeOK, KnowsInv, Op, At, Row
    <3>2. s \notin Active => s \in Terminal
      BY <3>1 DEF Past, Active, Terminal
    <3>3. QED
      BY <3>1, <3>2, <2>1, <2>3, <2>8 DEF TrueOf
  <2>9. QED
    BY <1>5, <2>4, <2>5, <2>6, <2>7, <2>8
<1>6. CASE MarkFailed(w)
  <2>1. req[w].job \in Jobs
    BY <1>6 DEF MarkFailed, At, TypeOK, RunPCs
  <2>2. reply'[w].job = req[w].job /\ reply'[w].code = "failed"
    BY <1>6 DEF MarkFailed, End, TypeOK
  <2>3. job'[req[w].job].status = "failed"
    BY <1>6, <2>1 DEF MarkFailed, Swap, Row, TypeOK, Rows
  <2>4. QED
    BY <2>2, <2>3 DEF TrueOf, Terminal
<1>7. CASE Cancel(w)
  <2>1. req[w].job \in Jobs
    BY <1>7 DEF Cancel, At, TypeOK
  <2>2. reply'[w].job = req[w].job /\ reply'[w].code = "ok" /\ reply'[w].status = "cancelled"
    BY <1>7 DEF Cancel, End, TypeOK
  <2>3. job'[req[w].job].status = "cancelled"
    BY <1>7, <2>1 DEF Cancel, Swap, Row, TypeOK, Rows
  <2>4. QED
    BY <2>2, <2>3 DEF TrueOf, Terminal
<1>8. ASSUME NEW v \in Workers,
             \/ \E t \in Targets : CheckTarget(v, t)
             \/ Start(v) \/ RereadStarted(v) \/ Complete(v) \/ LoseCompletion(v)
             \/ ExecutionError(v) \/ LoseCancel(v)
      PROVE  reply' = reply
  BY <1>8 DEF CheckTarget, Start, RereadStarted, Complete, LoseCompletion, ExecutionError,
              LoseCancel, Goto
<1>9. ASSUME NEW v \in Workers,
             \/ \E j \in Jobs, op \in {"run", "cancel"} : LoadJob(v, j, op)
             \/ Crash(v)
      PROVE  reply'[w] \in {reply[w], NoReply}
  <2>1. reply' = [reply EXCEPT ![v] = NoReply] \/ reply' = reply
    BY <1>9 DEF LoadJob, Crash
  <2>2. QED
    BY <2>1 DEF TypeOK
<1>10. ASSUME NEW v \in Workers, v # w,
              NEW code, NEW j, NEW reported, End(v, code, j, reported)
       PROVE  reply'[w] = reply[w]
  BY <1>10 DEF End, TypeOK
<1>11. ASSUME NEW v \in Workers, v # w,
              \/ \E t \in Targets : RefuseDuplicate(v, t)
              \/ \E j \in Jobs : InsertJob(v, j)
              \/ RefuseStart(v) \/ ReportCompletion(v) \/ ReportCurrent(v) \/ MarkFailed(v)
              \/ MarkFailedTooLate(v) \/ RefuseCancel(v) \/ Cancel(v) \/ RefuseLostCancel(v)
       PROVE  reply'[w] = reply[w]
  BY <1>11, <1>10
  DEF RefuseDuplicate, InsertJob, RefuseStart, ReportCompletion, ReportCurrent, MarkFailed,
      MarkFailedTooLate, RefuseCancel, Cancel, RefuseLostCancel
<1>12. CASE UNCHANGED vars
  BY <1>12, <1>1 DEF vars
<1>13. QED
  BY <1>1, <1>2, <1>3, <1>4, <1>5, <1>6, <1>7, <1>8, <1>9, <1>11, <1>12 DEF Next, Serve

(* What a client was told about a job stays true.                          *)
THEOREM RepliesStayTrue == Spec => []RepliesAreTrue
<1>1. Init => RepliesAreTrue
  BY DEF Init, RepliesAreTrue, NoReply
<1>2. QED
  BY <1>1, RepliesStep, Typing, KnowledgeInvariant, PTL DEF Spec

-----------------------------------------------------------------------------
(* Duplicates                                                              *)

LEMMA SetsFinite ==
  ASSUME NEW t
  PROVE  /\ IsFiniteSet(ActiveFor(t)) /\ IsFiniteSet(CreatingFor(t)) /\ IsFiniteSet(Workers)
         /\ Cardinality(ActiveFor(t)) \in Nat /\ Cardinality(CreatingFor(t)) \in Nat
         /\ Cardinality(Workers) \in Nat
<1>1. ActiveFor(t) \subseteq Jobs /\ CreatingFor(t) \subseteq Workers
  BY DEF ActiveFor, CreatingFor, Creating
<1>2. QED
  BY <1>1, FS_Subset, FS_CardinalityType, DiscoveryAssumption

(* A step that makes no job active and lets no request create adds nothing.*)
LEMMA NothingAdded ==
  ASSUME NEW t, DuplicatesNeedOverlap, t \in Targets,
         ActiveFor(t)' \subseteq ActiveFor(t), CreatingFor(t)' \subseteq CreatingFor(t)
  PROVE  Cardinality(ActiveFor(t)') + Cardinality(CreatingFor(t)') <= Cardinality(Workers)
<1>1. /\ IsFiniteSet(ActiveFor(t)') /\ Cardinality(ActiveFor(t)') <= Cardinality(ActiveFor(t))
      /\ IsFiniteSet(CreatingFor(t)') /\ Cardinality(CreatingFor(t)') <= Cardinality(CreatingFor(t))
  BY SetsFinite, FS_Subset
<1>2. Cardinality(ActiveFor(t)') \in Nat /\ Cardinality(CreatingFor(t)') \in Nat
  BY <1>1, FS_CardinalityType
<1>3. QED
  BY <1>1, <1>2, SetsFinite DEF DuplicatesNeedOverlap

(* Only an insertion makes a job active.                                   *)
LEMMA ActiveShrinks ==
  ASSUME TypeOK, [Next]_vars, NEW t \in Targets,
         ~ \E w \in Workers, j \in Jobs : InsertJob(w, j)
  PROVE  ActiveFor(t)' \subseteq ActiveFor(t)
<1> SUFFICES ASSUME NEW j \in Jobs, job'[j].target = t, job'[j].status \in Active
             PROVE  job[j].target = t /\ job[j].status \in Active
  BY DEF ActiveFor
<1>1. CASE UNCHANGED table
  BY <1>1 DEF table
<1>2. ASSUME NEW w \in Workers, Start(w) PROVE job[j].target = t /\ job[j].status \in Active
  BY <1>2 DEF Start, Swap, Row, TypeOK, Rows, Active
<1>3. ASSUME NEW w \in Workers, Complete(w) PROVE job[j].target = t /\ job[j].status \in Active
  BY <1>3 DEF Complete, Swap, Row, TypeOK, Rows, Active
<1>4. ASSUME NEW w \in Workers, MarkFailed(w) PROVE job[j].target = t /\ job[j].status \in Active
  BY <1>4 DEF MarkFailed, Swap, Row, TypeOK, Rows, Active
<1>5. ASSUME NEW w \in Workers, Cancel(w) PROVE job[j].target = t /\ job[j].status \in Active
  BY <1>5 DEF Cancel, Swap, Row, TypeOK, Rows, Active
<1>6. QED
  BY <1>1, <1>2, <1>3, <1>4, <1>5, TableSteps
  DEF Next, CheckTarget, RefuseDuplicate, LoadJob, Crash, vars

(* Only a check of the target lets a request create.                       *)
LEMMA CreatingShrinks ==
  ASSUME TypeOK, [Next]_vars, NEW t \in Targets,
         ~ \E w \in Workers : CheckTarget(w, t)
  PROVE  CreatingFor(t)' \subseteq CreatingFor(t)
<1> SUFFICES ASSUME NEW v \in Workers, req'[v].pc = "creating", req'[v].target = t
             PROVE  req[v].pc = "creating" /\ req[v].target = t
  BY DEF CreatingFor, Creating, At
<1>1. ASSUME NEW w \in Workers, NEW u \in Targets, CheckTarget(w, u)
      PROVE  req[v].pc = "creating" /\ req[v].target = t
  BY <1>1 DEF CheckTarget, TypeOK, Idle
<1>2. ASSUME NEW w \in Workers, NEW j \in Jobs, NEW op \in {"run", "cancel"}, LoadJob(w, j, op)
      PROVE  req[v].pc = "creating" /\ req[v].target = t
  BY <1>2 DEF LoadJob, TypeOK, Idle
<1>3. ASSUME NEW w \in Workers, NEW pc \in RunPCs \union {"outrun"}, Goto(w, pc)
      PROVE  req[v].pc = "creating" /\ req[v].target = t
  BY <1>3 DEF Goto, TypeOK, RunPCs
<1>4. ASSUME NEW w \in Workers, req' = [req EXCEPT ![w] = Idle]
      PROVE  req[v].pc = "creating" /\ req[v].target = t
  BY <1>4 DEF TypeOK, Idle
<1>5. CASE req' = req
  BY <1>5
<1>6. ASSUME NEW w \in Workers, Serve(w)
      PROVE  \/ \E pc \in RunPCs \union {"outrun"} : Goto(w, pc)
             \/ req' = [req EXCEPT ![w] = Idle]
  BY <1>6
  DEF Serve, InsertJob, Start, RefuseStart, RereadStarted, Complete, ReportCompletion, LoseCompletion,
      ReportCurrent, ExecutionError, MarkFailed, MarkFailedTooLate, RefuseCancel, Cancel, LoseCancel,
      RefuseLostCancel, End, RunPCs
<1>7. QED
  BY <1>1, <1>2, <1>3, <1>4, <1>5, <1>6 DEF Next, RefuseDuplicate, End, Crash, vars

LEMMA OverlapStep == TypeOK /\ DuplicatesNeedOverlap /\ [Next]_vars => DuplicatesNeedOverlap'
<1> SUFFICES ASSUME TypeOK, DuplicatesNeedOverlap, [Next]_vars, NEW t \in Targets
             PROVE  Cardinality(ActiveFor(t)') + Cardinality(CreatingFor(t)') <= Cardinality(Workers)
  BY DEF DuplicatesNeedOverlap
<1>1. ASSUME NEW w \in Workers, CheckTarget(w, t)
      PROVE  Cardinality(ActiveFor(t)') + Cardinality(CreatingFor(t)') <= Cardinality(Workers)
  <2>1. ActiveFor(t)' = {}
    BY <1>1 DEF CheckTarget, ActiveFor, table
  <2>2. CreatingFor(t)' \subseteq Workers
    BY DEF CreatingFor, Creating
  <2>3. /\ Cardinality(CreatingFor(t)') <= Cardinality(Workers)
        /\ Cardinality(CreatingFor(t)') \in Nat
    BY <2>2, SetsFinite, FS_Subset, FS_CardinalityType
  <2>4. Cardinality(ActiveFor(t)') = 0
    BY <2>1, FS_EmptySet
  <2>5. QED
    BY <2>3, <2>4, SetsFinite
<1>2. ASSUME NEW w \in Workers, NEW j \in Jobs, InsertJob(w, j)
      PROVE  Cardinality(ActiveFor(t)') + Cardinality(CreatingFor(t)') <= Cardinality(Workers)
  <2>1. job' = [job EXCEPT ![j] = NewJob(req[w].target)] /\ req' = [req EXCEPT ![w] = Idle]
    BY <1>2 DEF InsertJob, End
  <2>2. CASE req[w].target = t
    <3>1. ActiveFor(t)' \subseteq ActiveFor(t) \union {j}
      BY <2>1 DEF ActiveFor, TypeOK
    <3>2. w \in CreatingFor(t) /\ CreatingFor(t)' \subseteq CreatingFor(t) \ {w}
      BY <1>2, <2>1, <2>2 DEF InsertJob, CreatingFor, Creating, At, TypeOK, Idle
    <3>3. /\ IsFiniteSet(ActiveFor(t) \union {j})
          /\ Cardinality(ActiveFor(t) \union {j}) <= Cardinality(ActiveFor(t)) + 1
      <4>1. IsFiniteSet(ActiveFor(t)) /\ Cardinality(ActiveFor(t)) \in Nat
        BY SetsFinite
      <4>2. /\ IsFiniteSet(ActiveFor(t) \union {j})
            /\ \/ Cardinality(ActiveFor(t) \union {j}) = Cardinality(ActiveFor(t))
               \/ Cardinality(ActiveFor(t) \union {j}) = Cardinality(ActiveFor(t)) + 1
        BY <4>1, FS_AddElement
      <4>3. QED
        BY <4>1, <4>2
    <3>4. /\ IsFiniteSet(CreatingFor(t) \ {w})
          /\ Cardinality(CreatingFor(t) \ {w}) = Cardinality(CreatingFor(t)) - 1
      BY <3>2, SetsFinite, FS_RemoveElement
    <3>5. /\ Cardinality(ActiveFor(t)') <= Cardinality(ActiveFor(t) \union {j})
          /\ Cardinality(CreatingFor(t)') <= Cardinality(CreatingFor(t) \ {w})
          /\ Cardinality(ActiveFor(t)') \in Nat /\ Cardinality(CreatingFor(t)') \in Nat
          /\ Cardinality(ActiveFor(t) \union {j}) \in Nat /\ Cardinality(CreatingFor(t) \ {w}) \in Nat
      BY <3>1, <3>2, <3>3, <3>4, FS_Subset, FS_CardinalityType
    <3>6. Cardinality(ActiveFor(t)) + Cardinality(CreatingFor(t)) <= Cardinality(Workers)
      BY DEF DuplicatesNeedOverlap
    <3>7. QED
      BY <3>3, <3>4, <3>5, <3>6, SetsFinite
  <2>3. CASE req[w].target # t
    <3>1. ActiveFor(t)' \subseteq ActiveFor(t)
      BY <2>1, <2>3 DEF ActiveFor, TypeOK, NewJob
    <3>2. CreatingFor(t)' \subseteq CreatingFor(t)
      BY <2>1 DEF CreatingFor, Creating, At, TypeOK, Idle
    <3>3. QED
      BY <3>1, <3>2, NothingAdded
  <2>4. QED
    BY <2>2, <2>3
<1>3. QED
  BY <1>1, <1>2, ActiveShrinks, CreatingShrinks, NothingAdded

(* A target's active jobs and the requests about to add one never          *)
(* outnumber the threads, whatever the interleaving.                       *)
THEOREM DuplicatesAreBounded == Spec => []DuplicatesNeedOverlap
<1>1. Init => DuplicatesNeedOverlap
  <2> SUFFICES ASSUME Init, NEW t \in Targets
               PROVE  Cardinality(ActiveFor(t)) + Cardinality(CreatingFor(t)) <= Cardinality(Workers)
    BY DEF DuplicatesNeedOverlap
  <2>1. ActiveFor(t) = {} /\ CreatingFor(t) = {}
    BY DiscoveryAssumption DEF Init, ActiveFor, CreatingFor, Creating, At, Idle, Absent
  <2>2. QED
    BY <2>1, FS_EmptySet, SetsFinite
<1>2. QED
  BY <1>1, OverlapStep, Typing, PTL DEF Spec

(* From the look for an active job to the insertion, a request is the only *)
(* one that creates a job of its target.                                   *)
CreatedInTurn == \A t \in Targets : \A w, v \in CreatingFor(t) : w = v

(* One thread alone cannot help but create in turn.                        *)
LEMMA OneThreadInTurn == ASSUME NEW t, Workers = {t} PROVE Spec => []CreatedInTurn
<1>1. \A u \in Targets : CreatingFor(u) \subseteq Workers
  BY DEF CreatingFor, Creating
<1>2. CreatedInTurn
  BY <1>1 DEF CreatedInTurn
<1>3. QED
  BY <1>2, PTL

(* The look is then still right when the job is inserted.                  *)
LookIsFresh ==
  \A t \in Targets :
    /\ CreatingFor(t) # {} => ActiveFor(t) = {}
    /\ Cardinality(ActiveFor(t)) <= 1

LEMMA LookStep == TypeOK /\ CreatedInTurn /\ LookIsFresh /\ [Next]_vars => LookIsFresh'
<1> SUFFICES ASSUME TypeOK, CreatedInTurn, LookIsFresh, [Next]_vars, NEW t \in Targets
             PROVE  /\ CreatingFor(t)' # {} => ActiveFor(t)' = {}
                    /\ Cardinality(ActiveFor(t)') <= 1
  BY DEF LookIsFresh
<1>0. ASSUME ActiveFor(t)' \subseteq ActiveFor(t) PROVE Cardinality(ActiveFor(t)') <= 1
  <2>1. /\ Cardinality(ActiveFor(t)') <= Cardinality(ActiveFor(t))
        /\ Cardinality(ActiveFor(t)') \in Nat
    BY <1>0, SetsFinite, FS_Subset, FS_CardinalityType
  <2>2. QED
    BY <2>1, SetsFinite DEF LookIsFresh
<1>1. ASSUME NEW w \in Workers, CheckTarget(w, t)
      PROVE  ActiveFor(t)' = {}
  BY <1>1 DEF CheckTarget, ActiveFor, table
<1>2. ASSUME NEW w \in Workers, NEW j \in Jobs, InsertJob(w, j), req[w].target = t
      PROVE  ActiveFor(t)' \subseteq {j} /\ CreatingFor(t)' = {}
  <2>1. job' = [job EXCEPT ![j] = NewJob(req[w].target)] /\ req' = [req EXCEPT ![w] = Idle]
    BY <1>2 DEF InsertJob, End
  <2>2. w \in CreatingFor(t) /\ CreatingFor(t)' \subseteq CreatingFor(t) \ {w}
    BY <1>2, <2>1 DEF InsertJob, CreatingFor, Creating, At, TypeOK, Idle
  <2>3. ActiveFor(t) = {} /\ CreatingFor(t) \ {w} = {}
    BY <2>2 DEF LookIsFresh, CreatedInTurn
  <2>4. ActiveFor(t)' \subseteq ActiveFor(t) \union {j}
    BY <2>1 DEF ActiveFor, TypeOK
  <2>5. QED
    BY <2>2, <2>3, <2>4
<1>3. ASSUME NEW w \in Workers, NEW j \in Jobs, InsertJob(w, j), req[w].target # t
      PROVE  ActiveFor(t)' \subseteq ActiveFor(t) /\ CreatingFor(t)' \subseteq CreatingFor(t)
  <2>1. job' = [job EXCEPT ![j] = NewJob(req[w].target)] /\ req' = [req EXCEPT ![w] = Idle]
    BY <1>3 DEF InsertJob, End
  <2>2. QED
    BY <1>3, <2>1 DEF ActiveFor, CreatingFor, Creating, At, TypeOK, NewJob, Idle
<1>4. CASE \E w \in Workers : CheckTarget(w, t)
  BY <1>1, <1>4, FS_EmptySet
<1>5. CASE \E w \in Workers, j \in Jobs : InsertJob(w, j) /\ req[w].target = t
  <2>1. PICK j \in Jobs : ActiveFor(t)' \subseteq {j} /\ CreatingFor(t)' = {}
    BY <1>2, <1>5
  <2>2. IsFiniteSet({j}) /\ Cardinality({j}) = 1
    BY FS_Singleton
  <2>3. Cardinality(ActiveFor(t)') <= 1
    BY <2>1, <2>2, FS_Subset
  <2>4. QED
    BY <2>1, <2>3
<1>6. CASE \E w \in Workers, j \in Jobs : InsertJob(w, j) /\ req[w].target # t
  BY <1>0, <1>3, <1>6 DEF LookIsFresh
<1>7. CASE /\ ~ \E w \in Workers : CheckTarget(w, t)
           /\ ~ \E w \in Workers, j \in Jobs : InsertJob(w, j)
  <2>1. ActiveFor(t)' \subseteq ActiveFor(t) /\ CreatingFor(t)' \subseteq CreatingFor(t)
    BY <1>7, ActiveShrinks, CreatingShrinks
  <2>2. QED
    BY <1>0, <2>1 DEF LookIsFresh
<1>8. QED
  BY <1>4, <1>5, <1>6, <1>7

(* Created one after the other, a target's jobs are never active together, *)
(* as the refusal of a duplicate says.                                     *)
THEOREM OneActiveJobInTurn == Spec /\ []CreatedInTurn => []OneActiveJobPerTarget
<1>1. Init => LookIsFresh
  <2> SUFFICES ASSUME Init, NEW t \in Targets
               PROVE  CreatingFor(t) = {} /\ Cardinality(ActiveFor(t)) <= 1
    BY DEF LookIsFresh
  <2>1. ActiveFor(t) = {} /\ CreatingFor(t) = {}
    BY DiscoveryAssumption DEF Init, ActiveFor, CreatingFor, Creating, At, Idle, Absent
  <2>2. QED
    BY <2>1, FS_EmptySet
<1>2. LookIsFresh => OneActiveJobPerTarget
  BY DEF LookIsFresh, OneActiveJobPerTarget
<1>3. QED
  BY <1>1, <1>2, LookStep, Typing, PTL DEF Spec

(* A completed job keeps its results as they were stored: no late          *)
(* completion adds to them.                                                *)
THEOREM ResultsAreKept ==
  Spec => [][\A j \in Jobs : job[j].status = "completed" =>
               job'[j].status = "completed" /\ results'[j] = results[j]]_vars
<1>1. TypeOK /\ [Next]_vars =>
        [\A j \in Jobs : job[j].status = "completed" =>
           job'[j].status = "completed" /\ results'[j] = results[j]]_vars
  BY RowsMove DEF Moved, Becomes
<1>2. QED
  BY <1>1, Typing, PTL DEF Spec

-----------------------------------------------------------------------------
(* The runner of a job                                                     *)

Runs(w, j) == req[w].pc \in RunPCs /\ req[w].job = j

(* A job has one runner, and a running job that nobody will complete or    *)
(* fail is the work of a crash.                                            *)
OneRunner(j) ==
  /\ \A w, v \in Workers : Runs(w, j) /\ Runs(v, j) => w = v
  /\ job[j].status = "running" /\ ~MayCrash =>
       \E w \in Workers : Runs(w, j) /\ req[w].pc \in {"started", "discovering", "failing"}

RunnersInv == \A j \in Jobs : OneRunner(j)

(* A worker comes to run a job by starting it.                             *)
LEMMA RunnersStart ==
  ASSUME TypeOK, [Next]_vars, NEW v \in Workers, NEW j \in Jobs, Runs(v, j)'
  PROVE  Runs(v, j) \/ (Start(v) /\ req[v].job = j)
<1> USE DEF Runs, RunPCs
<1>1. CASE req' = req
  BY <1>1
<1>2. ASSUME NEW w \in Workers, NEW t \in Targets, CheckTarget(w, t) PROVE Runs(v, j)
  BY <1>2 DEF CheckTarget, Idle, TypeOK
<1>3. ASSUME NEW w \in Workers, NEW i \in Jobs, NEW op \in {"run", "cancel"}, LoadJob(w, i, op)
      PROVE  Runs(v, j)
  BY <1>3 DEF LoadJob, Idle, TypeOK
<1>4. ASSUME NEW w \in Workers, req' = [req EXCEPT ![w] = Idle] PROVE Runs(v, j)
  BY <1>4 DEF Idle, TypeOK
<1>5. ASSUME NEW w \in Workers, Start(w) PROVE Runs(v, j) \/ (Start(v) /\ req[v].job = j)
  BY <1>5 DEF Start, Goto, TypeOK
<1>6. ASSUME NEW w \in Workers, LoseCancel(w) PROVE Runs(v, j)
  BY <1>6 DEF LoseCancel, Goto, TypeOK
<1>7. ASSUME NEW w \in Workers,
             RereadStarted(w) \/ Complete(w) \/ LoseCompletion(w) \/ ExecutionError(w)
      PROVE  Runs(v, j)
  BY <1>7 DEF RereadStarted, Complete, LoseCompletion, ExecutionError, At, Goto, TypeOK
<1>8. QED
  BY <1>1, <1>2, <1>3, <1>4, <1>5, <1>6, <1>7
  DEF Next, Serve, vars, End, RefuseDuplicate, InsertJob, RefuseStart, ReportCompletion,
      ReportCurrent, MarkFailed, MarkFailedTooLate, RefuseCancel, Cancel, RefuseLostCancel, Crash

(* The end of a job is written to its row.                                 *)
LEMMA EndWritten ==
  ASSUME TypeOK, NEW w \in Workers, req[w].job \in Jobs, Complete(w) \/ MarkFailed(w) \/ Cancel(w)
  PROVE  \E r \in Rows : job' = [job EXCEPT ![req[w].job] = r] /\ r.status \in Terminal
<1> DEFINE completed == [Row(w) EXCEPT !.status = "completed", !.completed = TRUE]
           failed == [Row(w) EXCEPT !.status = "failed", !.completed = TRUE, !.error = TRUE]
           cancelled == [Row(w) EXCEPT !.status = "cancelled", !.cancelled = TRUE]
<1>1. Row(w) \in Rows
  BY DEF TypeOK, Row
<1>2. completed \in Rows /\ failed \in Rows /\ cancelled \in Rows
  BY <1>1, WrittenRows
<1>3. completed.status = "completed" /\ failed.status = "failed" /\ cancelled.status = "cancelled"
  BY <1>1 DEF Rows
<1>4. \E r \in {completed, failed, cancelled} : job' = [job EXCEPT ![req[w].job] = r]
  BY DEF Complete, MarkFailed, Cancel, Swap
<1> HIDE DEF completed, failed, cancelled
<1>5. QED
  BY <1>2, <1>3, <1>4 DEF Terminal

(* A job comes to run by being started.                                    *)
LEMMA JobsStart ==
  ASSUME TypeOK, [Next]_vars, NEW j \in Jobs, job[j].status # "running", job'[j].status = "running"
  PROVE  \E w \in Workers : Start(w) /\ req[w].job = j
<1>1. job'[j] # job[j]
  OBVIOUS
<1>2. ASSUME NEW w \in Workers, Start(w) PROVE req[w].job = j
  BY <1>1, <1>2 DEF Start, Swap, TypeOK
<1>3. ASSUME NEW w \in Workers, NEW i \in Jobs, InsertJob(w, i) PROVE FALSE
  BY <1>1, <1>3 DEF InsertJob, TypeOK, NewJob
<1>4. ASSUME NEW w \in Workers, Complete(w) \/ MarkFailed(w) \/ Cancel(w) PROVE FALSE
  <2>1. req[w].job \in Jobs
    BY <1>4 DEF Complete, MarkFailed, Cancel, At, TypeOK, RunPCs
  <2>2. QED
    BY <1>1, <1>4, <2>1, EndWritten DEF TypeOK, Terminal
<1>5. QED
  BY <1>1, <1>2, <1>3, <1>4, TableSteps
  DEF Next, CheckTarget, RefuseDuplicate, LoadJob, Crash, vars, table

(* What the runner of a job does next while the job goes on running.       *)
LEMMA RunnerMoves ==
  ASSUME TypeOK, KnowledgeInv, NEW w \in Workers, NEW j \in Jobs, Runs(w, j), Serve(w),
         job[j].status = "running", job'[j].status = "running"
  PROVE  /\ Runs(w, j)'
         /\ \/ At(w, "started") /\ At(w, "discovering")'
            \/ At(w, "discovering") /\ At(w, "failing")'
<1>1. KnowsInv(w)
  BY DEF KnowledgeInv
<1>2. RereadStarted(w) \/ (ExecutionError(w) /\ At(w, "discovering"))
  <2>1. ~At(w, "completed") /\ ~At(w, "superseded") /\ req[w].job = j
    BY <1>1 DEF KnowsInv, Terminal, Runs
  <2>2. ~Complete(w) /\ ~MarkFailed(w)
    BY <2>1, EndWritten DEF TypeOK, Terminal
  <2>3. QED
    BY <2>1, <2>2
    DEF Serve, Runs, RunPCs, At, InsertJob, Start, RefuseStart, Row, ReportCompletion,
        LoseCompletion, ReportCurrent, ExecutionError, MarkFailedTooLate, RefuseCancel, Cancel,
        LoseCancel, RefuseLostCancel
<1>3. CASE RereadStarted(w)
  BY <1>3 DEF RereadStarted, Goto, TypeOK, Runs, RunPCs, At
<1>4. CASE ExecutionError(w) /\ At(w, "discovering")
  BY <1>4 DEF ExecutionError, Goto, TypeOK, Runs, RunPCs, At
<1>5. QED
  BY <1>2, <1>3, <1>4

(* Nobody else, unless the process dies, moves the runner of a job.        *)
LEMMA RunnerWaits ==
  ASSUME ~MayCrash, TypeOK, [Next]_vars, NEW w \in Workers, NEW j \in Jobs, Runs(w, j), ~Serve(w)
  PROVE  req'[w] = req[w]
<1>1. req[w] # Idle /\ req[w].pc \notin {"idle", "creating", "loaded", "outrun"}
  BY DEF Runs, RunPCs, Idle
<1>2. CASE req' = req
  BY <1>2
<1>3. ASSUME NEW v \in Workers, NEW t \in Targets, CheckTarget(v, t) \/ RefuseDuplicate(v, t)
      PROVE  req'[w] = req[w]
  BY <1>1, <1>3 DEF CheckTarget, RefuseDuplicate, End, TypeOK
<1>4. ASSUME NEW v \in Workers, NEW i \in Jobs, NEW op \in {"run", "cancel"}, LoadJob(v, i, op)
      PROVE  req'[w] = req[w]
  BY <1>1, <1>4 DEF LoadJob, TypeOK
<1>5. ASSUME NEW v \in Workers, Serve(v) PROVE req'[w] = req[w]
  <2>1. v # w
    BY <1>5
  <2>2. PICK r : req' = [req EXCEPT ![v] = r]
    BY <1>5
    DEF Serve, InsertJob, Start, RefuseStart, RereadStarted, Complete, ReportCompletion,
        LoseCompletion, ReportCurrent, ExecutionError, MarkFailed, MarkFailedTooLate,
        RefuseCancel, Cancel, LoseCancel, RefuseLostCancel, Goto, End
  <2>3. QED
    BY <2>1, <2>2 DEF TypeOK
<1>6. QED
  BY <1>2, <1>3, <1>4, <1>5 DEF Next, Crash, vars

LEMMA OneRunnerStep ==
  ASSUME TypeOK, KnowledgeInv, [Next]_vars, NEW j \in Jobs, OneRunner(j)
  PROVE  OneRunner(j)'
<1>1. ASSUME NEW w \in Workers, NEW v \in Workers, Runs(w, j)', Runs(v, j)' PROVE w = v
  <2>1. CASE Runs(w, j) /\ Runs(v, j)
    BY <2>1 DEF OneRunner
  <2>2. ASSUME NEW u \in Workers, NEW x \in Workers, Start(u), req[u].job = j, Runs(x, j)
        PROVE  FALSE
    <3>1. job[j].status = "pending"
      BY <2>2 DEF Start, Swap, Row
    <3>2. job[j].status \in Past
      BY <2>2 DEF KnowledgeInv, KnowsInv, Runs
    <3>3. QED
      BY <3>1, <3>2 DEF Past
  <2>3. CASE Start(w) /\ Start(v)
    BY <2>3 DEF Start, At, Goto, TypeOK
  <2>4. QED
    BY <1>1, <2>1, <2>2, <2>3, RunnersStart
<1>2. ASSUME job'[j].status = "running", ~MayCrash
      PROVE  \E w \in Workers : /\ Runs(w, j)'
                                /\ req'[w].pc \in {"started", "discovering", "failing"}
  <2>1. CASE job[j].status = "running"
    <3>1. PICK w \in Workers : Runs(w, j) /\ req[w].pc \in {"started", "discovering", "failing"}
      BY <1>2, <2>1 DEF OneRunner
    <3>2. CASE Serve(w)
      BY <1>2, <2>1, <3>1, <3>2, RunnerMoves DEF At
    <3>3. CASE ~Serve(w)
      <4>1. req'[w] = req[w]
        BY <1>2, <3>1, <3>3, RunnerWaits
      <4>2. QED
        BY <3>1, <4>1 DEF Runs
    <3>4. QED
      BY <3>2, <3>3
  <2>2. CASE job[j].status # "running"
    <3>1. PICK w \in Workers : Start(w) /\ req[w].job = j
      BY <1>2, <2>2, JobsStart
    <3>2. req'[w].pc = "started" /\ req'[w].job = j
      BY <3>1 DEF Start, Goto, TypeOK
    <3>3. QED
      BY <3>2 DEF Runs, RunPCs
  <2>3. QED
    BY <2>1, <2>2
<1>3. QED
  BY <1>1, <1>2 DEF OneRunner

(* A job is run by one worker at a time, and a running one that no worker  *)
(* will complete or fail is the work of a crash.                           *)
THEOREM JobsHaveOneRunner == Spec => []RunnersInv
<1>1. Init => RunnersInv
  BY DEF Init, RunnersInv, OneRunner, Runs, RunPCs, Idle, Absent
<1>2. TypeOK /\ KnowledgeInv /\ RunnersInv /\ [Next]_vars => RunnersInv'
  BY OneRunnerStep DEF RunnersInv
<1>3. QED
  BY <1>1, <1>2, Typing, KnowledgeInvariant, PTL DEF Spec

-----------------------------------------------------------------------------
(* The end of runs                                                         *)

(* A job that is stored as running and that no worker runs: its worker     *)
(* died.                                                                   *)
Abandoned(j) == job[j].status = "running" /\ \A w \in Workers : ~Runs(w, j)

(* A job whose worker died is taken up by nobody, however many workers run *)
(* jobs beside it: only a cancellation ends it.                            *)
THEOREM AbandonedIsNotResumed ==
  Spec => [][\A j \in Jobs :
               Abandoned(j) => Abandoned(j)' \/ job'[j].status = "cancelled"]_vars
<1>1. ASSUME TypeOK, [Next]_vars, NEW j \in Jobs, Abandoned(j)
      PROVE  Abandoned(j)' \/ job'[j].status = "cancelled"
  <2>1. \A w \in Workers : ~Runs(w, j)'
    <3>1. ASSUME NEW w \in Workers, Start(w) PROVE req[w].job # j
      BY <1>1, <3>1 DEF Start, Swap, Row, Abandoned
    <3>2. QED
      BY <1>1, <3>1, RunnersStart DEF Abandoned
  <2>2. job'[j].status \in {"running", "cancelled"}
    <3>1. ASSUME NEW w \in Workers, Start(w) PROVE job'[j] = job[j]
      BY <1>1, <3>1 DEF Start, Swap, Row, TypeOK, Abandoned
    <3>2. ASSUME NEW w \in Workers, NEW i \in Jobs, InsertJob(w, i) PROVE job'[j] = job[j]
      BY <1>1, <3>2 DEF InsertJob, Free, TypeOK, Abandoned
    <3>3. ASSUME NEW w \in Workers, Complete(w) \/ MarkFailed(w) PROVE job'[j] = job[j]
      BY <1>1, <3>3
      DEF Complete, MarkFailed, Swap, TypeOK, Abandoned, Runs, RunPCs, At
    <3>4. ASSUME NEW w \in Workers, Cancel(w)
          PROVE  job'[j] = job[j] \/ job'[j].status = "cancelled"
      BY <1>1, <3>4 DEF Cancel, Swap, Row, TypeOK, Rows
    <3>5. QED
      BY <1>1, <3>1, <3>2, <3>3, <3>4, TableSteps
      DEF Abandoned, Next, CheckTarget, RefuseDuplicate, LoadJob, Crash, vars, table
  <2>3. QED
    BY <2>1, <2>2 DEF Abandoned
<1>2. TypeOK /\ [Next]_vars =>
        [\A j \in Jobs : Abandoned(j) => Abandoned(j)' \/ job'[j].status = "cancelled"]_vars
  BY <1>1
<1>3. QED
  BY <1>2, Typing, PTL DEF Spec

(* The worker that runs job j goes on doing so.  It is the weak fairness   *)
(* of its steps, with the execution itself in the place of their being     *)
(* enabled.                                                                *)
RunnerStep(j) == \E w \in Workers : Runs(w, j) /\ Serve(w)
RunnerGoesOn(j) ==
  []<>(\A w \in Workers : ~Runs(w, j)) \/ []<><<RunnerStep(j)>>_vars

Running(j) == job[j].status = "running"
RunnerAt(j, pc) == Running(j) /\ \E w \in Workers : Runs(w, j) /\ At(w, pc)
ToReread(j) == RunnerAt(j, "started")
ToComplete(j) == RunnerAt(j, "discovering")
ToFail(j) == RunnerAt(j, "failing")

LEMMA RunAdvances ==
  ASSUME ~MayCrash, TypeOK, KnowledgeInv, [Next]_vars, NEW j \in Jobs, OneRunner(j)
  PROVE  /\ ToFail(j) => ToFail(j)' \/ ~Running(j)'
         /\ ToComplete(j) => ToComplete(j)' \/ ToFail(j)' \/ ~Running(j)'
         /\ ToReread(j) /\ RunnerStep(j) => ToComplete(j)' \/ ToFail(j)' \/ ~Running(j)'
         /\ ToComplete(j) /\ RunnerStep(j) => ToFail(j)' \/ ~Running(j)'
         /\ ToFail(j) /\ RunnerStep(j) => ~Running(j)'
<1>1. ASSUME NEW w \in Workers, Runs(w, j), Serve(w), Running(j), Running(j)'
      PROVE  \/ At(w, "started") /\ ToComplete(j)'
             \/ At(w, "discovering") /\ ToFail(j)'
  BY <1>1, RunnerMoves DEF Running, RunnerAt, ToComplete, ToFail
<1>2. ASSUME NEW w \in Workers, Runs(w, j), Running(j)
      PROVE  /\ At(w, "failing") => ToFail(j)' \/ ~Running(j)'
             /\ At(w, "discovering") => ToComplete(j)' \/ ToFail(j)' \/ ~Running(j)'
  <2>1. CASE Serve(w)
    BY <1>1, <1>2, <2>1 DEF At
  <2>2. CASE ~Serve(w)
    <3>1. req'[w] = req[w]
      BY <1>2, <2>2, RunnerWaits
    <3>2. QED
      BY <1>2, <3>1 DEF At, Runs, RunnerAt, ToFail, ToComplete, Running
  <2>3. QED
    BY <2>1, <2>2
<1>3. ASSUME RunnerStep(j), Running(j), Running(j)'
      PROVE  /\ ToReread(j) => ToComplete(j)' \/ ToFail(j)'
             /\ ToComplete(j) => ToFail(j)'
             /\ ~ToFail(j)
  <2>1. PICK w \in Workers : Runs(w, j) /\ Serve(w)
    BY <1>3 DEF RunnerStep
  <2>2. \A v \in Workers : Runs(v, j) => v = w
    BY <2>1 DEF OneRunner
  <2>3. \/ At(w, "started") /\ ToComplete(j)'
        \/ At(w, "discovering") /\ ToFail(j)'
    BY <1>1, <1>3, <2>1
  <2>4. QED
    BY <2>2, <2>3 DEF ToReread, ToComplete, ToFail, RunnerAt, At
<1>4. QED
  BY <1>2, <1>3 DEF ToReread, ToComplete, ToFail, RunnerAt

(* While no worker dies and those that run the jobs go on, every run ends, *)
(* however many requests overlap with it and whatever raises in its try    *)
(* block.                                                                  *)
THEOREM RunsEndIfServed ==
  ASSUME ~MayCrash PROVE Spec /\ (\A j \in Jobs : RunnerGoesOn(j)) => RunsEnd
<1>1. ASSUME NEW j \in Jobs
      PROVE  Spec /\ RunnerGoesOn(j) => (job[j].status = "running" ~> job[j].status # "running")
  <2>1. OneRunner(j) /\ Running(j) => ToReread(j) \/ ToComplete(j) \/ ToFail(j)
    BY DEF OneRunner, Running, ToReread, ToComplete, ToFail, RunnerAt, At
  <2>2. ToReread(j) \/ ToComplete(j) \/ ToFail(j) =>
          Running(j) /\ ~(\A w \in Workers : ~Runs(w, j))
    BY DEF ToReread, ToComplete, ToFail, RunnerAt
  <2>3. TypeOK /\ KnowledgeInv /\ OneRunner(j) /\ [Next]_vars =>
          /\ ToFail(j) => ToFail(j)' \/ ~Running(j)'
          /\ ToComplete(j) => ToComplete(j)' \/ ToFail(j)' \/ ~Running(j)'
          /\ ToReread(j) /\ RunnerStep(j) => ToComplete(j)' \/ ToFail(j)' \/ ~Running(j)'
          /\ ToComplete(j) /\ RunnerStep(j) => ToFail(j)' \/ ~Running(j)'
          /\ ToFail(j) /\ RunnerStep(j) => ~Running(j)'
    BY RunAdvances
  <2>4. /\ job[j].status = "running" <=> Running(j)
        /\ job[j].status # "running" <=> ~Running(j)
    BY DEF Running
  <2>5. RunnersInv => OneRunner(j)
    BY DEF RunnersInv
  <2>6. QED
    BY <2>1, <2>2, <2>3, <2>4, <2>5, Typing, KnowledgeInvariant, JobsHaveOneRunner, PTL
    DEF Spec, RunnerGoesOn
<1>2. QED
  BY <1>1 DEF RunsEnd
=============================================================================
