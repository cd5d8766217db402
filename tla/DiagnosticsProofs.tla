-------------------------- MODULE DiagnosticsProofs --------------------------
(***************************************************************************)
(* Proofs about the diagnostic service, for any number of workers, with or *)
(* without crashes.                                                        *)
(***************************************************************************)
EXTENDS Diagnostics, TLAPS

Requests == [pc : PCs, op : {"run", "cancel"}, seen : Statuses]
Codes == {"none", "ok", "missing", "conflict", "failed"}
Replies == [code : Codes, status : Statuses \union {"absent"}]

(* Moving a worker on and ending its request keep the types of requests    *)
(* and replies.                                                            *)
LEMMA GotoTyped ==
  ASSUME TypeOK, NEW w \in Workers, NEW pc \in PCs, Goto(w, pc)
  PROVE  req' \in [Workers -> Requests] /\ reply' \in [Workers -> Replies]
  BY DEF TypeOK, Goto, Requests, Replies, Codes

LEMMA EndTyped ==
  ASSUME TypeOK, NEW w \in Workers, NEW code \in Codes,
         NEW reported \in Statuses \union {"absent"}, End(w, code, reported)
  PROVE  req' \in [Workers -> Requests] /\ reply' \in [Workers -> Replies]
  BY DEF TypeOK, End, Requests, Replies, Codes, Idle, PCs, Statuses

LEMMA TypeStep == TypeOK /\ [Next]_vars => TypeOK'
<1> SUFFICES ASSUME TypeOK, [Next]_vars PROVE TypeOK'
  OBVIOUS
<1> USE DEF TypeOK
<1>1. CASE DeleteDevice
  BY <1>1 DEF DeleteDevice, Phases
<1>2. ASSUME NEW w \in Workers, Create(w) PROVE TypeOK'
  BY <1>2, EndTyped DEF Create, Requests, Replies, Codes, Phases, Statuses
<1>3. ASSUME NEW w \in Workers, RunMissing(w) PROVE TypeOK'
  BY <1>3, EndTyped DEF RunMissing, row, Requests, Replies, Codes
<1>4. ASSUME NEW w \in Workers, NEW op \in {"run", "cancel"}, LoadRun(w, op) PROVE TypeOK'
  BY <1>4 DEF LoadRun, row, NoReply, PCs
<1>5. ASSUME NEW w \in Workers, Serve(w) PROVE TypeOK'
  <2>1. CASE Start(w)
    BY <2>1, GotoTyped DEF Start, Swap, Requests, Replies, Codes, PCs, ExecutePCs, Phases, Statuses
  <2>2. CASE Complete(w)
    BY <2>2, GotoTyped DEF Complete, Swap, Requests, Replies, Codes, PCs, ExecutePCs, Phases, Statuses
  <2>3. CASE LoseCompletion(w) \/ ExecutionError(w)
    BY <2>3, GotoTyped
    DEF LoseCompletion, ExecutionError, row, Requests, Replies, Codes, PCs, ExecutePCs
  <2>4. CASE MarkFailed(w)
    BY <2>4, EndTyped DEF MarkFailed, Swap, Requests, Replies, Codes, Phases, Statuses
  <2>5. CASE Cancel(w)
    BY <2>5, EndTyped DEF Cancel, Swap, Requests, Replies, Codes, Phases, Statuses
  <2>6. CASE ReportCurrent(w)
    <3>1. status \in Statuses \union {"absent"}
      BY <2>6 DEF ReportCurrent, Phases
    <3>2. QED
      BY <2>6, <3>1, EndTyped DEF ReportCurrent, row, Requests, Replies, Codes
  <2>7. CASE \/ RefuseStart(w) \/ ReportCompletion(w) \/ ReportMissing(w)
             \/ MarkFailedTooLate(w) \/ RefuseCancel(w)
    BY <2>7, EndTyped
    DEF RefuseStart, ReportCompletion, ReportMissing, MarkFailedTooLate, RefuseCancel,
        row, Requests, Replies, Codes, Statuses
  <2>8. QED
    BY <1>5, <2>1, <2>2, <2>3, <2>4, <2>5, <2>6, <2>7 DEF Serve
<1>6. ASSUME NEW w \in Workers, Crash(w) PROVE TypeOK'
  BY <1>6 DEF Crash, row, Idle, PCs, Statuses
<1>7. CASE UNCHANGED vars
  BY <1>7 DEF vars, row
<1>8. QED
  BY <1>1, <1>2, <1>3, <1>4, <1>5, <1>6, <1>7 DEF Next

(* Every reachable state is well typed, whatever the constants. *)
THEOREM Typing == Spec => []TypeOK
<1>1. Init => TypeOK
  <2>1. Idle \in Requests /\ NoReply \in Replies
    BY DEF Idle, NoReply, Requests, Replies, Codes, PCs, Statuses
  <2>2. QED
    BY <2>1 DEF Init, TypeOK, Requests, Replies, Codes, Phases
<1>2. QED
  BY <1>1, TypeStep, PTL DEF Spec

-----------------------------------------------------------------------------
(* The row                                                                 *)

(* Before it exists the row has no timestamp, and only a completed run has *)
(* results.                                                                *)
RowInv ==
  /\ StampsTellOutcome
  /\ status = "absent" => ~started /\ ~completed /\ ~cancelled /\ ~error
  /\ results # {} => status = "completed"

(* The steps of a worker that leave the row alone. *)
LEMMA RowSteps ==
  ASSUME TypeOK, NEW w \in Workers, Serve(w)
  PROVE  Start(w) \/ Complete(w) \/ MarkFailed(w) \/ Cancel(w) \/ UNCHANGED row
  BY DEF Serve, RefuseStart, ReportCompletion, LoseCompletion, ReportCurrent, ReportMissing,
         ExecutionError, MarkFailedTooLate, RefuseCancel

LEMMA RowStep == TypeOK /\ RowInv /\ [Next]_vars => RowInv'
<1> SUFFICES ASSUME TypeOK, RowInv, [Next]_vars PROVE RowInv'
  OBVIOUS
<1> USE DEF RowInv, StampsTellOutcome, Statuses
<1>1. CASE UNCHANGED row
  BY <1>1 DEF row
<1>2. CASE DeleteDevice
  BY <1>2 DEF DeleteDevice
<1>3. ASSUME NEW w \in Workers, Create(w) PROVE RowInv'
  BY <1>3 DEF Create
<1>4. ASSUME NEW w \in Workers, Start(w) PROVE RowInv'
  BY <1>4 DEF Start, Swap
<1>5. ASSUME NEW w \in Workers, Complete(w) PROVE RowInv'
  BY <1>5 DEF Complete, Swap
<1>6. ASSUME NEW w \in Workers, MarkFailed(w) PROVE RowInv'
  BY <1>6 DEF MarkFailed, Swap
<1>7. ASSUME NEW w \in Workers, Cancel(w) PROVE RowInv'
  BY <1>7 DEF Cancel, Swap, Active
<1>8. QED
  BY <1>1, <1>2, <1>3, <1>4, <1>5, <1>6, <1>7, RowSteps
  DEF Next, RunMissing, LoadRun, Crash, vars, row

LEMMA RowInvariant == Spec => []RowInv
<1>1. Init => RowInv
  BY DEF Init, RowInv, StampsTellOutcome, Statuses
<1>2. QED
  BY <1>1, RowStep, Typing, PTL DEF Spec

(* The timestamps and the error code tell the outcome in every reachable   *)
(* state.                                                                  *)
THEOREM OutcomesAreStamped == Spec => []StampsTellOutcome
<1>1. RowInv => StampsTellOutcome
  BY DEF RowInv
<1>2. QED
  BY <1>1, RowInvariant, PTL

-----------------------------------------------------------------------------
(* The runner                                                              *)

Runs(w) == req[w].pc \in ExecutePCs

(* A run that is executed was started; what a worker learned from its own  *)
(* commit still holds; a run has one runner.                               *)
RunnerInv ==
  /\ \A w \in Workers : Runs(w) => status \notin {"absent", "pending"}
  /\ \A w \in Workers : At(w, "completed") => status \in {"completed", "deleted"}
  /\ \A w \in Workers : At(w, "superseded") => status \in Terminal \union {"deleted"}
  /\ OneRunner

(* A running run is executed by the worker that will complete or fail it. *)
LEMMA RunnerStep == TypeOK /\ RunnerInv /\ [Next]_vars => RunnerInv'
<1> SUFFICES ASSUME TypeOK, RunnerInv, [Next]_vars PROVE RunnerInv'
  OBVIOUS
<1> USE DEF RunnerInv, OneRunner, Runs, At, ExecutePCs
<1>1. CASE DeleteDevice
  BY <1>1 DEF DeleteDevice, Statuses
<1>2. ASSUME NEW w \in Workers, Create(w) PROVE RunnerInv'
  <2>1. \A v \in Workers : ~Runs(v)
    BY <1>2 DEF Create
  <2>2. \A v \in Workers : ~Runs(v)'
    BY <1>2, <2>1 DEF Create, End, Idle, TypeOK
  <2>3. QED
    BY <1>2, <2>2 DEF Create
<1>3. ASSUME NEW w \in Workers, RunMissing(w) PROVE RunnerInv'
  BY <1>3 DEF RunMissing, End, TypeOK, row
<1>4. ASSUME NEW w \in Workers, NEW op \in {"run", "cancel"}, LoadRun(w, op) PROVE RunnerInv'
  <2>1. \A v \in Workers : req'[v].pc = req[v].pc \/ (~Runs(v) /\ req'[v].pc = "loaded")
    BY <1>4 DEF LoadRun, Idle, TypeOK
  <2>2. QED
    BY <1>4, <2>1 DEF LoadRun, row
<1>5. ASSUME NEW w \in Workers, Serve(w) PROVE RunnerInv'
  <2>1. CASE Start(w)
    <3>1. \A v \in Workers : ~Runs(v)
      BY <2>1 DEF Start, Swap
    <3>2. \A v \in Workers : Runs(v)' => v = w /\ req'[v].pc = "executing"
      BY <2>1, <3>1 DEF Start, Goto, TypeOK
    <3>3. req'[w].pc = "executing"
      BY <2>1 DEF Start, Goto, TypeOK
    <3>4. QED
      BY <2>1, <3>2, <3>3 DEF Start, Swap
  <2>2. CASE RefuseStart(w) \/ Cancel(w) \/ RefuseCancel(w)
    <3>1. \A v \in Workers : Runs(v)' <=> Runs(v)
      BY <2>2 DEF RefuseStart, Cancel, RefuseCancel, End, Idle, TypeOK
    <3>2. \A v \in Workers : Runs(v) => req'[v].pc = req[v].pc
      BY <2>2 DEF RefuseStart, Cancel, RefuseCancel, End, Idle, TypeOK
    <3>3. status' = status \/ status' = "cancelled"
      BY <2>2 DEF RefuseStart, Cancel, RefuseCancel, Swap, row
    <3>4. \A v \in Workers : At(v, "completed") => status' = status
      BY <2>2 DEF RefuseStart, Cancel, RefuseCancel, Swap, Active, row
    <3>5. QED
      BY <3>1, <3>2, <3>3, <3>4 DEF Terminal
  <2>3. CASE Complete(w)
    <3>1. \A v \in Workers : Runs(v)' => v = w
      BY <2>3 DEF Complete, Goto, TypeOK
    <3>2. req'[w].pc = "completed"
      BY <2>3 DEF Complete, Goto, TypeOK
    <3>3. QED
      BY <2>3, <3>1, <3>2 DEF Complete, Swap
  <2>4. CASE LoseCompletion(w)
    <3>1. \A v \in Workers : Runs(v)' => v = w
      BY <2>4 DEF LoseCompletion, Goto, TypeOK
    <3>2. req'[w].pc = "superseded"
      BY <2>4 DEF LoseCompletion, Goto, TypeOK
    <3>3. status \in Terminal \union {"deleted"}
      BY <2>4 DEF LoseCompletion, TypeOK, Phases, Statuses, Terminal
    <3>4. QED
      BY <2>4, <3>1, <3>2, <3>3 DEF LoseCompletion, row, Terminal
  <2>5. CASE ExecutionError(w)
    <3>1. \A v \in Workers : Runs(v)' => v = w
      BY <2>5 DEF ExecutionError, Goto, TypeOK
    <3>2. req'[w].pc = "failing"
      BY <2>5 DEF ExecutionError, Goto, TypeOK
    <3>3. QED
      BY <2>5, <3>1, <3>2 DEF ExecutionError, row
  <2>6. CASE \/ ReportCompletion(w) \/ ReportCurrent(w) \/ ReportMissing(w)
             \/ MarkFailed(w) \/ MarkFailedTooLate(w)
    <3>1. \A v \in Workers : Runs(v) => v = w
      BY <2>6 DEF ReportCompletion, ReportCurrent, ReportMissing, MarkFailed, MarkFailedTooLate
    <3>2. \A v \in Workers : ~Runs(v)'
      BY <2>6, <3>1 DEF ReportCompletion, ReportCurrent, ReportMissing, MarkFailed,
                        MarkFailedTooLate, End, Idle, TypeOK
    <3>3. status' # "running"
      BY <2>6 DEF ReportCompletion, ReportCurrent, ReportMissing, MarkFailed,
                  MarkFailedTooLate, Swap, row, Terminal
    <3>4. QED
      BY <3>2, <3>3
  <2>7. QED
    BY <1>5, <2>1, <2>2, <2>3, <2>4, <2>5, <2>6 DEF Serve
<1>6. ASSUME NEW w \in Workers, Crash(w) PROVE RunnerInv'
  <2>1. \A v \in Workers : Runs(v)' => Runs(v) /\ req'[v].pc = req[v].pc
    BY <1>6 DEF Crash, Idle, TypeOK
  <2>2. QED
    BY <1>6, <2>1 DEF Crash, row
<1>7. CASE UNCHANGED vars
  BY <1>7 DEF vars, row
<1>8. QED
  BY <1>1, <1>2, <1>3, <1>4, <1>5, <1>6, <1>7 DEF Next

LEMMA RunnerInvariant == Spec => []RunnerInv
<1>1. Init => RunnerInv
  BY DEF Init, RunnerInv, OneRunner, Runs, At, Idle, ExecutePCs
<1>2. QED
  BY <1>1, RunnerStep, Typing, PTL DEF Spec

(* At most one worker executes the run, and only a crash leaves a running  *)
(* run without one that will complete or fail it.                          *)
THEOREM RunsHaveOneRunner == Spec => []OneRunner
<1>1. RunnerInv => OneRunner
  BY DEF RunnerInv
<1>2. QED
  BY <1>1, RunnerInvariant, PTL

-----------------------------------------------------------------------------
(* Replies                                                                 *)

(* The row's status moves forward only: a terminal one stays until the row *)
(* is deleted, and a run that has started never waits again.               *)
LEMMA Forward ==
  ASSUME TypeOK, [Next]_vars
  PROVE  /\ status \in Terminal => status' \in {status, "deleted"}
         /\ status = "deleted" => status' = "deleted"
<1>1. CASE UNCHANGED row
  BY <1>1 DEF row
<1>2. CASE DeleteDevice
  BY <1>2 DEF DeleteDevice, Statuses
<1>3. ASSUME NEW w \in Workers, Create(w) \/ Start(w) \/ Complete(w) \/ MarkFailed(w) \/ Cancel(w)
      PROVE  status \notin Terminal \union {"deleted"}
  BY <1>3 DEF Create, Start, Complete, MarkFailed, Cancel, Swap, Active, Terminal
<1>4. QED
  BY <1>1, <1>2, <1>3, RowSteps DEF Next, RunMissing, LoadRun, Crash, vars, row

Holds(r, s) ==
  /\ r.code = "ok" => r.status \in Terminal \union {"pending"}
  /\ r.code = "ok" /\ r.status \in Terminal => s \in {r.status, "deleted"}
  /\ r.code = "failed" => s \in Terminal \union {"deleted"}

(* A reply that holds goes on holding, and an ending that reports the      *)
(* truth adds one that does.                                               *)
LEMMA ReplyKept ==
  ASSUME TypeOK, RepliesAreFinal, [Next]_vars, NEW w \in Workers
  PROVE  Holds(reply[w], status')
  BY Forward DEF RepliesAreFinal, Holds, Terminal

LEMMA ReplyEnded ==
  ASSUME TypeOK, RepliesAreFinal, [Next]_vars, NEW w \in Workers,
         NEW code, NEW reported, End(w, code, reported),
         Holds([code |-> code, status |-> reported], status')
  PROVE  RepliesAreFinal'
<1> SUFFICES ASSUME NEW v \in Workers PROVE Holds(reply'[v], status')
  BY DEF RepliesAreFinal, Holds
<1>1. reply'[v] = IF v = w THEN [code |-> code, status |-> reported] ELSE reply[v]
  BY DEF End, TypeOK
<1>2. QED
  BY <1>1, ReplyKept

LEMMA RepliesStep == TypeOK /\ RunnerInv /\ RepliesAreFinal /\ [Next]_vars => RepliesAreFinal'
<1> SUFFICES ASSUME TypeOK, RunnerInv, RepliesAreFinal, [Next]_vars PROVE RepliesAreFinal'
  OBVIOUS
<1> USE DEF Terminal
<1>1. CASE UNCHANGED reply
  BY <1>1, ReplyKept DEF RepliesAreFinal, Holds
<1>2. ASSUME NEW w \in Workers, Create(w) PROVE RepliesAreFinal'
  BY <1>2, ReplyEnded DEF Create, Holds
<1>3. ASSUME NEW w \in Workers, RunMissing(w) PROVE RepliesAreFinal'
  BY <1>3, ReplyEnded DEF RunMissing, Holds
<1>4. ASSUME NEW w \in Workers, NEW op \in {"run", "cancel"}, LoadRun(w, op) PROVE RepliesAreFinal'
  <2>1. \A v \in Workers : reply'[v] = IF v = w THEN NoReply ELSE reply[v]
    BY <1>4 DEF LoadRun, TypeOK
  <2>2. QED
    BY <2>1, ReplyKept DEF RepliesAreFinal, Holds, NoReply
<1>5. ASSUME NEW w \in Workers, Serve(w) PROVE RepliesAreFinal'
  <2>1. CASE RefuseStart(w) \/ RefuseCancel(w)
    BY <2>1, ReplyEnded DEF RefuseStart, RefuseCancel, Holds
  <2>2. CASE ReportCompletion(w)
    <3>1. status' = "completed"
      BY <2>2 DEF ReportCompletion, RunnerInv, row
    <3>2. QED
      BY <2>2, <3>1, ReplyEnded DEF ReportCompletion, Holds
  <2>3. CASE ReportCurrent(w)
    <3>1. status \in Terminal /\ status' = status
      BY <2>3 DEF ReportCurrent, RunnerInv, row
    <3>2. QED
      BY <2>3, <3>1, ReplyEnded DEF ReportCurrent, Holds
  <2>4. CASE ReportMissing(w)
    BY <2>4, ReplyEnded DEF ReportMissing, Holds, row
  <2>5. CASE MarkFailed(w)
    BY <2>5, ReplyEnded DEF MarkFailed, Swap, Holds
  <2>6. CASE MarkFailedTooLate(w)
    <3>1. status' \in Terminal \union {"deleted"}
      BY <2>6 DEF MarkFailedTooLate, RunnerInv, Runs, At, ExecutePCs, TypeOK, Phases, Statuses, row
    <3>2. QED
      BY <2>6, <3>1, ReplyEnded DEF MarkFailedTooLate, Holds
  <2>7. CASE Cancel(w)
    BY <2>7, ReplyEnded DEF Cancel, Swap, Holds
  <2>8. QED
    BY <1>5, <1>1, <2>1, <2>2, <2>3, <2>4, <2>5, <2>6, <2>7
    DEF Serve, Start, Complete, LoseCompletion, ExecutionError, Goto
<1>6. QED
  BY <1>1, <1>2, <1>3, <1>4, <1>5 DEF Next, DeleteDevice, Crash, vars

(* What a client was told about a run stays true until it is deleted.      *)
THEOREM RepliesStayTrue == Spec => []RepliesAreFinal
<1>1. Init => RepliesAreFinal
  BY DEF Init, RepliesAreFinal, NoReply
<1>2. QED
  BY <1>1, RepliesStep, Typing, RunnerInvariant, PTL DEF Spec

-----------------------------------------------------------------------------
(* Refinement                                                              *)

LEMMA LifecycleStep ==
  TypeOK /\ RowInv /\ [Next]_vars => [Lifecycle!Next]_(Lifecycle!lifecycleVars)
<1> SUFFICES ASSUME TypeOK, RowInv, [Next]_vars
             PROVE  Lifecycle!Next \/ UNCHANGED row
  BY DEF Lifecycle!lifecycleVars, row
<1> USE DEF Lifecycle!Next, Lifecycle!Move, RowInv
<1>1. CASE DeleteDevice
  BY <1>1 DEF DeleteDevice, Statuses, Lifecycle!Delete
<1>2. ASSUME NEW w \in Workers, Create(w) PROVE Lifecycle!Next
  BY <1>2 DEF Create, Lifecycle!Create
<1>3. ASSUME NEW w \in Workers, Start(w) PROVE Lifecycle!Next
  BY <1>3 DEF Start, Swap, Lifecycle!Start
<1>4. ASSUME NEW w \in Workers, Complete(w) PROVE Lifecycle!Next
  BY <1>4 DEF Complete, Swap, Lifecycle!Complete
<1>5. ASSUME NEW w \in Workers, MarkFailed(w) PROVE Lifecycle!Next
  BY <1>5 DEF MarkFailed, Swap, Lifecycle!Fail
<1>6. ASSUME NEW w \in Workers, Cancel(w) PROVE Lifecycle!Next
  BY <1>6 DEF Cancel, Swap, Active, Lifecycle!Cancel
<1>7. QED
  BY <1>1, <1>2, <1>3, <1>4, <1>5, <1>6, RowSteps
  DEF Next, RunMissing, LoadRun, Crash, vars, row

(* The run implements the lifecycle: no interleaving of requests starts it *)
(* twice, shows results of a run that did not complete, or leaves a        *)
(* terminal state other than by deletion.                                  *)
THEOREM ImplementsLifecycle == Spec => LifecycleSpec
<1>1. Init => Lifecycle!Init
  BY DEF Init, Lifecycle!Init
<1>2. QED
  BY <1>1, LifecycleStep, Typing, RowInvariant, PTL
  DEF Spec, LifecycleSpec, Lifecycle!Spec

(* What an analysis reads of a completed run is what any later request     *)
(* reads: its results stay as they were stored until they are deleted.     *)
THEOREM ResultsAreKept ==
  Spec => [][status = "completed" => status' = "deleted" \/ UNCHANGED <<status, results>>]_vars
<1>1. TypeOK /\ [Next]_vars =>
        (status = "completed" => status' = "deleted" \/ UNCHANGED <<status, results>>)
  <2> SUFFICES ASSUME TypeOK, [Next]_vars, status = "completed"
               PROVE  status' = "deleted" \/ UNCHANGED <<status, results>>
    OBVIOUS
  <2>1. CASE UNCHANGED row
    BY <2>1 DEF row
  <2>2. ASSUME NEW w \in Workers, Serve(w) PROVE UNCHANGED row
    BY <2>2, RowSteps DEF Start, Complete, MarkFailed, Cancel, Swap, Active
  <2>3. ASSUME NEW w \in Workers, Create(w) PROVE FALSE
    BY <2>3 DEF Create
  <2>4. CASE DeleteDevice
    BY <2>4 DEF DeleteDevice
  <2>5. QED
    BY <2>1, <2>2, <2>3, <2>4 DEF Next, LoadRun, RunMissing, Crash, vars
<1>2. QED
  BY <1>1, Typing, PTL DEF Spec

-----------------------------------------------------------------------------
(* The end of executions                                                   *)

(* A run that is stored as running and that no worker executes: its worker *)
(* died.                                                                   *)
Abandoned == status = "running" /\ \A w \in Workers : ~Runs(w)

(* A run whose worker died is taken up by nobody, however many workers     *)
(* start runs beside it: only a cancellation or the deletion of its device *)
(* ends it.                                                                *)
THEOREM AbandonedIsNotResumed ==
  Spec => [][Abandoned => Abandoned' \/ status' \in {"cancelled", "deleted"}]_vars
<1>1. TypeOK /\ [Next]_vars =>
        (Abandoned => Abandoned' \/ status' \in {"cancelled", "deleted"})
  <2> SUFFICES ASSUME TypeOK, [Next]_vars, Abandoned
               PROVE  Abandoned' \/ status' \in {"cancelled", "deleted"}
    OBVIOUS
  <2> USE DEF Abandoned, Runs, ExecutePCs
  <2>1. CASE DeleteDevice
    BY <2>1 DEF DeleteDevice
  <2>2. ASSUME NEW w \in Workers, NEW op \in {"run", "cancel"}, LoadRun(w, op) PROVE Abandoned'
    BY <2>2 DEF LoadRun, TypeOK, row
  <2>3. ASSUME NEW w \in Workers, Serve(w) PROVE Abandoned' \/ status' = "cancelled"
    <3>1. RefuseStart(w) \/ Cancel(w) \/ RefuseCancel(w)
      BY <2>3
      DEF Serve, At, Start, Swap, Complete, ReportCompletion, LoseCompletion, ReportCurrent,
          ReportMissing, ExecutionError, MarkFailed, MarkFailedTooLate
    <3>2. CASE Cancel(w)
      BY <3>2 DEF Cancel, Swap
    <3>3. CASE RefuseStart(w) \/ RefuseCancel(w)
      BY <3>3 DEF RefuseStart, RefuseCancel, End, Idle, TypeOK, row
    <3>4. QED
      BY <3>1, <3>2, <3>3
  <2>4. ASSUME NEW w \in Workers, RunMissing(w) \/ Crash(w) PROVE Abandoned'
    <3>1. req' = [req EXCEPT ![w] = Idle] /\ status' = status
      BY <2>4 DEF RunMissing, Crash, End, row
    <3>2. QED
      BY <3>1 DEF Idle, TypeOK
  <2>5. CASE UNCHANGED vars
    BY <2>5 DEF vars, row
  <2>6. QED
    BY <2>1, <2>2, <2>3, <2>4, <2>5 DEF Next, Create
<1>2. QED
  BY <1>1, Typing, PTL DEF Spec

(* The worker that executes the run goes on doing so.  It is the weak      *)
(* fairness of its steps, with the execution itself in the place of their  *)
(* being enabled.                                                          *)
ServesRun == \E w \in Workers : Runs(w) /\ Serve(w)
RunnerGoesOn == []<>(\A w \in Workers : ~Runs(w)) \/ []<><<ServesRun>>_vars

Running == status = "running"
ToComplete == Running /\ \E w \in Workers : At(w, "executing")
ToFail == Running /\ \E w \in Workers : At(w, "failing")

LEMMA ExecutionAdvances ==
  ASSUME ~MayCrash, TypeOK, RunnerInv, [Next]_vars
  PROVE  /\ ToFail => ToFail' \/ ~Running'
         /\ ToComplete /\ ServesRun => ToFail' \/ ~Running'
         /\ ToFail /\ ServesRun => ~Running'
<1>1. ASSUME NEW w \in Workers, Runs(w), Serve(w), Running, Running'
      PROVE  At(w, "executing") /\ ToFail'
  <2>1. ExecutionError(w) /\ At(w, "executing")
    BY <1>1
    DEF Serve, Runs, At, ExecutePCs, RunnerInv, Terminal, Start, RefuseStart, Swap, Complete,
        ReportCompletion, LoseCompletion, ReportCurrent, ReportMissing, ExecutionError,
        MarkFailed, MarkFailedTooLate, Cancel, RefuseCancel, Running
  <2>2. req'[w].pc = "failing"
    BY <2>1 DEF ExecutionError, Goto, TypeOK
  <2>3. QED
    BY <1>1, <2>1, <2>2 DEF ToFail, Running, At
<1>2. ASSUME NEW w \in Workers, At(w, "failing"), Running, Running'
      PROVE  At(w, "failing")'
  <2>1. ~Serve(w)
    BY <1>1, <1>2 DEF Runs, At, ExecutePCs
  <2>2. req'[w] = req[w]
    BY <1>2, <2>1
    DEF Next, Serve, vars, At, Idle, TypeOK, DeleteDevice, Create, RunMissing, LoadRun, Crash,
        Start, RefuseStart, Complete, ReportCompletion, LoseCompletion, ReportCurrent,
        ReportMissing, ExecutionError, MarkFailed, MarkFailedTooLate, Cancel, RefuseCancel,
        Goto, End
  <2>3. QED
    BY <1>2, <2>2 DEF At
<1>3. \A w, v \in Workers : Runs(w) /\ Runs(v) => w = v
  BY DEF RunnerInv, OneRunner, Runs
<1>4. QED
  BY <1>1, <1>2, <1>3 DEF ToFail, ToComplete, ServesRun, Runs, At, ExecutePCs

(* While no worker dies and the one that executes the run goes on, every   *)
(* execution ends, however many requests overlap with it and whatever      *)
(* raises in its try block.                                                *)
THEOREM ExecutionsEndIfServed == ASSUME ~MayCrash PROVE Spec /\ RunnerGoesOn => ExecutionEnds
<1>1. RunnerInv /\ Running => ToComplete \/ ToFail
  BY DEF RunnerInv, OneRunner, Running, ToComplete, ToFail, Runs, At, ExecutePCs
<1>2. ToComplete \/ ToFail => Running /\ ~(\A w \in Workers : ~Runs(w))
  BY DEF ToComplete, ToFail, Runs, At, ExecutePCs
<1>3. TypeOK /\ RunnerInv /\ [Next]_vars =>
        /\ ToFail => ToFail' \/ ~Running'
        /\ ToComplete /\ ServesRun => ToFail' \/ ~Running'
        /\ ToFail /\ ServesRun => ~Running'
  BY ExecutionAdvances
<1>4. /\ status = "running" <=> Running
      /\ status # "running" <=> ~Running
  BY DEF Running
<1>5. QED
  BY <1>1, <1>2, <1>3, <1>4, Typing, RunnerInvariant, PTL DEF Spec, RunnerGoesOn, ExecutionEnds
=============================================================================
