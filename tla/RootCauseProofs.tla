--------------------------- MODULE RootCauseProofs ---------------------------
(***************************************************************************)
(* Proofs about the root-cause service, for any number of workers, checks  *)
(* and results, with or without crashes.                                   *)
(***************************************************************************)
EXTENDS RootCause, TLAPS

Requests == [pc : PCs, op : {"run", "cancel"}, seen : Statuses]
Codes == {"none", "ok", "missing", "conflict", "failed"}
Replies == [code : Codes, status : Statuses \union {"absent"}]
Findings == [rule : Checks, evidence : SUBSET Results]

(* The steps that end a request and leave the analysis alone, and those    *)
(* that only move a worker on.                                             *)
Ends(w) ==
  \/ RefuseCreate(w) \/ InsertAnother(w) \/ InsertOrphan(w) \/ Missing(w)
  \/ RefuseStart(w) \/ RefuseCancel(w)
  \/ Report(w) \/ ReportCurrent(w) \/ ReportMissing(w) \/ MarkFailedTooLate(w)
Moves(w) == Evaluate(w) \/ LoseCompletion(w) \/ ExecutionError(w)

LEMMA GotoTyped ==
  ASSUME TypeOK, NEW w \in Workers, NEW pc \in PCs, Goto(w, pc)
  PROVE  req' \in [Workers -> Requests] /\ reply' \in [Workers -> Replies]
  BY DEF TypeOK, Goto, Requests, Replies, Codes

LEMMA EndTyped ==
  ASSUME TypeOK, NEW w \in Workers, NEW code \in Codes,
         NEW reported \in Statuses \union {"absent"}, End(w, code, reported)
  PROVE  req' \in [Workers -> Requests] /\ reply' \in [Workers -> Replies]
  BY DEF TypeOK, End, Requests, Replies, Codes, Idle, PCs, Statuses

(* An ending that leaves the analysis alone reports a status of the type,  *)
(* and nothing else changes.                                               *)
LEMMA EndsTyped ==
  ASSUME TypeOK, NEW w \in Workers, Ends(w)
  PROVE  /\ \E code \in Codes, reported \in Statuses \union {"absent"} : End(w, code, reported)
         /\ UNCHANGED <<run, verdict, row>>
<1>1. CASE RefuseCreate(w)
  BY <1>1 DEF RefuseCreate, Codes
<1>2. CASE ReportCurrent(w)
  BY <1>2 DEF ReportCurrent, Codes, TypeOK, Phases
<1>3. CASE Report(w)
  <2>1. PICK pc \in {"completed", "cancelled"} : End(w, "ok", pc)
    BY <1>3 DEF Report
  <2>2. QED
    BY <1>3, <2>1 DEF Report, Codes, Statuses
<1>4. CASE InsertAnother(w)
  BY <1>4 DEF InsertAnother, Codes, Statuses
<1>5. CASE InsertOrphan(w) \/ Missing(w) \/ RefuseStart(w) \/ RefuseCancel(w)
  BY <1>5 DEF InsertOrphan, Missing, RefuseStart, RefuseCancel, Codes
<1>6. CASE ReportMissing(w) \/ MarkFailedTooLate(w)
  BY <1>6 DEF ReportMissing, MarkFailedTooLate, Codes
<1>7. QED
  BY <1>1, <1>2, <1>3, <1>4, <1>5, <1>6 DEF Ends

LEMMA RulesTyped == RuleFindings \subseteq Findings
  BY DEF RuleFindings, Evidence, Findings

LEMMA TypeStep == TypeOK /\ [Next]_analysisVars => TypeOK'
<1> SUFFICES ASSUME TypeOK, [Next]_analysisVars PROVE TypeOK'
  OBVIOUS
<1> USE DEF TypeOK
<1>1. CASE FinishDiagnostics
  BY <1>1 DEF FinishDiagnostics, row
<1>2. CASE DeleteDevice
  BY <1>2 DEF DeleteDevice, Phases
<1>3. ASSUME NEW w \in Workers, Ends(w) PROVE TypeOK'
  BY <1>3, EndsTyped, EndTyped DEF row, Requests, Replies, Codes
<1>4. ASSUME NEW w \in Workers, CheckRun(w) PROVE TypeOK'
  BY <1>4 DEF CheckRun, row, NoReply, PCs
<1>5. ASSUME NEW w \in Workers, NEW op \in {"run", "cancel"}, Load(w, op) PROVE TypeOK'
  BY <1>5 DEF Load, row, NoReply, PCs
<1>6. ASSUME NEW w \in Workers, Serve(w) PROVE TypeOK'
  <2>1. CASE Insert(w)
    BY <2>1, EndTyped DEF Insert, Swap, Requests, Replies, Codes, Phases, Statuses
  <2>2. CASE Start(w)
    BY <2>2, GotoTyped DEF Start, Swap, Requests, Replies, Codes, PCs, ExecutePCs, Phases, Statuses
  <2>3. CASE Moves(w)
    BY <2>3, GotoTyped
    DEF Moves, Evaluate, LoseCompletion, ExecutionError, row, Requests, Replies, Codes,
        PCs, ExecutePCs
  <2>4. CASE Complete(w)
    BY <2>4, GotoTyped, RulesTyped
    DEF Complete, Swap, Requests, Replies, Codes, PCs, ExecutePCs, Phases, Statuses, Findings
  <2>5. CASE MarkFailed(w)
    BY <2>5, EndTyped DEF MarkFailed, Swap, Requests, Replies, Codes, Phases, Statuses
  <2>6. CASE Cancel(w)
    BY <2>6, GotoTyped DEF Cancel, Swap, Requests, Replies, Codes, PCs, Phases, Statuses
  <2>7. QED
    BY <1>3, <1>6, <2>1, <2>2, <2>3, <2>4, <2>5, <2>6 DEF Serve, Ends, Moves
<1>7. ASSUME NEW w \in Workers, Crash(w) PROVE TypeOK'
  BY <1>7 DEF Crash, row, Idle, PCs, Statuses
<1>8. CASE UNCHANGED analysisVars
  BY <1>8 DEF analysisVars, row
<1>9. QED
  BY <1>1, <1>2, <1>3, <1>4, <1>5, <1>6, <1>7, <1>8 DEF Next, Request, Ends

(* Every reachable state is well typed, whatever the constants. *)
THEOREM Typing == Spec => []TypeOK
<1>1. Init => TypeOK
  <2>1. Idle \in Requests /\ NoReply \in Replies
    BY DEF Idle, NoReply, Requests, Replies, Codes, PCs, Statuses
  <2>2. QED
    BY <2>1 DEF Init, TypeOK, Requests, Replies, Codes, Phases
<1>2. QED
  BY <1>1, TypeStep, PTL DEF Spec

-----------------------------------------------------------------------------
(* The row                                                                 *)

(* The timestamps and the error code tell the outcome, also before there   *)
(* is one; the findings are the rules' on completion, and none otherwise.  *)
RowInv ==
  /\ status \in Statuses \union {"absent"} =>
       /\ completed <=> status \in {"completed", "failed"}
       /\ cancelled <=> status = "cancelled"
       /\ error <=> status = "failed"
  /\ findings = IF status = "completed" THEN RuleFindings ELSE {}

(* The rules depend on the results only, and those do not change. *)
LEMMA RulesFixed == [Next]_analysisVars => verdict' = verdict /\ RuleFindings' = RuleFindings
<1> SUFFICES ASSUME [Next]_analysisVars PROVE verdict' = verdict
  BY DEF RuleFindings, Evidence
<1>1. ASSUME NEW w \in Workers, Serve(w) PROVE verdict' = verdict
  BY <1>1 DEF Serve, Insert, InsertAnother, InsertOrphan, Start, RefuseStart, Evaluate, Complete,
              LoseCompletion, Report, ReportCurrent, ReportMissing, ExecutionError, MarkFailed,
              MarkFailedTooLate, Cancel, RefuseCancel
<1>2. QED
  BY <1>1 DEF Next, FinishDiagnostics, DeleteDevice, Request, CheckRun, RefuseCreate, Missing,
              Load, Crash, analysisVars

(* The steps that change the analysis, and all the others. *)
LEMMA RowSteps ==
  ASSUME [Next]_analysisVars
  PROVE  \/ DeleteDevice
         \/ \E w \in Workers : Insert(w) \/ Start(w) \/ Complete(w) \/ MarkFailed(w) \/ Cancel(w)
         \/ UNCHANGED row
<1>1. ASSUME NEW w \in Workers, Serve(w)
      PROVE  Insert(w) \/ Start(w) \/ Complete(w) \/ MarkFailed(w) \/ Cancel(w) \/ UNCHANGED row
  BY <1>1 DEF Serve, InsertAnother, InsertOrphan, RefuseStart, Evaluate, LoseCompletion, Report,
              ReportCurrent, ReportMissing, ExecutionError, MarkFailedTooLate, RefuseCancel
<1>2. QED
  BY <1>1 DEF Next, FinishDiagnostics, Request, CheckRun, RefuseCreate, Missing, Load, Crash,
              analysisVars

LEMMA RowStep == TypeOK /\ RowInv /\ [Next]_analysisVars => RowInv'
<1> SUFFICES ASSUME TypeOK, RowInv, [Next]_analysisVars PROVE RowInv'
  OBVIOUS
<1> USE RulesFixed DEF RowInv, Statuses
<1>1. CASE UNCHANGED row
  BY <1>1 DEF row
<1>2. CASE DeleteDevice
  BY <1>2 DEF DeleteDevice, TypeOK, Phases
<1>3. ASSUME NEW w \in Workers, Insert(w) PROVE RowInv'
  BY <1>3 DEF Insert, Swap
<1>4. ASSUME NEW w \in Workers, Start(w) PROVE RowInv'
  BY <1>4 DEF Start, Swap
<1>5. ASSUME NEW w \in Workers, Complete(w) PROVE RowInv'
  BY <1>5 DEF Complete, Swap
<1>6. ASSUME NEW w \in Workers, MarkFailed(w) PROVE RowInv'
  BY <1>6 DEF MarkFailed, Swap
<1>7. ASSUME NEW w \in Workers, Cancel(w) PROVE RowInv'
  BY <1>7 DEF Cancel, Swap, Active
<1>8. QED
  BY <1>1, <1>2, <1>3, <1>4, <1>5, <1>6, <1>7, RowSteps

LEMMA RowInvariant == Spec => []RowInv
<1>1. Init => RowInv
  BY DEF Init, RowInv, Statuses
<1>2. QED
  BY <1>1, RowStep, Typing, PTL DEF Spec

(* In every reachable state the timestamps, the error code and the stored  *)
(* findings tell the outcome.                                              *)
THEOREM OutcomesAreRecorded == Spec => []OutcomeIsRecorded
<1>1. TypeOK /\ RowInv => OutcomeIsRecorded
  <2> SUFFICES ASSUME TypeOK, RowInv PROVE OutcomeIsRecorded
    OBVIOUS
  <2>1. ASSUME status = "completed", NEW r \in Results, verdict[r] # Passed
        PROVE  \E f \in findings : f.rule = verdict[r] /\ r \in f.evidence
    <3> DEFINE f == [rule |-> verdict[r], evidence |-> Evidence(verdict[r])]
    <3>1. verdict[r] \in Checks /\ r \in Evidence(verdict[r])
      BY <2>1 DEF TypeOK, Evidence
    <3>2. f \in findings
      BY <2>1, <3>1 DEF RowInv, RuleFindings
    <3>3. QED
      BY <3>1, <3>2
  <2>2. ASSUME NEW f \in findings, NEW r \in f.evidence PROVE verdict[r] = f.rule
    BY <2>2 DEF RowInv, RuleFindings, Evidence
  <2>3. QED
    BY <2>1, <2>2 DEF OutcomeIsRecorded, RowInv
<1>2. QED
  BY <1>1, Typing, RowInvariant, PTL

-----------------------------------------------------------------------------
(* The runner                                                              *)

Runs(w) == req[w].pc \in ExecutePCs

(* An analysis that is executed was started; what a worker learned from    *)
(* its own commit still holds; an analysis has one runner.                 *)
RunnerInv ==
  /\ \A w \in Workers : Runs(w) => status \notin {"absent", "pending"}
  /\ \A w \in Workers : At(w, "completed") => status \in {"completed", "deleted"}
  /\ \A w \in Workers : At(w, "cancelled") => status \in {"cancelled", "deleted"}
  /\ \A w \in Workers : At(w, "superseded") => status \in Terminal \union {"deleted"}
  /\ OneAnalyst

(* A running analysis is executed by the worker that will end it. *)
LEMMA RunnerStep == TypeOK /\ RunnerInv /\ [Next]_analysisVars => RunnerInv'
<1> SUFFICES ASSUME TypeOK, RunnerInv, [Next]_analysisVars PROVE RunnerInv'
  OBVIOUS
<1> USE DEF RunnerInv, OneAnalyst, Runs, At, ExecutePCs
<1>1. CASE FinishDiagnostics
  BY <1>1 DEF FinishDiagnostics, row
<1>2. CASE DeleteDevice
  BY <1>2 DEF DeleteDevice, Statuses
<1>3. ASSUME NEW w \in Workers, CheckRun(w) \/ \E op \in {"run", "cancel"} : Load(w, op)
      PROVE  RunnerInv'
  <2>1. \A v \in Workers : req'[v].pc = req[v].pc \/ (~Runs(v) /\ req'[v].pc \in {"creating", "loaded"})
    BY <1>3 DEF CheckRun, Load, Idle, TypeOK
  <2>2. QED
    BY <1>3, <2>1 DEF CheckRun, Load, row
<1>4. ASSUME NEW w \in Workers, Missing(w) \/ RefuseCreate(w) PROVE RunnerInv'
  <2>1. \A v \in Workers : req'[v].pc = req[v].pc
    BY <1>4 DEF Missing, RefuseCreate, End, Idle, TypeOK
  <2>2. QED
    BY <1>4, <2>1 DEF Missing, RefuseCreate, row
<1>5. ASSUME NEW w \in Workers, Serve(w) PROVE RunnerInv'
  <2>1. CASE Insert(w)
    <3>1. \A v \in Workers : ~Runs(v)
      BY <2>1 DEF Insert, Swap
    <3>2. \A v \in Workers : ~Runs(v)' /\ (req'[v].pc = req[v].pc \/ req'[v].pc = "idle")
      BY <2>1, <3>1 DEF Insert, End, Idle, TypeOK
    <3>3. \A v \in Workers : ~At(v, "cancelled")
      BY <2>1 DEF Insert, Swap
    <3>4. QED
      BY <2>1, <3>2, <3>3 DEF Insert, Swap
  <2>2. CASE Start(w)
    <3>1. \A v \in Workers : ~Runs(v) /\ ~At(v, "cancelled")
      BY <2>2 DEF Start, Swap
    <3>2. \A v \in Workers : ~At(v, "cancelled")' /\ (Runs(v)' => v = w /\ req'[v].pc = "executing")
      BY <2>2, <3>1 DEF Start, Goto, TypeOK
    <3>3. req'[w].pc = "executing"
      BY <2>2 DEF Start, Goto, TypeOK
    <3>4. QED
      BY <2>2, <3>2, <3>3 DEF Start, Swap
  <2>3. CASE \/ InsertAnother(w) \/ InsertOrphan(w) \/ RefuseStart(w) \/ RefuseCancel(w)
             \/ (At(w, "cancelled") /\ (Report(w) \/ ReportMissing(w)))
    <3>1. ~Runs(w) /\ \E code, reported : End(w, code, reported)
      BY <2>3 DEF InsertAnother, InsertOrphan, RefuseStart, RefuseCancel, Report, ReportMissing
    <3>2. \A v \in Workers : req'[v].pc = IF v = w THEN "idle" ELSE req[v].pc
      BY <3>1 DEF End, Idle, TypeOK
    <3>3. UNCHANGED status
      BY <2>3 DEF InsertAnother, InsertOrphan, RefuseStart, RefuseCancel, Report, ReportMissing, row
    <3>4. QED
      BY <3>1, <3>2, <3>3
  <2>4. CASE Cancel(w)
    <3>1. \A v \in Workers : req'[v].pc = IF v = w THEN "cancelled" ELSE req[v].pc
      BY <2>4 DEF Cancel, Goto, TypeOK
    <3>2. status \in Active /\ status' = "cancelled" /\ ~Runs(w)
      BY <2>4 DEF Cancel, Swap
    <3>3. \A v \in Workers : ~At(v, "completed") /\ ~At(v, "cancelled") /\ ~At(v, "superseded")
      BY <3>2 DEF Active, Terminal
    <3>4. QED
      BY <3>1, <3>2, <3>3
  <2>5. CASE Complete(w)
    <3>1. \A v \in Workers : ~At(v, "cancelled")' /\ (Runs(v)' => v = w)
      BY <2>5 DEF Complete, Swap, Goto, TypeOK
    <3>2. req'[w].pc = "completed"
      BY <2>5 DEF Complete, Goto, TypeOK
    <3>3. QED
      BY <2>5, <3>1, <3>2 DEF Complete, Swap
  <2>6. CASE Moves(w)
    <3>1. PICK pc \in {"evaluated", "superseded", "failing"} :
            /\ Goto(w, pc)
            /\ pc = "superseded" => status # "running"
      BY <2>6 DEF Moves, Evaluate, LoseCompletion, ExecutionError
    <3>2. \A v \in Workers : req'[v].pc = IF v = w THEN pc ELSE req[v].pc
      BY <3>1 DEF Goto, TypeOK
    <3>3. Runs(w) /\ UNCHANGED status
      BY <2>6 DEF Moves, Evaluate, LoseCompletion, ExecutionError, row
    <3>4. pc = "superseded" => status \in Terminal \union {"deleted"}
      BY <3>1, <3>3 DEF TypeOK, Phases, Statuses, Terminal
    <3>5. \A v \in Workers : Runs(v) => v = w
      BY <3>3
    <3>6. \A v \in Workers : Runs(v)' => v = w
      BY <3>2, <3>5
    <3>7. \A v \in Workers : At(v, "cancelled")' => At(v, "cancelled")
      BY <3>2
    <3>8. req'[w].pc \in {"evaluated", "failing"} \/ (req'[w].pc = "superseded" /\ status # "running")
      BY <3>1, <3>2
    <3>9. QED
      BY <3>2, <3>3, <3>4, <3>6, <3>7, <3>8
  <2>7. CASE \/ (~At(w, "cancelled") /\ (Report(w) \/ ReportMissing(w)))
             \/ ReportCurrent(w) \/ MarkFailed(w) \/ MarkFailedTooLate(w)
    <3>1. Runs(w)
      BY <2>7 DEF Report, ReportCurrent, ReportMissing, MarkFailed, MarkFailedTooLate
    <3>2. \A v \in Workers : req'[v].pc = IF v = w THEN "idle" ELSE req[v].pc
      BY <2>7 DEF Report, ReportCurrent, ReportMissing, MarkFailed, MarkFailedTooLate,
                  End, Idle, TypeOK
    <3>3. \A v \in Workers : ~Runs(v)'
      BY <3>1, <3>2
    <3>4. status' # "running" /\ (status' = status \/ status = "running")
      BY <2>7 DEF Report, ReportCurrent, ReportMissing, MarkFailed, MarkFailedTooLate,
                  Swap, row, Terminal
    <3>5. QED
      BY <3>2, <3>3, <3>4
  <2>8. QED
    BY <1>5, <2>1, <2>2, <2>3, <2>4, <2>5, <2>6, <2>7 DEF Serve, Moves
<1>6. ASSUME NEW w \in Workers, Crash(w) PROVE RunnerInv'
  <2>1. \A v \in Workers : req'[v].pc \in {req[v].pc, "idle"}
    BY <1>6 DEF Crash, Idle, TypeOK
  <2>2. QED
    BY <1>6, <2>1 DEF Crash, row
<1>7. CASE UNCHANGED analysisVars
  BY <1>7 DEF analysisVars, row
<1>8. QED
  BY <1>1, <1>2, <1>3, <1>4, <1>5, <1>6, <1>7 DEF Next, Request

LEMMA RunnerInvariant == Spec => []RunnerInv
<1>1. Init => RunnerInv
  BY DEF Init, RunnerInv, OneAnalyst, Runs, At, Idle, ExecutePCs
<1>2. QED
  BY <1>1, RunnerStep, Typing, PTL DEF Spec

(* At most one worker executes the analysis, and only a crash leaves a     *)
(* running one without a worker that will complete or fail it.             *)
THEOREM AnalysesHaveOneRunner == Spec => []OneAnalyst
<1>1. RunnerInv => OneAnalyst
  BY DEF RunnerInv
<1>2. QED
  BY <1>1, RunnerInvariant, PTL

-----------------------------------------------------------------------------
(* Replies                                                                 *)

(* A terminal status stays until the analysis is deleted. *)
LEMMA Forward ==
  ASSUME TypeOK, [Next]_analysisVars
  PROVE  /\ status \in Terminal => status' \in {status, "deleted"}
         /\ status = "deleted" => status' = "deleted"
<1>1. CASE UNCHANGED row
  BY <1>1 DEF row
<1>2. CASE DeleteDevice
  BY <1>2 DEF DeleteDevice, Statuses
<1>3. ASSUME NEW w \in Workers, Insert(w) \/ Start(w) \/ Complete(w) \/ MarkFailed(w) \/ Cancel(w)
      PROVE  status \notin Terminal \union {"deleted"}
  BY <1>3 DEF Insert, Start, Complete, MarkFailed, Cancel, Swap, Active, Terminal
<1>4. QED
  BY <1>1, <1>2, <1>3, RowSteps

Holds(r, s) ==
  /\ r.code = "ok" => r.status \in Terminal \union {"pending"}
  /\ r.code = "ok" /\ r.status \in Terminal => s \in {r.status, "deleted"}
  /\ r.code = "failed" => s \in Terminal \union {"deleted"}

(* A reply that holds goes on holding, and an ending that reports the      *)
(* truth adds one that does.                                               *)
LEMMA ReplyKept ==
  ASSUME TypeOK, RepliesAreFinal, [Next]_analysisVars, NEW w \in Workers
  PROVE  Holds(reply[w], status')
  BY Forward DEF RepliesAreFinal, Holds, Terminal

LEMMA ReplyEnded ==
  ASSUME TypeOK, RepliesAreFinal, [Next]_analysisVars, NEW w \in Workers,
         NEW code, NEW reported, End(w, code, reported),
         Holds([code |-> code, status |-> reported], status')
  PROVE  RepliesAreFinal'
<1> SUFFICES ASSUME NEW v \in Workers PROVE Holds(reply'[v], status')
  BY DEF RepliesAreFinal, Holds
<1>1. reply'[v] = IF v = w THEN [code |-> code, status |-> reported] ELSE reply[v]
  BY DEF End, TypeOK
<1>2. QED
  BY <1>1, ReplyKept

LEMMA RepliesStep ==
  TypeOK /\ RunnerInv /\ RepliesAreFinal /\ [Next]_analysisVars => RepliesAreFinal'
<1> SUFFICES ASSUME TypeOK, RunnerInv, RepliesAreFinal, [Next]_analysisVars PROVE RepliesAreFinal'
  OBVIOUS
<1> USE DEF Terminal
<1>1. CASE UNCHANGED reply
  BY <1>1, ReplyKept DEF RepliesAreFinal, Holds
<1>2. ASSUME NEW w \in Workers, CheckRun(w) \/ \E op \in {"run", "cancel"} : Load(w, op)
      PROVE  RepliesAreFinal'
  <2>1. \A v \in Workers : reply'[v] = IF v = w THEN NoReply ELSE reply[v]
    BY <1>2 DEF CheckRun, Load, TypeOK
  <2>2. QED
    BY <2>1, ReplyKept DEF RepliesAreFinal, Holds, NoReply
<1>3. ASSUME NEW w \in Workers, RefuseCreate(w) \/ Missing(w) PROVE RepliesAreFinal'
  <2>1. PICK code \in {"missing", "conflict"} : End(w, code, "absent")
    BY <1>3 DEF RefuseCreate, Missing
  <2>2. QED
    BY <2>1, ReplyEnded DEF Holds
<1>4. ASSUME NEW w \in Workers, Serve(w) PROVE RepliesAreFinal'
  <2>1. CASE Insert(w)
    BY <2>1, ReplyEnded DEF Insert, Holds
  <2>2. CASE InsertAnother(w)
    BY <2>2, ReplyEnded DEF InsertAnother, Holds
  <2>3. CASE InsertOrphan(w) \/ RefuseStart(w) \/ RefuseCancel(w)
    BY <2>3, ReplyEnded DEF InsertOrphan, RefuseStart, RefuseCancel, Holds
  <2>4. CASE Report(w)
    <3>1. PICK pc \in {"completed", "cancelled"} : req[w].pc = pc /\ End(w, "ok", pc)
      BY <2>4 DEF Report
    <3>2. status' = pc
      BY <2>4, <3>1 DEF Report, RunnerInv, At, row
    <3>3. QED
      BY <3>1, <3>2, ReplyEnded DEF Holds
  <2>5. CASE ReportCurrent(w)
    <3>1. status \in Terminal /\ status' = status
      BY <2>5 DEF ReportCurrent, RunnerInv, row
    <3>2. QED
      BY <2>5, <3>1, ReplyEnded DEF ReportCurrent, Holds
  <2>6. CASE ReportMissing(w)
    BY <2>6, ReplyEnded DEF ReportMissing, Holds, row
  <2>7. CASE MarkFailed(w)
    BY <2>7, ReplyEnded DEF MarkFailed, Swap, Holds
  <2>8. CASE MarkFailedTooLate(w)
    <3>1. status' \in Terminal \union {"deleted"}
      BY <2>8 DEF MarkFailedTooLate, RunnerInv, Runs, At, ExecutePCs, TypeOK, Phases, Statuses, row
    <3>2. QED
      BY <2>8, <3>1, ReplyEnded DEF MarkFailedTooLate, Holds
  <2>9. QED
    BY <1>4, <1>1, <2>1, <2>2, <2>3, <2>4, <2>5, <2>6, <2>7, <2>8
    DEF Serve, Start, Evaluate, Complete, LoseCompletion, ExecutionError, Cancel, Goto
<1>5. QED
  BY <1>1, <1>2, <1>3, <1>4 DEF Next, Request, FinishDiagnostics, DeleteDevice, Crash, analysisVars

(* What a client was told about an analysis stays true until it is deleted. *)
THEOREM RepliesStayTrue == Spec => []RepliesAreFinal
<1>1. Init => RepliesAreFinal
  BY DEF Init, RepliesAreFinal, NoReply
<1>2. QED
  BY <1>1, RepliesStep, Typing, RunnerInvariant, PTL DEF Spec

-----------------------------------------------------------------------------
(* Refinement                                                              *)

Published == IF status = "completed" THEN findings = RuleFindings ELSE findings # {}

LEMMA LifecycleStep ==
  TypeOK /\ RowInv /\ [Next]_analysisVars => [Lifecycle!Next]_(Lifecycle!lifecycleVars)
<1> SUFFICES ASSUME TypeOK, RowInv, [Next]_analysisVars
             PROVE  Lifecycle!Next \/ UNCHANGED <<status, Published>>
  BY DEF Lifecycle!lifecycleVars, Published
<1>1. Published <=> status = "completed"
  BY DEF RowInv, Published
<1>2. Published' <=> status' = "completed"
  BY RowStep DEF RowInv, Published
<1> USE DEF Lifecycle!Next, Lifecycle!Move, Published
<1>3. CASE DeleteDevice
  BY <1>1, <1>2, <1>3 DEF DeleteDevice, Statuses, Lifecycle!Delete
<1>4. ASSUME NEW w \in Workers, Insert(w) PROVE Lifecycle!Next
  BY <1>2, <1>4 DEF Insert, Swap, Lifecycle!Create
<1>5. ASSUME NEW w \in Workers, Start(w) PROVE Lifecycle!Next
  BY <1>2, <1>5 DEF Start, Swap, Lifecycle!Start
<1>6. ASSUME NEW w \in Workers, Complete(w) PROVE Lifecycle!Next
  BY <1>2, <1>6 DEF Complete, Swap, Lifecycle!Complete
<1>7. ASSUME NEW w \in Workers, MarkFailed(w) PROVE Lifecycle!Next
  BY <1>2, <1>7 DEF MarkFailed, Swap, Lifecycle!Fail
<1>8. ASSUME NEW w \in Workers, Cancel(w) PROVE Lifecycle!Next
  BY <1>2, <1>8 DEF Cancel, Swap, Active, Lifecycle!Cancel
<1>9. CASE UNCHANGED row
  BY <1>9, RulesFixed DEF row
<1>10. QED
  BY <1>3, <1>4, <1>5, <1>6, <1>7, <1>8, <1>9, RowSteps

(* The analysis implements the lifecycle: no interleaving of requests,     *)
(* deletions and crashes starts it twice, stores findings without its      *)
(* completion, or leaves a terminal state other than by deletion.          *)
THEOREM ImplementsLifecycle == Spec => LifecycleSpec
<1>1. Init => Lifecycle!Init
  BY DEF Init, Lifecycle!Init
<1>2. QED
  BY <1>1, LifecycleStep, Typing, RowInvariant, PTL
  DEF Spec, LifecycleSpec, Lifecycle!Spec

(* What a recommendation is generated from stays what it was: the findings *)
(* of a completed analysis change by the deletion of their device only.    *)
THEOREM FindingsAreKept ==
  Spec => [][status = "completed" =>
               status' = "deleted" \/ UNCHANGED <<status, findings>>]_analysisVars
<1>1. [Next]_analysisVars =>
        (status = "completed" => status' = "deleted" \/ UNCHANGED <<status, findings>>)
  BY RowSteps
  DEF DeleteDevice, Insert, Start, Complete, MarkFailed, Cancel, Swap, Active, Statuses, row
<1>2. QED
  BY <1>1, PTL DEF Spec

(* An analysis exists as long as its run does, and no longer.              *)
RunInv == status \in Statuses => run = "completed"

LEMMA RunInvariant == Spec => []RunInv
<1>1. Init => RunInv
  BY DEF Init, RunInv, Statuses
<1>2. RunInv /\ [Next]_analysisVars => RunInv'
  <2> SUFFICES ASSUME RunInv, [Next]_analysisVars PROVE RunInv'
    OBVIOUS
  <2> USE DEF RunInv, Statuses
  <2>1. CASE DeleteDevice
    BY <2>1 DEF DeleteDevice
  <2>2. CASE FinishDiagnostics
    BY <2>2 DEF FinishDiagnostics, row
  <2>3. ASSUME NEW w \in Workers, Serve(w) PROVE RunInv'
    <3>1. run' = run
      BY <2>3 DEF Serve, Insert, InsertAnother, InsertOrphan, Start, RefuseStart, Evaluate,
                  Complete, LoseCompletion, Report, ReportCurrent, ReportMissing,
                  ExecutionError, MarkFailed, MarkFailedTooLate, Cancel, RefuseCancel
    <3>2. Insert(w) => run = "completed"
      BY DEF Insert
    <3>3. status' \in Statuses => status \in Statuses \/ Insert(w)
      BY <2>3 DEF Serve, InsertAnother, InsertOrphan, Start, RefuseStart, Evaluate, Complete,
                  LoseCompletion, Report, ReportCurrent, ReportMissing, ExecutionError,
                  MarkFailed, MarkFailedTooLate, Cancel, RefuseCancel, Swap, Active, row
    <3>4. QED
      BY <3>1, <3>2, <3>3
  <2>4. ASSUME NEW w \in Workers, Request(w) \/ Crash(w) PROVE RunInv'
    BY <2>4 DEF Request, CheckRun, RefuseCreate, Missing, Load, Crash, row
  <2>5. CASE UNCHANGED analysisVars
    BY <2>5 DEF analysisVars, row
  <2>6. QED
    BY <2>1, <2>2, <2>3, <2>4, <2>5 DEF Next
<1>3. QED
  BY <1>1, <1>2, PTL DEF Spec

-----------------------------------------------------------------------------
(* The end of analyses                                                     *)

(* An analysis that is stored as running and that no worker executes: its  *)
(* worker died.                                                            *)
Abandoned == status = "running" /\ \A w \in Workers : ~Runs(w)

(* An analysis whose worker died is taken up by nobody, however many       *)
(* workers start analyses beside it: only a cancellation or the deletion   *)
(* of its device ends it.                                                  *)
THEOREM AbandonedIsNotResumed ==
  Spec => [][Abandoned => Abandoned' \/ status' \in {"cancelled", "deleted"}]_analysisVars
<1>1. TypeOK /\ [Next]_analysisVars =>
        (Abandoned => Abandoned' \/ status' \in {"cancelled", "deleted"})
  <2> SUFFICES ASSUME TypeOK, [Next]_analysisVars, Abandoned
               PROVE  Abandoned' \/ status' \in {"cancelled", "deleted"}
    OBVIOUS
  <2> USE DEF Abandoned, Runs, ExecutePCs
  <2>1. CASE DeleteDevice
    BY <2>1 DEF DeleteDevice, Statuses
  <2>2. ASSUME NEW w \in Workers, NEW op \in {"run", "cancel"}, Load(w, op) PROVE Abandoned'
    BY <2>2 DEF Load, TypeOK, row
  <2>3. ASSUME NEW w \in Workers, Cancel(w) PROVE status' = "cancelled"
    BY <2>3 DEF Cancel, Swap
  <2>4. ASSUME NEW w \in Workers, Serve(w), ~Cancel(w) PROVE Abandoned'
    <3>1. \/ InsertAnother(w) \/ InsertOrphan(w) \/ RefuseStart(w) \/ RefuseCancel(w)
          \/ (At(w, "cancelled") /\ (Report(w) \/ ReportMissing(w)))
      BY <2>4
      DEF Serve, At, Insert, Start, Swap, Evaluate, Complete, LoseCompletion, Report,
          ReportCurrent, ReportMissing, ExecutionError, MarkFailed, MarkFailedTooLate
    <3>2. req' = [req EXCEPT ![w] = Idle] /\ status' = status
      BY <3>1 DEF InsertAnother, InsertOrphan, RefuseStart, RefuseCancel, Report,
                  ReportMissing, End, row
    <3>3. QED
      BY <3>2 DEF Idle, TypeOK
  <2>5. ASSUME NEW w \in Workers, CheckRun(w) PROVE FALSE
    BY <2>5 DEF CheckRun
  <2>6. ASSUME NEW w \in Workers, RefuseCreate(w) \/ Missing(w) \/ Crash(w) PROVE Abandoned'
    <3>1. req' = [req EXCEPT ![w] = Idle] /\ status' = status
      BY <2>6 DEF RefuseCreate, Missing, Crash, End, row
    <3>2. QED
      BY <3>1 DEF Idle, TypeOK
  <2>7. CASE FinishDiagnostics \/ UNCHANGED analysisVars
    BY <2>7 DEF FinishDiagnostics, analysisVars, row
  <2>8. QED
    BY <2>1, <2>2, <2>3, <2>4, <2>5, <2>6, <2>7 DEF Next, Request
<1>2. QED
  BY <1>1, Typing, PTL DEF Spec

(* The worker that executes the analysis goes on doing so.  It is the weak *)
(* fairness of its steps, with the execution itself in the place of their  *)
(* being enabled.                                                          *)
AnalystStep == \E w \in Workers : Runs(w) /\ Serve(w)
AnalystGoesOn ==
  []<>(\A w \in Workers : ~Runs(w)) \/ []<><<AnalystStep>>_analysisVars

Running == status = "running"
ToEvaluate == Running /\ \E w \in Workers : At(w, "executing")
ToComplete == Running /\ \E w \in Workers : At(w, "evaluated")
ToFail == Running /\ \E w \in Workers : At(w, "failing")

LEMMA AnalysisAdvances ==
  ASSUME ~MayCrash, TypeOK, RunnerInv, [Next]_analysisVars
  PROVE  /\ ToFail => ToFail' \/ ~Running'
         /\ ToComplete => ToComplete' \/ ToFail' \/ ~Running'
         /\ ToEvaluate /\ AnalystStep => ToComplete' \/ ToFail' \/ ~Running'
         /\ ToComplete /\ AnalystStep => ToFail' \/ ~Running'
         /\ ToFail /\ AnalystStep => ~Running'
<1>1. ASSUME NEW w \in Workers, Runs(w), Serve(w), Running, Running'
      PROVE  \/ At(w, "executing") /\ (ToComplete' \/ ToFail')
             \/ At(w, "evaluated") /\ ToFail'
  <2>1. \/ ExecutionError(w) /\ (At(w, "executing") \/ At(w, "evaluated"))
        \/ Evaluate(w)
    BY <1>1
    DEF Serve, Runs, At, ExecutePCs, RunnerInv, Terminal, Insert, InsertAnother, InsertOrphan,
        Start, RefuseStart, Swap, Complete, LoseCompletion, Report, ReportCurrent,
        ReportMissing, ExecutionError, MarkFailed, MarkFailedTooLate, Cancel, RefuseCancel,
        Running
  <2>2. CASE ExecutionError(w)
    <3>1. req'[w].pc = "failing"
      BY <2>2 DEF ExecutionError, Goto, TypeOK
    <3>2. QED
      BY <1>1, <2>1, <2>2, <3>1 DEF ToFail, Running, At, Evaluate, ExecutionError
  <2>3. CASE Evaluate(w)
    <3>1. At(w, "executing") /\ req'[w].pc = "evaluated"
      BY <2>3 DEF Evaluate, Goto, TypeOK
    <3>2. QED
      BY <1>1, <3>1 DEF ToComplete, Running, At
  <2>4. QED
    BY <2>1, <2>2, <2>3
<1>2. ASSUME NEW w \in Workers, Runs(w), ~Serve(w) PROVE req'[w] = req[w]
  BY <1>2
  DEF Runs, ExecutePCs, Next, Request, Serve, analysisVars, At, Idle, TypeOK,
      FinishDiagnostics, DeleteDevice, CheckRun, RefuseCreate, Missing, Load, Crash, Insert,
      InsertAnother, InsertOrphan, Start, RefuseStart, Evaluate, Complete, LoseCompletion,
      Report, ReportCurrent, ReportMissing, ExecutionError, MarkFailed, MarkFailedTooLate,
      Cancel, RefuseCancel, Goto, End
<1>3. \A w, v \in Workers : Runs(w) /\ Runs(v) => w = v
  BY DEF RunnerInv, OneAnalyst, Runs
<1>4. ASSUME NEW w \in Workers, Runs(w), Running
      PROVE  /\ At(w, "failing") => ToFail' \/ ~Running'
             /\ At(w, "evaluated") => ToComplete' \/ ToFail' \/ ~Running'
  <2>1. CASE Serve(w)
    BY <1>1, <1>4, <2>1 DEF At
  <2>2. CASE ~Serve(w)
    BY <1>2, <1>4, <2>2 DEF At, ToFail, ToComplete, Running
  <2>3. QED
    BY <2>1, <2>2
<1>5. /\ ToFail => ToFail' \/ ~Running'
      /\ ToComplete => ToComplete' \/ ToFail' \/ ~Running'
  BY <1>4 DEF ToFail, ToComplete, Runs, At, ExecutePCs
<1>6. ASSUME AnalystStep, Running, Running'
      PROVE  /\ ToEvaluate => ToComplete' \/ ToFail'
             /\ ToComplete => ToFail'
             /\ ~ToFail
  <2>1. PICK w \in Workers : Runs(w) /\ Serve(w)
    BY <1>6 DEF AnalystStep
  <2>2. \A v \in Workers : Runs(v) => v = w
    BY <1>3, <2>1
  <2>3. \A v \in Workers : At(v, "executing") \/ At(v, "evaluated") \/ At(v, "failing") => v = w
    BY <2>2 DEF Runs, At, ExecutePCs
  <2>4. \/ At(w, "executing") /\ (ToComplete' \/ ToFail')
        \/ At(w, "evaluated") /\ ToFail'
    BY <1>1, <1>6, <2>1
  <2>5. QED
    BY <2>3, <2>4 DEF ToEvaluate, ToComplete, ToFail, At
<1>7. (ToEvaluate => Running) /\ (ToComplete => Running) /\ (ToFail => Running)
  BY DEF ToEvaluate, ToComplete, ToFail
<1>8. QED
  BY <1>5, <1>6, <1>7

(* While no worker dies and the one that executes the analysis goes on,    *)
(* every analysis ends, however many requests and deletions overlap with   *)
(* it and whatever raises in its try block.                                *)
THEOREM AnalysesEndIfServed == ASSUME ~MayCrash PROVE Spec /\ AnalystGoesOn => AnalysisEnds
<1>1. RunnerInv /\ Running => ToEvaluate \/ ToComplete \/ ToFail
  BY DEF RunnerInv, OneAnalyst, Running, ToEvaluate, ToComplete, ToFail, Runs, At, ExecutePCs
<1>2. ToEvaluate \/ ToComplete \/ ToFail => Running /\ ~(\A w \in Workers : ~Runs(w))
  BY DEF ToEvaluate, ToComplete, ToFail, Runs, At, ExecutePCs
<1>3. TypeOK /\ RunnerInv /\ [Next]_analysisVars =>
        /\ ToFail => ToFail' \/ ~Running'
        /\ ToComplete => ToComplete' \/ ToFail' \/ ~Running'
        /\ ToEvaluate /\ AnalystStep => ToComplete' \/ ToFail' \/ ~Running'
        /\ ToComplete /\ AnalystStep => ToFail' \/ ~Running'
        /\ ToFail /\ AnalystStep => ~Running'
  BY AnalysisAdvances
<1>4. /\ status = "running" <=> Running
      /\ status # "running" <=> ~Running
  BY DEF Running
<1>5. QED
  BY <1>1, <1>2, <1>3, <1>4, Typing, RunnerInvariant, PTL
  DEF Spec, AnalystGoesOn, AnalysisEnds
=============================================================================
