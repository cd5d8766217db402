-------------------------- MODULE RemediationProofs --------------------------
(***************************************************************************)
(* Proofs about the remediation service, for any number of workers, any    *)
(* users and any grants.                                                   *)
(***************************************************************************)
EXTENDS Remediation, TLAPS

(* A request in progress. *)
Requests == [pc : PCs, op : DOMAIN Permission,
             actor : Users \union {Nobody}, seen : Copies]
Replies == [code : {"none", "ok", "refused", "invalid", "failed"},
            plan : Workers \union {NoPlan}]

(* The values a request starts and ends with, and the copy a load takes,   *)
(* have their types.                                                       *)
LEMMA ConstantsTyped ==
  /\ Idle \in Requests
  /\ NoReply \in Replies
  /\ NoCopy \in Copies
  BY DEF Idle, NoReply, NoCopy, Requests, Replies, Copies, Statuses, PCs, ExecutePCs,
         Permission

LEMMA StoredTyped == TypeOK => Stored \in Copies
  BY DEF TypeOK, Stored, Copies

(* Moving a worker to another step, ending its request and starting one    *)
(* keep the types of requests and replies.                                 *)
LEMMA GotoTyped ==
  ASSUME TypeOK, NEW w \in Workers, NEW pc \in PCs, Goto(w, pc)
  PROVE  req' \in [Workers -> Requests]
  BY DEF TypeOK, Goto, Requests

LEMMA RereadTyped ==
  ASSUME TypeOK, NEW w \in Workers, NEW pc \in PCs, Reread(w, pc)
  PROVE  req' \in [Workers -> Requests]
  BY StoredTyped DEF TypeOK, Reread, Requests

LEMMA EndTyped ==
  ASSUME TypeOK, NEW w \in Workers,
         NEW code \in {"none", "ok", "refused", "invalid", "failed"},
         NEW id \in Workers \union {NoPlan}, End(w, code, id)
  PROVE  /\ req' \in [Workers -> Requests]
         /\ reply' \in [Workers -> Replies]
  BY ConstantsTyped DEF TypeOK, End, Requests, Replies

LEMMA ArriveTyped ==
  ASSUME TypeOK, NEW w \in Workers, NEW u \in Users, NEW op \in DOMAIN Permission,
         NEW pc \in PCs, Arrive(w, u, op, pc)
  PROVE  /\ req' \in [Workers -> Requests]
         /\ reply' \in [Workers -> Replies]
  BY ConstantsTyped, StoredTyped DEF TypeOK, Arrive, Requests, Replies

(* A flushed column holds what it held or what was assigned. *)
LEMMA FlushTyped ==
  ASSUME NEW S, NEW stored \in S, NEW loaded, NEW assigned \in S
  PROVE  Flush(stored, loaded, assigned) \in S
  BY DEF Flush

LEMMA TypeStep == TypeOK /\ [Next]_vars => TypeOK'
<1> SUFFICES ASSUME TypeOK, [Next]_vars PROVE TypeOK'
  OBVIOUS
<1> USE DEF TypeOK
<1>1. CASE AcceptRecommendation
  BY <1>1 DEF AcceptRecommendation, row
<1>2. CASE ImplementRecommendation
  BY <1>2 DEF ImplementRecommendation, row
<1>3. ASSUME NEW w \in Workers, Serve(w) PROVE TypeOK'
  <2>1. CASE LookupPlan(w)
    <3>1. req' \in [Workers -> Requests] /\ reply' \in [Workers -> Replies]
      BY <2>1, EndTyped, GotoTyped DEF LookupPlan, PCs, Replies
    <3>2. QED
      BY <2>1, <3>1 DEF LookupPlan, row, Requests, Replies
  <2>2. CASE InsertPlan(w)
    BY <2>2, EndTyped DEF InsertPlan, Requests, Replies, Statuses
  <2>3. CASE LoseInsert(w)
    BY <2>3, EndTyped DEF LoseInsert, row, Requests, Replies
  <2>4. CASE RefuseTransition(w)
    BY <2>4, EndTyped DEF RefuseTransition, row, Requests, Replies
  <2>5. CASE CommitTransition(w)
    <3>1. Target[Op(w)] \in Statuses
      BY <2>5 DEF CommitTransition, Target, Transitions, Allowed, Statuses
    <3>2. approvedBy' \in Users \union {Nobody}
      BY <2>5 DEF CommitTransition, Flush
    <3>3. req' \in [Workers -> Requests] /\ reply' \in [Workers -> Replies]
      BY <2>5, EndTyped, GotoTyped DEF CommitTransition, PCs, ExecutePCs, Replies
    <3>4. QED
      BY <2>5, <3>1, <3>2, <3>3 DEF CommitTransition, Requests, Replies
  <2>6. CASE RereadStarted(w)
    BY <2>6, RereadTyped DEF RereadStarted, row, Requests, Replies, PCs, ExecutePCs
  <2>7. CASE RunActions(w)
    BY <2>7, GotoTyped DEF RunActions, Requests, Replies, PCs, ExecutePCs, Statuses
  <2>8. CASE RunActionsRefused(w)
    BY <2>8, GotoTyped DEF RunActionsRefused, Requests, Replies, PCs, ExecutePCs
  <2>9. CASE RereadSucceeded(w)
    BY <2>9, RereadTyped DEF RereadSucceeded, row, Requests, Replies, PCs, ExecutePCs
  <2>10. CASE FinishExecution(w)
    <3>1. status' \in Statuses /\ verification' \in {"pending", "passed"}
      BY <2>10 DEF FinishExecution, Flush, Statuses
    <3>2. QED
      BY <2>10, <3>1, EndTyped DEF FinishExecution, Requests, Replies
  <2>11. CASE ExecutionError(w)
    BY <2>11, GotoTyped DEF ExecutionError, row, Requests, Replies, PCs, ExecutePCs
  <2>12. CASE RereadFailed(w)
    BY <2>12, RereadTyped DEF RereadFailed, row, Requests, Replies, PCs, ExecutePCs
  <2>13. CASE MarkFailed(w)
    <3>1. status' \in Statuses
      BY <2>13 DEF MarkFailed, Flush, Statuses
    <3>2. QED
      BY <2>13, <3>1, EndTyped DEF MarkFailed, Requests, Replies
  <2>14. CASE RefuseVerify(w)
    BY <2>14, EndTyped DEF RefuseVerify, row, Requests, Replies
  <2>15. CASE CommitVerify(w)
    <3>1. verification' \in {"pending", "passed"}
      BY <2>15 DEF CommitVerify, Flush
    <3>2. QED
      BY <2>15, <3>1, EndTyped DEF CommitVerify, Requests, Replies, Statuses
  <2>16. QED
    BY <1>3, <2>1, <2>2, <2>3, <2>4, <2>5, <2>6, <2>7, <2>8, <2>9, <2>10, <2>11,
       <2>12, <2>13, <2>14, <2>15 DEF Serve
<1>4. ASSUME NEW w \in Workers, Crash(w) PROVE TypeOK'
  BY <1>4, ConstantsTyped DEF Crash, row, Requests
<1>5. ASSUME NEW w \in Workers, NEW u \in Users, LoadRecommendation(w, u) PROVE TypeOK'
  BY <1>5, ArriveTyped DEF LoadRecommendation, row, Requests, Replies, Permission, PCs
<1>6. ASSUME NEW w \in Workers, NEW u \in Users, RefuseRecommendation(w, u) PROVE TypeOK'
  BY <1>6, EndTyped DEF RefuseRecommendation, row, Requests, Replies
<1>7. ASSUME NEW w \in Workers, NEW u \in Users, NEW op \in Transitions \union {"verify"},
             LoadPlan(w, u, op)
      PROVE  TypeOK'
  <2>1. op \in DOMAIN Permission
    BY DEF Transitions, Allowed, Permission
  <2>2. QED
    BY <1>7, <2>1, ArriveTyped DEF LoadPlan, row, Requests, Replies, PCs
<1>8. CASE UNCHANGED vars
  BY <1>8 DEF vars, row
<1>9. QED
  BY <1>1, <1>2, <1>3, <1>4, <1>5, <1>6, <1>7, <1>8 DEF Next

(* Every reachable state is well typed, whatever the constants. *)
THEOREM Typing == Spec => []TypeOK
<1>1. Init => TypeOK
  BY ConstantsTyped DEF Init, TypeOK, Requests, Replies, Statuses
<1>2. QED
  BY <1>1, TypeStep, PTL DEF Spec

-----------------------------------------------------------------------------
(* Approval                                                                *)

Approved == approvedBy \in Approvers

(* ApprovedBeforeUse speaks of the row only.  The stale copies are what    *)
(* could break it, so the invariant says that whatever a request has       *)
(* already seen or started is covered by an approval as well, and that an  *)
(* approval about to be written is an approver's.                          *)
Covered(w) ==
  \/ Seen(w).status \in BeyondApproval
  \/ Seen(w).approvedBy # Nobody
  \/ req[w].pc \in ExecutePCs

ApprovalInv ==
  /\ ApprovedBeforeUse
  /\ approvedBy # Nobody => Approved
  /\ \A w \in Workers : Covered(w) => Approved
  /\ \A w \in Workers : At(w, "loaded") /\ Op(w) = "approve" => req[w].actor \in Approvers

(* A request that ends or has just begun adds nothing to cover: its copy   *)
(* is the initial one or the stored row.                                   *)
LEMMA IdleUncovered ==
  /\ Idle.pc \notin ExecutePCs
  /\ Idle.seen.status \notin BeyondApproval
  /\ Idle.seen.approvedBy = Nobody
  /\ Idle.pc # "loaded"
  BY DEF Idle, NoCopy, ExecutePCs, BeyondApproval

(* A step that leaves the row's status and approval alone and only moves,  *)
(* reloads, begins or ends one request keeps the invariant.                *)
LEMMA QuietStep ==
  ASSUME TypeOK, ApprovalInv, NEW w \in Workers, NEW r \in Requests,
         req' = [req EXCEPT ![w] = r],
         UNCHANGED <<status, approvedBy>>,
         r.seen \in {NoCopy, Stored, Seen(w)},
         r.pc \in ExecutePCs => req[w].pc \in ExecutePCs,
         r.pc = "loaded" /\ r.op = "approve" => r.actor \in Approvers
  PROVE  ApprovalInv'
<1> DEFINE cover(q) == \/ q.seen.status \in BeyondApproval
                       \/ q.seen.approvedBy # Nobody
                       \/ q.pc \in ExecutePCs
<1>1. cover(r) => Approved
  BY DEF ApprovalInv, ApprovedBeforeUse, Approved, Covered, Stored, NoCopy, BeyondApproval, Seen
<1>2. \A v \in Workers : Covered(v)' => Approved
  BY <1>1 DEF ApprovalInv, Covered, TypeOK, Seen
<1>3. \A v \in Workers : (At(v, "loaded") /\ Op(v) = "approve" => req[v].actor \in Approvers)'
  BY DEF ApprovalInv, TypeOK, At, Op
<1>4. QED
  BY <1>2, <1>3 DEF ApprovalInv, ApprovedBeforeUse, Approved

(* The forms a quiet step takes in the actions. *)
LEMMA QuietGoto ==
  ASSUME TypeOK, ApprovalInv, NEW w \in Workers, NEW pc \in PCs \ {"loaded"},
         pc \in ExecutePCs => req[w].pc \in ExecutePCs,
         UNCHANGED <<status, approvedBy>>,
         Goto(w, pc) \/ Reread(w, pc)
  PROVE  ApprovalInv'
<1>1. CASE Goto(w, pc)
  <2>1. [req[w] EXCEPT !.pc = pc] \in Requests
    BY DEF TypeOK, Requests
  <2>2. req' = [req EXCEPT ![w] = [req[w] EXCEPT !.pc = pc]]
    BY <1>1 DEF Goto
  <2>3. QED
    BY <2>1, <2>2, QuietStep DEF Seen, TypeOK
<1>2. CASE Reread(w, pc)
  <2>1. [req[w] EXCEPT !.pc = pc, !.seen = Stored] \in Requests
    BY StoredTyped DEF TypeOK, Requests
  <2>2. req' = [req EXCEPT ![w] = [req[w] EXCEPT !.pc = pc, !.seen = Stored]]
    BY <1>2 DEF Reread
  <2>3. QED
    BY <2>1, <2>2, QuietStep DEF TypeOK
<1>3. QED
  BY <1>1, <1>2

LEMMA QuietEnd ==
  ASSUME TypeOK, ApprovalInv, NEW w \in Workers, req' = [req EXCEPT ![w] = Idle],
         UNCHANGED <<status, approvedBy>>
  PROVE  ApprovalInv'
  BY QuietStep, ConstantsTyped, IdleUncovered DEF Idle

LEMMA QuietArrive ==
  ASSUME TypeOK, ApprovalInv, NEW w \in Workers, NEW u \in Users,
         NEW op \in DOMAIN Permission, NEW pc \in PCs \ ExecutePCs,
         Arrive(w, u, op, pc), UNCHANGED <<status, approvedBy>>
  PROVE  ApprovalInv'
<1> DEFINE r == [pc |-> pc, op |-> op, actor |-> u, seen |-> Stored]
<1>1. r \in Requests
  BY StoredTyped DEF Requests
<1>2. op = "approve" => u \in Approvers
  BY DEF Arrive, Approvers, Permission
<1>3. req' = [req EXCEPT ![w] = r]
  BY DEF Arrive
<1>4. QED
  BY <1>1, <1>2, <1>3, QuietStep

(* A write of the plan's row that leaves it approved where it must be. *)
LEMMA CoveredWrite ==
  ASSUME TypeOK, ApprovalInv, NEW w \in Workers, NEW r \in Requests,
         req' = [req EXCEPT ![w] = r],
         r.pc # "loaded",
         r.seen \in {NoCopy, Seen(w)},
         Approved',
         approvedBy # Nobody => Approved
  PROVE  ApprovalInv'
<1>1. \A v \in Workers : (At(v, "loaded") /\ Op(v) = "approve" => req[v].actor \in Approvers)'
  BY DEF ApprovalInv, TypeOK, At, Op
<1>2. QED
  BY <1>1 DEF ApprovalInv, ApprovedBeforeUse, Approved

(* A covered request may write any status, and go on or end. *)
LEMMA CoveredGoto ==
  ASSUME TypeOK, ApprovalInv, NEW w \in Workers, NEW pc \in PCs \ {"loaded"},
         Covered(w), approvedBy' = approvedBy, Goto(w, pc)
  PROVE  ApprovalInv'
<1> DEFINE r == [req[w] EXCEPT !.pc = pc]
<1>1. r \in Requests /\ r.seen = Seen(w) /\ r.pc # "loaded"
  BY DEF TypeOK, Requests, Seen
<1>2. req' = [req EXCEPT ![w] = r]
  BY DEF Goto
<1>3. Approved /\ Approved'
  BY DEF ApprovalInv, Approved
<1>4. QED
  BY <1>1, <1>2, <1>3, CoveredWrite

LEMMA CoveredEnd ==
  ASSUME TypeOK, ApprovalInv, NEW w \in Workers, Covered(w),
         approvedBy' = approvedBy, req' = [req EXCEPT ![w] = Idle]
  PROVE  ApprovalInv'
<1>1. Approved /\ Approved'
  BY DEF ApprovalInv, Approved
<1>2. QED
  BY <1>1, CoveredWrite, ConstantsTyped, IdleUncovered DEF Idle

(* A write that ends a request and leaves a status that needs no approval. *)
LEMMA UncoveredWrite ==
  ASSUME TypeOK, ApprovalInv, NEW w \in Workers, req' = [req EXCEPT ![w] = Idle],
         status' \notin BeyondApproval, approvedBy' = approvedBy
  PROVE  ApprovalInv'
<1>1. \A v \in Workers : Covered(v)' => Approved
  BY IdleUncovered DEF ApprovalInv, Covered, Seen, TypeOK
<1>2. \A v \in Workers : (At(v, "loaded") /\ Op(v) = "approve" => req[v].actor \in Approvers)'
  BY IdleUncovered DEF ApprovalInv, TypeOK, At, Op
<1>3. QED
  BY <1>1, <1>2 DEF ApprovalInv, ApprovedBeforeUse, Approved

LEMMA ApprovalStep == TypeOK /\ ApprovalInv /\ [Next]_vars => ApprovalInv'
<1> SUFFICES ASSUME TypeOK, ApprovalInv, [Next]_vars PROVE ApprovalInv'
  OBVIOUS
<1>1. CASE AcceptRecommendation \/ ImplementRecommendation \/ UNCHANGED vars
  BY <1>1 DEF AcceptRecommendation, ImplementRecommendation, vars, row, ApprovalInv,
              ApprovedBeforeUse, Approved, Covered, At, Op, Seen
<1>2. ASSUME NEW w \in Workers, Serve(w) PROVE ApprovalInv'
  <2>1. CASE LookupPlan(w)
    BY <2>1, QuietGoto, QuietEnd DEF LookupPlan, End, row, PCs, ExecutePCs
  <2>2. CASE InsertPlan(w)
    BY <2>2, UncoveredWrite DEF InsertPlan, End, BeyondApproval
  <2>3. CASE LoseInsert(w)
    BY <2>3, QuietEnd DEF LoseInsert, End, row
  <2>4. CASE RefuseTransition(w)
    BY <2>4, QuietEnd DEF RefuseTransition, End, row
  <2>5. CASE CommitTransition(w)
    <3>1. CASE Op(w) \in {"submit", "reject", "cancel"}
      <4>1. status' \notin BeyondApproval /\ approvedBy' = approvedBy
        BY <2>5, <3>1 DEF CommitTransition, Target, BeyondApproval
      <4>2. QED
        BY <2>5, <3>1, <4>1, UncoveredWrite DEF CommitTransition, End
    <3>2. CASE Op(w) = "queue"
      <4>1. Covered(w) /\ approvedBy' = approvedBy /\ req' = [req EXCEPT ![w] = Idle]
        BY <2>5, <3>2 DEF CommitTransition, Allowed, Covered, BeyondApproval, End
      <4>2. QED
        BY <4>1, CoveredEnd
    <3>3. CASE Op(w) = "approve"
      <4>1. req[w].actor \in Approvers
        BY <2>5, <3>3 DEF CommitTransition, ApprovalInv
      <4>2. approvedBy' \in {req[w].actor} \union (IF Covered(w) THEN {approvedBy} ELSE {})
        BY <2>5, <3>3, <4>1, RemediationAssumption
        DEF CommitTransition, Flush, Covered, Approvers
      <4>3. Approved' /\ (approvedBy # Nobody => Approved)
        BY <4>1, <4>2 DEF ApprovalInv, Approved
      <4>4. req' = [req EXCEPT ![w] = Idle]
        BY <2>5, <3>3 DEF CommitTransition, End
      <4>5. QED
        BY <4>3, <4>4, CoveredWrite, ConstantsTyped, IdleUncovered DEF Idle
    <3>4. CASE Op(w) = "execute"
      <4>1. Covered(w) /\ approvedBy' = approvedBy /\ Goto(w, "started")
        BY <2>5, <3>4 DEF CommitTransition, Allowed, Covered, BeyondApproval
      <4>2. QED
        BY <4>1, CoveredGoto DEF PCs, ExecutePCs
    <3>5. QED
      BY <2>5, <3>1, <3>2, <3>3, <3>4 DEF CommitTransition, Transitions, Allowed
  <2>6. CASE RereadStarted(w)
    BY <2>6, QuietGoto DEF RereadStarted, row, At, PCs, ExecutePCs
  <2>7. CASE RunActions(w)
    <3>1. Covered(w) /\ approvedBy' = approvedBy /\ Goto(w, "succeeded")
      BY <2>7 DEF RunActions, At, Covered, ExecutePCs
    <3>2. QED
      BY <3>1, CoveredGoto DEF PCs, ExecutePCs
  <2>8. CASE RunActionsRefused(w)
    BY <2>8, QuietGoto DEF RunActionsRefused, At, PCs, ExecutePCs
  <2>9. CASE RereadSucceeded(w)
    BY <2>9, QuietGoto DEF RereadSucceeded, row, At, PCs, ExecutePCs
  <2>10. CASE FinishExecution(w)
    <3>1. Covered(w) /\ approvedBy' = approvedBy /\ req' = [req EXCEPT ![w] = Idle]
      BY <2>10 DEF FinishExecution, At, Covered, ExecutePCs, End
    <3>2. QED
      BY <3>1, CoveredEnd
  <2>11. CASE ExecutionError(w)
    BY <2>11, QuietGoto DEF ExecutionError, row, PCs, ExecutePCs
  <2>12. CASE RereadFailed(w)
    BY <2>12, QuietGoto DEF RereadFailed, row, At, PCs, ExecutePCs
  <2>13. CASE MarkFailed(w)
    <3>1. Covered(w) /\ approvedBy' = approvedBy /\ req' = [req EXCEPT ![w] = Idle]
      BY <2>13 DEF MarkFailed, At, Covered, ExecutePCs, End
    <3>2. QED
      BY <3>1, CoveredEnd
  <2>14. CASE RefuseVerify(w)
    BY <2>14, QuietEnd DEF RefuseVerify, End, row
  <2>15. CASE CommitVerify(w)
    <3>1. Covered(w) /\ approvedBy' = approvedBy /\ req' = [req EXCEPT ![w] = Idle]
      BY <2>15 DEF CommitVerify, Covered, BeyondApproval, End
    <3>2. QED
      BY <3>1, CoveredEnd
  <2>16. QED
    BY <1>2, <2>1, <2>2, <2>3, <2>4, <2>5, <2>6, <2>7, <2>8, <2>9, <2>10, <2>11,
       <2>12, <2>13, <2>14, <2>15 DEF Serve
<1>3. ASSUME NEW w \in Workers, Crash(w) PROVE ApprovalInv'
  BY <1>3, QuietEnd DEF Crash, row
<1>4. ASSUME NEW w \in Workers, NEW u \in Users, LoadRecommendation(w, u) PROVE ApprovalInv'
  BY <1>4, QuietArrive DEF LoadRecommendation, row, Permission, PCs, ExecutePCs
<1>5. ASSUME NEW w \in Workers, NEW u \in Users, RefuseRecommendation(w, u) PROVE ApprovalInv'
  BY <1>5, QuietEnd DEF RefuseRecommendation, End, row
<1>6. ASSUME NEW w \in Workers, NEW u \in Users, NEW op \in Transitions \union {"verify"},
             LoadPlan(w, u, op)
      PROVE  ApprovalInv'
  <2>1. op \in DOMAIN Permission
    BY DEF Transitions, Allowed, Permission
  <2>2. QED
    BY <1>6, <2>1, QuietArrive DEF LoadPlan, row, PCs, ExecutePCs
<1>7. QED
  BY <1>1, <1>2, <1>3, <1>4, <1>5, <1>6 DEF Next

LEMMA ApprovalInvariant == Spec => []ApprovalInv
<1>1. Init => ApprovalInv
  BY IdleUncovered DEF Init, ApprovalInv, ApprovedBeforeUse, BeyondApproval, Approved,
                       Covered, At, Op, Seen
<1>2. QED
  BY <1>1, ApprovalStep, Typing, PTL DEF Spec

(* With any number of requests in any order, a plan is queued, executed or *)
(* past execution only under the approval of a user who may approve.       *)
THEOREM PlansAreApproved == Spec => []ApprovedBeforeUse
<1>1. ApprovalInv => ApprovedBeforeUse
  BY DEF ApprovalInv
<1>2. QED
  BY <1>1, ApprovalInvariant, PTL

-----------------------------------------------------------------------------
(* Execution                                                               *)

AwaitsOrVerified == {"verification_required", "verified"}

(* What ExecutedBeforeVerification needs of the copies and the executions  *)
(* in progress: a copy that has seen the outcome is right about it, and an *)
(* execution past its actions has committed them.                          *)
ExecutionInv ==
  /\ ExecutedBeforeVerification
  /\ verifiedRow => action = "succeeded"
  /\ \A w \in Workers :
       /\ Seen(w).status \in AwaitsOrVerified => executed /\ action = "succeeded"
       /\ req[w].pc \in {"succeeded", "finishing"} => action = "succeeded"

(* A step of one request that leaves the row alone keeps the invariant if  *)
(* the request does not jump into the last part of an execution.           *)
LEMMA ExecutionQuiet ==
  ASSUME TypeOK, ExecutionInv, NEW w \in Workers, NEW r \in Requests,
         req' = [req EXCEPT ![w] = r],
         r.seen \in {NoCopy, Stored, Seen(w)},
         r.pc \in {"succeeded", "finishing"} => req[w].pc \in {"succeeded", "finishing"},
         executed => executed', action = "succeeded" => action' = "succeeded",
         status' = status \/ status' \notin AwaitsOrVerified,
         UNCHANGED verifiedRow
  PROVE  ExecutionInv'
<1>1. r.seen.status \in AwaitsOrVerified => executed /\ action = "succeeded"
  BY DEF ExecutionInv, ExecutedBeforeVerification, Stored, NoCopy, AwaitsOrVerified, Seen
<1>2. \A v \in Workers :
        /\ Seen(v)'.status \in AwaitsOrVerified => executed' /\ action' = "succeeded"
        /\ req'[v].pc \in {"succeeded", "finishing"} => action' = "succeeded"
  BY <1>1 DEF ExecutionInv, TypeOK, Seen
<1>3. QED
  BY <1>2 DEF ExecutionInv, ExecutedBeforeVerification, AwaitsOrVerified

LEMMA ExecutionEnd ==
  ASSUME TypeOK, ExecutionInv, NEW w \in Workers, req' = [req EXCEPT ![w] = Idle],
         status' = status \/ status' \notin AwaitsOrVerified,
         UNCHANGED <<executed, action, verifiedRow>>
  PROVE  ExecutionInv'
  BY ExecutionQuiet, ConstantsTyped DEF Idle

LEMMA ExecutionGoto ==
  ASSUME TypeOK, ExecutionInv, NEW w \in Workers, NEW pc \in PCs,
         Goto(w, pc) \/ Reread(w, pc),
         pc \in {"succeeded", "finishing"} => req[w].pc \in {"succeeded", "finishing"},
         action = "succeeded" => action' = "succeeded",
         status' = status \/ status' \notin AwaitsOrVerified,
         UNCHANGED <<executed, verifiedRow>>
  PROVE  ExecutionInv'
<1>1. CASE Goto(w, pc)
  <2> DEFINE r == [req[w] EXCEPT !.pc = pc]
  <2>1. r \in Requests /\ r.seen = Seen(w) /\ r.pc = pc /\ req' = [req EXCEPT ![w] = r]
    BY <1>1 DEF TypeOK, Requests, Seen, Goto
  <2>2. QED
    BY <2>1, ExecutionQuiet
<1>2. CASE Reread(w, pc)
  <2> DEFINE r == [req[w] EXCEPT !.pc = pc, !.seen = Stored]
  <2>1. r \in Requests /\ r.seen = Stored /\ r.pc = pc /\ req' = [req EXCEPT ![w] = r]
    BY <1>2, StoredTyped DEF TypeOK, Requests, Reread
  <2>2. QED
    BY <2>1, ExecutionQuiet
<1>3. QED
  BY <1>1, <1>2

LEMMA ExecutionArrive ==
  ASSUME TypeOK, ExecutionInv, NEW w \in Workers, NEW u \in Users,
         NEW op \in DOMAIN Permission, NEW pc \in PCs \ ExecutePCs,
         Arrive(w, u, op, pc), UNCHANGED row
  PROVE  ExecutionInv'
<1> DEFINE r == [pc |-> pc, op |-> op, actor |-> u, seen |-> Stored]
<1>1. r \in Requests /\ r.seen = Stored /\ r.pc = pc /\ req' = [req EXCEPT ![w] = r]
  BY StoredTyped DEF Requests, Arrive
<1>2. QED
  BY <1>1, ExecutionQuiet DEF row, ExecutePCs

(* A request that ends after writing an outcome the row now records. *)
LEMMA ExecutionOutcome ==
  ASSUME TypeOK, ExecutionInv, NEW w \in Workers, req' = [req EXCEPT ![w] = Idle],
         executed', action' = "succeeded"
  PROVE  ExecutionInv'
  BY DEF ExecutionInv, ExecutedBeforeVerification

LEMMA ExecutionStep == TypeOK /\ ExecutionInv /\ [Next]_vars => ExecutionInv'
<1> SUFFICES ASSUME TypeOK, ExecutionInv, [Next]_vars PROVE ExecutionInv'
  OBVIOUS
<1>1. CASE AcceptRecommendation \/ ImplementRecommendation \/ UNCHANGED vars
  BY <1>1 DEF AcceptRecommendation, ImplementRecommendation, vars, row, ExecutionInv,
              ExecutedBeforeVerification, Seen
<1>2. ASSUME NEW w \in Workers, Serve(w) PROVE ExecutionInv'
  <2>1. CASE LookupPlan(w)
    BY <2>1, ExecutionGoto, ExecutionEnd DEF LookupPlan, End, row, PCs
  <2>2. CASE InsertPlan(w)
    BY <2>2, ExecutionEnd DEF InsertPlan, End, AwaitsOrVerified
  <2>3. CASE LoseInsert(w) \/ RefuseTransition(w) \/ RefuseVerify(w)
    BY <2>3, ExecutionEnd DEF LoseInsert, RefuseTransition, RefuseVerify, End, row
  <2>4. CASE CommitTransition(w)
    <3>1. status' \notin AwaitsOrVerified
      BY <2>4 DEF CommitTransition, Target, Transitions, Allowed, AwaitsOrVerified
    <3>2. QED
      BY <2>4, <3>1, ExecutionGoto, ExecutionEnd DEF CommitTransition, End, PCs, ExecutePCs
  <2>5. CASE RereadStarted(w) \/ RereadFailed(w) \/ RereadSucceeded(w) \/ ExecutionError(w)
    BY <2>5, ExecutionGoto
    DEF RereadStarted, RereadFailed, RereadSucceeded, ExecutionError, row, PCs, ExecutePCs, At
  <2>6. CASE RunActions(w)
    <3>1. \A v \in Workers : Seen(v)' = Seen(v)
      BY <2>6 DEF RunActions, Goto, Seen, TypeOK
    <3>2. QED
      BY <2>6, <3>1 DEF RunActions, ExecutionInv, ExecutedBeforeVerification, AwaitsOrVerified
  <2>7. CASE RunActionsRefused(w)
    BY <2>7, ExecutionGoto DEF RunActionsRefused, PCs, ExecutePCs
  <2>8. CASE FinishExecution(w)
    BY <2>8, ExecutionOutcome DEF FinishExecution, End, ExecutionInv, At
  <2>9. CASE MarkFailed(w)
    BY <2>9, ExecutionEnd DEF MarkFailed, End, Flush, AwaitsOrVerified
  <2>10. CASE CommitVerify(w)
    BY <2>10, ExecutionOutcome DEF CommitVerify, End, ExecutionInv, AwaitsOrVerified
  <2>11. QED
    BY <1>2, <2>1, <2>2, <2>3, <2>4, <2>5, <2>6, <2>7, <2>8, <2>9, <2>10 DEF Serve
<1>3. ASSUME NEW w \in Workers, Crash(w) PROVE ExecutionInv'
  BY <1>3, ExecutionEnd DEF Crash, row
<1>4. ASSUME NEW w \in Workers, NEW u \in Users, LoadRecommendation(w, u) PROVE ExecutionInv'
  BY <1>4, ExecutionArrive DEF LoadRecommendation, Permission, PCs, ExecutePCs
<1>5. ASSUME NEW w \in Workers, NEW u \in Users, RefuseRecommendation(w, u) PROVE ExecutionInv'
  BY <1>5, ExecutionEnd DEF RefuseRecommendation, End, row
<1>6. ASSUME NEW w \in Workers, NEW u \in Users, NEW op \in Transitions \union {"verify"},
             LoadPlan(w, u, op)
      PROVE  ExecutionInv'
  <2>1. op \in DOMAIN Permission
    BY DEF Transitions, Allowed, Permission
  <2>2. QED
    BY <1>6, <2>1, ExecutionArrive DEF LoadPlan, PCs, ExecutePCs
<1>7. QED
  BY <1>1, <1>2, <1>3, <1>4, <1>5, <1>6 DEF Next

LEMMA ExecutionInvariant == Spec => []ExecutionInv
<1>1. Init => ExecutionInv
  BY DEF Init, ExecutionInv, ExecutedBeforeVerification, AwaitsOrVerified, Seen, Idle, NoCopy
<1>2. QED
  BY <1>1, ExecutionStep, Typing, PTL DEF Spec

(* A plan awaits verification, or is verified, only with its execution and *)
(* the outcome of its action on record.                                    *)
THEOREM VerificationFollowsExecution == Spec => []ExecutedBeforeVerification
<1>1. ExecutionInv => ExecutedBeforeVerification
  BY DEF ExecutionInv
<1>2. QED
  BY <1>1, ExecutionInvariant, PTL

-----------------------------------------------------------------------------
(* Ownership of an execution                                               *)

(* A step that leaves the row's status alone keeps the invariant when the  *)
(* worker that takes it owned nothing, or still owns it afterwards.        *)
LEMMA OwnedQuiet ==
  ASSUME TypeOK, ExecutionIsOwned, NEW w \in Workers, NEW r \in Requests,
         req' = [req EXCEPT ![w] = r], status' = status,
         \/ ~WillLeaveExecution(w)
         \/ /\ r.pc \in ExecutePCs
            /\ r.pc \notin {"finishing", "marking"} \/ r.seen = Stored
  PROVE  ExecutionIsOwned'
<1> SUFFICES ASSUME ~MayCrash, status \in {"executing", "succeeded"}
             PROVE  \E v \in Workers : WillLeaveExecution(v)'
  BY DEF ExecutionIsOwned
<1>1. PICK v \in Workers : WillLeaveExecution(v)
  BY DEF ExecutionIsOwned
<1>2. CASE v = w
  <2>1. req'[w] = r
    BY DEF TypeOK
  <2>2. WillLeaveExecution(w)'
    BY <1>1, <1>2, <2>1 DEF WillLeaveExecution, At, Seen, Stored
  <2>3. QED
    BY <2>2
<1>3. CASE v # w
  <2>1. req'[v] = req[v]
    BY <1>3 DEF TypeOK
  <2>2. WillLeaveExecution(v)'
    BY <1>1, <2>1 DEF WillLeaveExecution, At, Seen
  <2>3. QED
    BY <2>2
<1>4. QED
  BY <1>2, <1>3

LEMMA OwnedEnd ==
  ASSUME TypeOK, ExecutionIsOwned, NEW w \in Workers, NEW r \in Requests,
         req' = [req EXCEPT ![w] = r], status' = status, ~WillLeaveExecution(w)
  PROVE  ExecutionIsOwned'
  BY OwnedQuiet

LEMMA OwnedGoto ==
  ASSUME TypeOK, ExecutionIsOwned, NEW w \in Workers, NEW pc \in ExecutePCs,
         (Goto(w, pc) /\ pc \notin {"finishing", "marking"}) \/ Reread(w, pc),
         status' = status
  PROVE  ExecutionIsOwned'
<1>1. CASE Goto(w, pc) /\ pc \notin {"finishing", "marking"}
  <2> DEFINE r == [req[w] EXCEPT !.pc = pc]
  <2>1. r \in Requests /\ r.pc = pc /\ req' = [req EXCEPT ![w] = r]
    BY <1>1 DEF TypeOK, Requests, Goto, PCs
  <2>2. QED
    BY <1>1, <2>1, OwnedQuiet
<1>2. CASE Reread(w, pc)
  <2> DEFINE r == [req[w] EXCEPT !.pc = pc, !.seen = Stored]
  <2>1. r \in Requests /\ r.seen = Stored /\ r.pc = pc /\ req' = [req EXCEPT ![w] = r]
    BY <1>2, StoredTyped DEF TypeOK, Requests, Reread, PCs
  <2>2. QED
    BY <2>1, OwnedQuiet
<1>3. QED
  BY <1>1, <1>2

(* The write that starts, or records, a run leaves its worker in charge. *)
LEMMA OwnedStart ==
  ASSUME TypeOK, NEW w \in Workers, NEW pc \in {"started", "succeeded"}, Goto(w, pc)
  PROVE  ExecutionIsOwned'
<1>1. WillLeaveExecution(w)'
  BY DEF TypeOK, Goto, WillLeaveExecution, At, ExecutePCs
<1>2. QED
  BY <1>1 DEF ExecutionIsOwned

LEMMA OwnedStep == TypeOK /\ ExecutionIsOwned /\ [Next]_vars => ExecutionIsOwned'
<1> SUFFICES ASSUME TypeOK, ExecutionIsOwned, [Next]_vars PROVE ExecutionIsOwned'
  OBVIOUS
<1>1. CASE AcceptRecommendation \/ ImplementRecommendation \/ UNCHANGED vars
  BY <1>1 DEF AcceptRecommendation, ImplementRecommendation, vars, row, ExecutionIsOwned,
              WillLeaveExecution, At, Seen
<1>2. ASSUME NEW w \in Workers, Serve(w) PROVE ExecutionIsOwned'
  <2>1. CASE LookupPlan(w)
    <3>1. ~WillLeaveExecution(w) /\ status' = status
      BY <2>1 DEF LookupPlan, At, WillLeaveExecution, ExecutePCs, row
    <3>2. PICK r \in Requests : req' = [req EXCEPT ![w] = r]
      <4>1. [req[w] EXCEPT !.pc = "insert"] \in Requests
        BY DEF TypeOK, Requests, PCs
      <4>2. QED
        BY <2>1, <4>1, ConstantsTyped DEF LookupPlan, End, Goto
    <3>3. QED
      BY <3>1, <3>2, OwnedEnd
  <2>2. CASE InsertPlan(w) \/ CommitVerify(w)
    BY <2>2 DEF InsertPlan, CommitVerify, ExecutionIsOwned
  <2>3. CASE LoseInsert(w) \/ RefuseTransition(w) \/ RefuseVerify(w)
    <3>1. ~WillLeaveExecution(w)
      BY <2>3 DEF LoseInsert, RefuseTransition, RefuseVerify, At, WillLeaveExecution, ExecutePCs
    <3>2. QED
      BY <2>3, <3>1, OwnedEnd, ConstantsTyped
      DEF LoseInsert, RefuseTransition, RefuseVerify, End, row
  <2>4. CASE CommitTransition(w)
    <3>1. CASE Op(w) = "execute"
      BY <2>4, <3>1, OwnedStart DEF CommitTransition
    <3>2. CASE Op(w) # "execute"
      BY <2>4, <3>2 DEF CommitTransition, Target, Transitions, Allowed, ExecutionIsOwned
    <3>3. QED
      BY <3>1, <3>2
  <2>5. CASE RereadStarted(w) \/ RereadFailed(w) \/ RereadSucceeded(w)
    BY <2>5, OwnedGoto DEF RereadStarted, RereadFailed, RereadSucceeded, row, ExecutePCs
  <2>6. CASE ExecutionError(w) \/ RunActionsRefused(w)
    BY <2>6, OwnedGoto DEF ExecutionError, RunActionsRefused, row, ExecutePCs
  <2>7. CASE RunActions(w)
    BY <2>7, OwnedStart DEF RunActions
  <2>8. CASE FinishExecution(w)
    <3>1. CASE Seen(w).status = "verification_required"
      <4>1. ~WillLeaveExecution(w) /\ status' = status /\ req' = [req EXCEPT ![w] = Idle]
        BY <2>8, <3>1 DEF FinishExecution, WillLeaveExecution, Flush, End
      <4>2. QED
        BY <4>1, OwnedEnd, ConstantsTyped
    <3>2. CASE Seen(w).status # "verification_required"
      BY <2>8, <3>2 DEF FinishExecution, Flush, ExecutionIsOwned
    <3>3. QED
      BY <3>1, <3>2
  <2>9. CASE MarkFailed(w)
    <3>1. CASE Seen(w).status = "failed"
      <4>1. ~WillLeaveExecution(w) /\ status' = status /\ req' = [req EXCEPT ![w] = Idle]
        BY <2>9, <3>1 DEF MarkFailed, WillLeaveExecution, Flush, End
      <4>2. QED
        BY <4>1, OwnedEnd, ConstantsTyped
    <3>2. CASE Seen(w).status # "failed"
      BY <2>9, <3>2 DEF MarkFailed, Flush, ExecutionIsOwned
    <3>3. QED
      BY <3>1, <3>2
  <2>10. QED
    BY <1>2, <2>1, <2>2, <2>3, <2>4, <2>5, <2>6, <2>7, <2>8, <2>9 DEF Serve
<1>3. ASSUME NEW w \in Workers, Crash(w) PROVE ExecutionIsOwned'
  BY <1>3 DEF Crash, ExecutionIsOwned
<1>4. ASSUME NEW w \in Workers, NEW u \in Users,
             \/ LoadRecommendation(w, u)
             \/ RefuseRecommendation(w, u)
             \/ \E op \in Transitions \union {"verify"} : LoadPlan(w, u, op)
      PROVE  ExecutionIsOwned'
  <2>1. req[w] = Idle /\ status' = status
    BY <1>4 DEF LoadRecommendation, RefuseRecommendation, LoadPlan, Arrive, row
  <2>2. ~WillLeaveExecution(w)
    BY <2>1 DEF WillLeaveExecution, Idle, ExecutePCs
  <2>3. PICK r : req' = [req EXCEPT ![w] = r]
    BY <1>4 DEF LoadRecommendation, RefuseRecommendation, LoadPlan, Arrive, End
  <2>4. \A v \in Workers : WillLeaveExecution(v) => WillLeaveExecution(v)'
    BY <2>2, <2>3 DEF TypeOK, WillLeaveExecution, At, Seen
  <2>5. QED
    BY <2>1, <2>4 DEF ExecutionIsOwned
<1>5. QED
  BY <1>1, <1>2, <1>3, <1>4 DEF Next

(* While no worker dies, a plan marked executing or succeeded always has a *)
(* worker whose next write moves it on.                                    *)
THEOREM ExecutionsAreOwned == Spec => []ExecutionIsOwned
<1>1. Init => ExecutionIsOwned
  BY DEF Init, ExecutionIsOwned
<1>2. QED
  BY <1>1, OwnedStep, Typing, PTL DEF Spec

-----------------------------------------------------------------------------
(* Generation                                                              *)

(* A generate in progress works on a recommendation that was accepted, and *)
(* one about to insert on a safe one.                                      *)
GenerationInv ==
  /\ OnePlanPerRecommendation
  /\ \A w \in Workers :
       /\ req[w].pc \in {"lookup", "insert"} => recommendation.status # "reviewed"
       /\ req[w].pc = "insert" => recommendation.safe

LEMMA GenerationStep == TypeOK /\ GenerationInv /\ [Next]_vars => GenerationInv'
<1> SUFFICES ASSUME TypeOK, GenerationInv, [Next]_vars PROVE GenerationInv'
  OBVIOUS
<1> USE DEF TypeOK, GenerationInv, OnePlanPerRecommendation
<1>1. CASE AcceptRecommendation \/ ImplementRecommendation \/ UNCHANGED vars
  BY <1>1 DEF AcceptRecommendation, ImplementRecommendation, vars, row
<1>2. ASSUME NEW w \in Workers, InsertPlan(w) PROVE GenerationInv'
  BY <1>2 DEF InsertPlan, End, At, Idle
<1>3. ASSUME NEW w \in Workers, LookupPlan(w) PROVE GenerationInv'
  BY <1>3 DEF LookupPlan, End, Goto, At, Idle, row
<1>4. ASSUME NEW w \in Workers, UNCHANGED <<recommendation, plan>>,
             NEW r, req' = [req EXCEPT ![w] = r], r.pc \notin {"lookup", "insert"},
             \/ UNCHANGED reply
             \/ \E c : reply' = [reply EXCEPT ![w] = [code |-> c, plan |-> NoPlan]]
             \/ \E c : reply' = [reply EXCEPT ![w] = [code |-> c, plan |-> plan]]
      PROVE  GenerationInv'
  BY <1>4
<1>5. ASSUME NEW w \in Workers, Serve(w) \/ Crash(w), ~InsertPlan(w), ~LookupPlan(w)
      PROVE  GenerationInv'
  <2>1. Idle.pc \notin {"lookup", "insert"}
    BY DEF Idle
  <2>2. CASE LoseInsert(w) \/ RefuseTransition(w) \/ RefuseVerify(w)
    BY <2>2, <2>1, <1>4 DEF LoseInsert, RefuseTransition, RefuseVerify, End, row
  <2>3. CASE CommitTransition(w) /\ Op(w) # "execute"
    BY <2>3, <2>1, <1>4 DEF CommitTransition, End
  <2>4. CASE FinishExecution(w) \/ MarkFailed(w) \/ CommitVerify(w)
    BY <2>4, <2>1, <1>4 DEF FinishExecution, MarkFailed, CommitVerify, End
  <2>5. CASE Crash(w)
    BY <2>5, <2>1, <1>4 DEF Crash, row
  <2>6. ASSUME NEW pc \in ExecutePCs, Goto(w, pc) \/ Reread(w, pc),
               UNCHANGED <<recommendation, plan, reply>>
        PROVE  GenerationInv'
    <3>1. \A v \in Workers : req'[v].pc \in {req[v].pc, pc}
      <4>1. CASE Goto(w, pc)
        BY <4>1 DEF Goto
      <4>2. CASE Reread(w, pc)
        BY <4>2 DEF Reread
      <4>3. QED
        BY <2>6, <4>1, <4>2
    <3>2. pc \notin {"lookup", "insert"}
      BY DEF ExecutePCs
    <3>3. QED
      BY <2>6, <3>1, <3>2
  <2>7. CASE CommitTransition(w) /\ Op(w) = "execute"
    BY <2>7, <2>6 DEF CommitTransition, ExecutePCs
  <2>8. CASE \/ RereadStarted(w) \/ RunActions(w) \/ RunActionsRefused(w) \/ RereadSucceeded(w)
             \/ ExecutionError(w) \/ RereadFailed(w)
    BY <2>8, <2>6 DEF RereadStarted, RunActions, RunActionsRefused, RereadSucceeded,
                      ExecutionError, RereadFailed, ExecutePCs, row
  <2>9. QED
    BY <1>5, <2>2, <2>3, <2>4, <2>5, <2>7, <2>8 DEF Serve
<1>6. ASSUME NEW w \in Workers, NEW u \in Users, LoadRecommendation(w, u) PROVE GenerationInv'
  BY <1>6 DEF LoadRecommendation, Arrive, NoReply, row
<1>7. ASSUME NEW w \in Workers, NEW u \in Users, RefuseRecommendation(w, u) PROVE GenerationInv'
  BY <1>7, <1>4 DEF RefuseRecommendation, End, Idle, row
<1>8. ASSUME NEW w \in Workers, NEW u \in Users, NEW op \in Transitions \union {"verify"},
             LoadPlan(w, u, op)
      PROVE  GenerationInv'
  BY <1>8 DEF LoadPlan, Arrive, NoReply, row
<1>9. QED
  BY <1>1, <1>2, <1>3, <1>5, <1>6, <1>7, <1>8 DEF Next

(* All successful generates of a recommendation return its one plan.       *)
THEOREM GenerationIsIdempotent == Spec => []OnePlanPerRecommendation
<1>1. Init => GenerationInv
  BY DEF Init, GenerationInv, OnePlanPerRecommendation, Idle, NoReply
<1>2. GenerationInv => OnePlanPerRecommendation
  BY DEF GenerationInv
<1>3. QED
  BY <1>1, <1>2, GenerationStep, Typing, PTL DEF Spec

-----------------------------------------------------------------------------
(* Refinement                                                              *)

LEMMA GateStep ==
  TypeOK /\ ApprovalInv /\ ExecutionInv /\ [Next]_vars => [Gate!Next]_(Gate!gateVars)
<1> SUFFICES ASSUME TypeOK, ApprovalInv, ExecutionInv, [Next]_vars
             PROVE  Gate!Next \/ UNCHANGED <<approvedBy # Nobody, action = "succeeded", verifiedRow>>
  BY DEF Gate!gateVars
<1>1. CASE UNCHANGED <<approvedBy, action, verifiedRow>>
  BY <1>1
<1>2. ASSUME NEW w \in Workers, CommitTransition(w)
      PROVE  Gate!Next \/ UNCHANGED <<approvedBy # Nobody, action = "succeeded", verifiedRow>>
  <2>1. approvedBy # Nobody => (approvedBy # Nobody)'
    BY <1>2, RemediationAssumption
    DEF CommitTransition, Flush, ApprovalInv, Approvers
  <2>2. UNCHANGED <<action, verifiedRow>>
    BY <1>2 DEF CommitTransition
  <2>3. QED
    BY <2>1, <2>2 DEF Gate!Next, Gate!Approve
<1>3. ASSUME NEW w \in Workers, RunActions(w) \/ RunActionsRefused(w) PROVE Gate!Next
  <2>1. approvedBy # Nobody
    BY <1>3, RemediationAssumption
    DEF RunActions, RunActionsRefused, ApprovalInv, Covered, Approved, At, ExecutePCs, Approvers
  <2>2. QED
    BY <1>3, <2>1 DEF RunActions, RunActionsRefused, Gate!Next, Gate!Run
<1>4. ASSUME NEW w \in Workers, CommitVerify(w) PROVE Gate!Next
  <2>1. action = "succeeded"
    BY <1>4 DEF CommitVerify, ExecutionInv, AwaitsOrVerified
  <2>2. QED
    BY <1>4, <2>1 DEF CommitVerify, Gate!Next, Gate!Verify
<1>5. QED
  <2>1. ASSUME NEW w \in Workers, Serve(w) \/ Crash(w)
        PROVE  \/ UNCHANGED <<approvedBy, action, verifiedRow>>
               \/ CommitTransition(w) \/ RunActions(w) \/ RunActionsRefused(w) \/ CommitVerify(w)
    BY <2>1 DEF Serve, Crash, LookupPlan, InsertPlan, LoseInsert, RefuseTransition,
                RereadStarted, RereadSucceeded, FinishExecution, ExecutionError,
                RereadFailed, MarkFailed, RefuseVerify, row
  <2>2. QED
    BY <2>1, <1>1, <1>2, <1>3, <1>4
    DEF Next, vars, row, AcceptRecommendation, ImplementRecommendation,
        LoadRecommendation, RefuseRecommendation, LoadPlan

(* The service implements the approval gate: no interleaving of requests   *)
(* records a run before an approval or a verification before a run, and    *)
(* none erases what was recorded.                                          *)
THEOREM ImplementsGate == Spec => GateSpec
<1>1. Init => Gate!Init
  BY DEF Init, Gate!Init
<1>2. QED
  BY <1>1, GateStep, Typing, ApprovalInvariant, ExecutionInvariant, PTL
  DEF Spec, GateSpec, Gate!Spec

-----------------------------------------------------------------------------
(* Requests that do not overlap                                            *)

(* From its load to its last commit, a request is the only one.            *)
ServedInTurn == \A w, v \in Workers : req[w] # Idle /\ req[v] # Idle => w = v

(* One thread alone cannot help but serve in turn.                         *)
LEMMA OneThreadInTurn == ASSUME NEW t, Workers = {t} PROVE Spec => []ServedInTurn
<1>1. ServedInTurn
  BY DEF ServedInTurn
<1>2. QED
  BY <1>1, PTL

InExecution == {"executing", "succeeded"}

(* The status a request loaded is then the one it commits over, and an     *)
(* execution finds the plan where it left it.                              *)
Fresh(r) ==
  /\ r.pc \in {"loaded", "running", "finishing", "marking"} => r.seen.status = status
  /\ r.pc \in {"started", "running"} => status = "executing"
  /\ r.pc \in {"succeeded", "finishing"} => status = "succeeded"
  /\ r.pc \in {"failing", "marking"} => status \in InExecution

FreshInv == \A w \in Workers : Fresh(req[w])

(* Before the plan exists nobody works on it.                              *)
UnplannedInv ==
  plan = NoPlan => status = "draft" /\ \A w \in Workers : req[w].pc \in {"idle", "lookup", "insert"}

LEMMA IdleFresh == Idle.pc = "idle" /\ Fresh(Idle) /\ Fresh(Idle)'
  BY DEF Fresh, Idle

LEMMA OwnRequest ==
  ASSUME TypeOK, NEW w \in Workers, NEW pc, NEW code, NEW id,
         Goto(w, pc) \/ Reread(w, pc) \/ End(w, code, id)
  PROVE  /\ \A v \in Workers \ {w} : req'[v] = req[v]
         /\ Goto(w, pc) => req'[w] = [req[w] EXCEPT !.pc = pc]
         /\ Reread(w, pc) => req'[w] = [req[w] EXCEPT !.pc = pc, !.seen = Stored]
         /\ End(w, code, id) => req'[w] = Idle
<1>1. Goto(w, pc) => /\ \A v \in Workers \ {w} : req'[v] = req[v]
                     /\ req'[w] = [req[w] EXCEPT !.pc = pc]
  BY DEF Goto, TypeOK
<1>2. Reread(w, pc) => /\ \A v \in Workers \ {w} : req'[v] = req[v]
                       /\ req'[w] = [req[w] EXCEPT !.pc = pc, !.seen = Stored]
  BY DEF Reread, TypeOK
<1>3. End(w, code, id) => /\ \A v \in Workers \ {w} : req'[v] = req[v]
                          /\ req'[w] = Idle
  BY DEF End, TypeOK
<1>4. QED
  BY <1>1, <1>2, <1>3

(* The only request in progress may move the plan: it need only be fresh   *)
(* itself.                                                                 *)
LEMMA OwnFresh ==
  ASSUME TypeOK, ServedInTurn, NEW w \in Workers, req[w].pc # "idle",
         \A v \in Workers \ {w} : req'[v] = req[v], Fresh(req[w])'
  PROVE  FreshInv'
<1>1. \A v \in Workers \ {w} : req'[v] = Idle
  BY IdleFresh DEF ServedInTurn
<1>2. \A v \in Workers \ {w} : req'[v].pc = "idle"
  BY <1>1, IdleFresh
<1>3. QED
  BY <1>2 DEF FreshInv, Fresh

LEMMA ServedFresh ==
  ASSUME TypeOK, ServedInTurn, FreshInv, UnplannedInv, NEW w \in Workers, Serve(w)
  PROVE  FreshInv'
<1>0. Fresh(req[w]) /\ req[w] \in Requests
  BY DEF FreshInv, TypeOK, Requests
<1>1. ASSUME NEW code, NEW id, End(w, code, id), req[w].pc # "idle" PROVE FreshInv'
  <2>1. Fresh(req[w])'
    BY <1>1, OwnRequest, IdleFresh DEF Fresh
  <2>2. QED
    BY <1>1, <2>1, OwnRequest, OwnFresh
<1>2. ASSUME NEW pc, Goto(w, pc) \/ Reread(w, pc), req[w].pc # "idle",
             LET r == req'[w] IN
             /\ pc \in {"loaded", "running", "finishing", "marking"} => r.seen.status = status'
             /\ pc \in {"started", "running"} => status' = "executing"
             /\ pc \in {"succeeded", "finishing"} => status' = "succeeded"
             /\ pc \in {"failing", "marking"} => status' \in InExecution
      PROVE  FreshInv'
  <2>1. /\ \A v \in Workers \ {w} : req'[v] = req[v]
        /\ Goto(w, pc) => req'[w] = [req[w] EXCEPT !.pc = pc]
        /\ Reread(w, pc) => req'[w] = [req[w] EXCEPT !.pc = pc, !.seen = Stored]
    BY <1>2, OwnRequest
  <2>2. req'[w].pc = pc
    BY <1>0, <1>2, <2>1 DEF Requests
  <2>3. Fresh(req[w])'
    BY <1>2, <2>2 DEF Fresh
  <2>4. QED
    BY <1>2, <2>1, <2>3, OwnFresh
<1>3. ASSUME NEW pc, Reread(w, pc), UNCHANGED status PROVE req'[w].seen.status = status'
  <2>1. req'[w] = [req[w] EXCEPT !.pc = pc, !.seen = Stored] /\ Stored.status = status
    BY <1>3, OwnRequest DEF Stored
  <2>2. QED
    BY <1>0, <1>3, <2>1 DEF Requests
<1>4. CASE \/ InsertPlan(w) \/ LoseInsert(w) \/ RefuseTransition(w) \/ FinishExecution(w)
           \/ MarkFailed(w) \/ RefuseVerify(w) \/ CommitVerify(w)
  BY <1>1, <1>4 DEF InsertPlan, LoseInsert, RefuseTransition, FinishExecution, MarkFailed,
                    RefuseVerify, CommitVerify, At
<1>5. CASE LookupPlan(w)
  BY <1>1, <1>2, <1>5 DEF LookupPlan, At
<1>6. CASE CommitTransition(w)
  <2>1. CASE Op(w) = "execute"
    BY <1>2, <1>6, <2>1 DEF CommitTransition, Target, At
  <2>2. CASE Op(w) # "execute"
    BY <1>1, <1>6, <2>2 DEF CommitTransition, At
  <2>3. QED
    BY <2>1, <2>2
<1>7. CASE RereadStarted(w)
  BY <1>0, <1>2, <1>3, <1>7 DEF RereadStarted, At, Fresh, row
<1>8. CASE RunActions(w)
  BY <1>2, <1>8 DEF RunActions, At
<1>9. CASE RunActionsRefused(w)
  BY <1>0, <1>9 DEF RunActionsRefused, At, Fresh, Seen
<1>10. CASE RereadSucceeded(w)
  BY <1>0, <1>2, <1>3, <1>10 DEF RereadSucceeded, At, Fresh, row
<1>11. CASE ExecutionError(w)
  BY <1>0, <1>2, <1>11 DEF ExecutionError, Fresh, row, InExecution
<1>12. CASE RereadFailed(w)
  BY <1>0, <1>2, <1>3, <1>12 DEF RereadFailed, At, Fresh, row
<1>13. QED
  BY <1>4, <1>5, <1>6, <1>7, <1>8, <1>9, <1>10, <1>11, <1>12 DEF Serve

(* A step that leaves the plan alone and begins or drops a request.        *)
LEMMA BegunFresh ==
  ASSUME TypeOK, FreshInv, NEW w \in Workers, NEW r, r.pc = "loaded" => r.seen.status = status,
         r.pc \in {"idle", "lookup", "loaded"}, req' = [req EXCEPT ![w] = r], UNCHANGED status
  PROVE  FreshInv'
<1>1. \A v \in Workers \ {w} : req'[v] = req[v]
  BY DEF TypeOK
<1>2. req'[w] = r
  BY DEF TypeOK
<1>3. Fresh(r)'
  BY DEF Fresh
<1>4. QED
  BY <1>1, <1>2, <1>3 DEF FreshInv, Fresh

LEMMA ArrivedFresh ==
  ASSUME TypeOK, FreshInv, NEW w \in Workers, NEW u, NEW op, NEW pc \in {"lookup", "loaded"},
         Arrive(w, u, op, pc), UNCHANGED status
  PROVE  FreshInv'
<1> DEFINE r == [pc |-> pc, op |-> op, actor |-> u, seen |-> Stored]
<1>1. r.seen.status = status /\ r.pc = pc
  BY DEF Stored
<1> HIDE DEF r
<1>2. req' = [req EXCEPT ![w] = r]
  BY DEF Arrive, r
<1>3. QED
  BY <1>1, <1>2, BegunFresh

LEMMA FreshStep ==
  TypeOK /\ ServedInTurn /\ FreshInv /\ UnplannedInv /\ [Next]_vars => FreshInv'
<1> SUFFICES ASSUME TypeOK, ServedInTurn, FreshInv, UnplannedInv, [Next]_vars PROVE FreshInv'
  OBVIOUS
<1>1. CASE AcceptRecommendation \/ ImplementRecommendation \/ UNCHANGED vars
  BY <1>1 DEF AcceptRecommendation, ImplementRecommendation, vars, row, FreshInv, Fresh
<1>2. ASSUME NEW w \in Workers, Crash(w) PROVE FreshInv'
  BY <1>2, IdleFresh, BegunFresh DEF Crash, row
<1>3. ASSUME NEW w \in Workers, NEW u \in Users, LoadRecommendation(w, u) PROVE FreshInv'
  BY <1>3, ArrivedFresh DEF LoadRecommendation, row
<1>4. ASSUME NEW w \in Workers, NEW u \in Users, RefuseRecommendation(w, u) PROVE FreshInv'
  BY <1>4, IdleFresh, BegunFresh DEF RefuseRecommendation, End, row
<1>5. ASSUME NEW w \in Workers, NEW u \in Users, NEW op \in Transitions \union {"verify"},
             LoadPlan(w, u, op)
      PROVE  FreshInv'
  BY <1>5, ArrivedFresh DEF LoadPlan, row
<1>6. QED
  BY <1>1, <1>2, <1>3, <1>4, <1>5, ServedFresh DEF Next

LEMMA UnplannedStep == TypeOK /\ UnplannedInv /\ [Next]_vars => UnplannedInv'
<1> SUFFICES ASSUME TypeOK, UnplannedInv, [Next]_vars, plan' = NoPlan
             PROVE  status' = "draft" /\ \A v \in Workers : req'[v].pc \in {"idle", "lookup", "insert"}
  BY DEF UnplannedInv
<1>1. plan = NoPlan
  BY RemediationAssumption
  DEF Next, Serve, vars, row, InsertPlan, AcceptRecommendation, ImplementRecommendation, Crash,
      LoadRecommendation, RefuseRecommendation, LoadPlan, LookupPlan, LoseInsert, RefuseTransition,
      CommitTransition, RereadStarted, RunActions, RunActionsRefused, RereadSucceeded,
      FinishExecution, ExecutionError, RereadFailed, MarkFailed, RefuseVerify, CommitVerify
<1>2. status = "draft" /\ \A v \in Workers : req[v].pc \in {"idle", "lookup", "insert"}
  BY <1>1 DEF UnplannedInv
<1>3. ASSUME NEW w \in Workers, NEW r, r.pc \in {"idle", "lookup", "insert"},
             req' = [req EXCEPT ![w] = r]
      PROVE  \A v \in Workers : req'[v].pc \in {"idle", "lookup", "insert"}
  BY <1>2, <1>3 DEF TypeOK
<1>4. CASE AcceptRecommendation \/ ImplementRecommendation \/ UNCHANGED vars
  BY <1>2, <1>4 DEF AcceptRecommendation, ImplementRecommendation, vars, row
<1>5. ASSUME NEW w \in Workers, Serve(w)
      PROVE  status' = "draft" /\ \A v \in Workers : req'[v].pc \in {"idle", "lookup", "insert"}
  <2>1. LookupPlan(w) \/ InsertPlan(w)
    BY <1>1, <1>2, <1>5
    DEF Serve, At, LoseInsert, RefuseTransition, CommitTransition, RereadStarted, RunActions,
        RunActionsRefused, RereadSucceeded, FinishExecution, ExecutionError, RereadFailed,
        MarkFailed, RefuseVerify, CommitVerify
  <2>2. status' = "draft"
    BY <1>2, <2>1 DEF LookupPlan, InsertPlan, row
  <2>3. req' = [req EXCEPT ![w] = Idle] \/ req' = [req EXCEPT ![w].pc = "insert"]
    BY <2>1 DEF LookupPlan, InsertPlan, End, Goto
  <2>4. CASE req' = [req EXCEPT ![w] = Idle]
    <3>1. req'[w] = Idle /\ \A v \in Workers \ {w} : req'[v] = req[v]
      BY <2>4 DEF TypeOK
    <3>2. QED
      BY <1>2, <2>2, <3>1, IdleFresh
  <2>5. CASE req' = [req EXCEPT ![w].pc = "insert"]
    <3>1. req'[w].pc = "insert"
      BY <2>5 DEF TypeOK, Requests
    <3>2. \A v \in Workers \ {w} : req'[v] = req[v]
      BY <2>5 DEF TypeOK
    <3>3. QED
      BY <1>2, <2>2, <3>1, <3>2
  <2>6. QED
    BY <2>3, <2>4, <2>5
<1>6. ASSUME NEW w \in Workers, Crash(w)
      PROVE  status' = "draft" /\ \A v \in Workers : req'[v].pc \in {"idle", "lookup", "insert"}
  BY <1>2, <1>3, <1>6, IdleFresh DEF Crash, row
<1>7. ASSUME NEW w \in Workers, NEW u \in Users, LoadRecommendation(w, u)
      PROVE  status' = "draft" /\ \A v \in Workers : req'[v].pc \in {"idle", "lookup", "insert"}
  BY <1>2, <1>3, <1>7 DEF LoadRecommendation, Arrive, row
<1>8. ASSUME NEW w \in Workers, NEW u \in Users, RefuseRecommendation(w, u)
      PROVE  status' = "draft" /\ \A v \in Workers : req'[v].pc \in {"idle", "lookup", "insert"}
  BY <1>2, <1>3, <1>8, IdleFresh DEF RefuseRecommendation, End, row
<1>9. QED
  BY <1>1, <1>4, <1>5, <1>6, <1>7, <1>8 DEF Next, LoadPlan

(* The order in which the statuses of a plan follow one another when its   *)
(* requests do.                                                            *)
Order ==
  {<<"draft", "pending_approval">>, <<"pending_approval", "approved">>,
   <<"pending_approval", "rejected">>, <<"approved", "queued">>, <<"queued", "executing">>,
   <<"executing", "succeeded">>, <<"executing", "failed">>, <<"succeeded", "failed">>,
   <<"succeeded", "verification_required">>, <<"verification_required", "verified">>}
    \union ({"draft", "pending_approval", "approved", "queued"} \X {"cancelled"})

OrderFollowed == status' # status => <<status, status'>> \in Order

LEMMA OrderStep == TypeOK /\ FreshInv /\ UnplannedInv /\ [Next]_vars => OrderFollowed
<1> SUFFICES ASSUME TypeOK, FreshInv, UnplannedInv, [Next]_vars, status' # status
             PROVE  <<status, status'>> \in Order
  BY DEF OrderFollowed
<1>1. PICK w \in Workers : \/ InsertPlan(w) \/ CommitTransition(w) \/ RunActions(w)
                           \/ FinishExecution(w) \/ MarkFailed(w) \/ CommitVerify(w)
  BY DEF Next, Serve, vars, row, AcceptRecommendation, ImplementRecommendation, Crash,
         LoadRecommendation, RefuseRecommendation, LoadPlan, LookupPlan, LoseInsert,
         RefuseTransition, RereadStarted, RunActionsRefused, RereadSucceeded, ExecutionError,
         RereadFailed, RefuseVerify
<1>2. Fresh(req[w])
  BY DEF FreshInv
<1>3. CASE InsertPlan(w)
  BY <1>3 DEF InsertPlan, UnplannedInv
<1>4. CASE CommitTransition(w)
  <2>1. /\ status \in Allowed[Op(w)] /\ status' = Target[Op(w)]
        /\ Op(w) \in {"submit", "approve", "reject", "queue", "cancel", "execute"}
    BY <1>2, <1>4 DEF CommitTransition, At, Fresh, Seen, Transitions, Allowed
  <2>2. QED
    BY <2>1 DEF Allowed, Target, Order
<1>5. CASE RunActions(w)
  BY <1>2, <1>5 DEF RunActions, At, Fresh, Order
<1>6. CASE FinishExecution(w)
  <2>1. status = "succeeded" /\ status' \in {status, "verification_required"}
    BY <1>2, <1>6 DEF FinishExecution, At, Fresh, Flush
  <2>2. QED
    BY <2>1 DEF Order
<1>7. CASE MarkFailed(w)
  <2>1. status \in {"executing", "succeeded"} /\ status' \in {status, "failed"}
    BY <1>2, <1>7 DEF MarkFailed, At, Fresh, Flush, InExecution
  <2>2. QED
    BY <2>1 DEF Order
<1>8. CASE CommitVerify(w)
  BY <1>2, <1>8 DEF CommitVerify, At, Fresh, Seen, Order
<1>9. QED
  BY <1>1, <1>3, <1>4, <1>5, <1>6, <1>7, <1>8

(* Served one after the other, the requests move the plan along that       *)
(* order...                                                                *)
THEOREM OrderHoldsInTurn == Spec /\ []ServedInTurn => [][OrderFollowed]_vars
<1>1. Init => FreshInv /\ UnplannedInv
  <2>1. ASSUME Init PROVE status = "draft" /\ \A w \in Workers : req[w] = Idle
    BY <2>1 DEF Init
  <2>2. QED
    BY <2>1, IdleFresh DEF FreshInv, UnplannedInv
<1>2. QED
  BY <1>1, FreshStep, UnplannedStep, OrderStep, Typing, PTL DEF Spec

(* ... and an execution starts on no plan that is unapproved, rejected or  *)
(* cancelled, as the test of execution says.                               *)
THEOREM NoneExecutesUnapprovedInTurn == Spec /\ []ServedInTurn => UnapprovedNeverExecutes
<1>1. OrderFollowed =>
        (status' = "executing" =>
           status \notin {"draft", "pending_approval", "rejected", "cancelled"})
  BY DEF OrderFollowed, Order
<1>2. QED
  BY <1>1, OrderHoldsInTurn, PTL DEF UnapprovedNeverExecutes

-----------------------------------------------------------------------------
(* The end of executions                                                   *)

(* Several requests may hold the plan in execution at once.  Each one's    *)
(* way out is finite, and one that is on the last i steps of it does not   *)
(* go back.                                                                *)
Held == status \in {"executing", "succeeded"}

Last1 == {"marking"}
Last2 == Last1 \union {"failing"}
Last3 == Last2 \union {"finishing"}
Last4 == Last3 \union {"succeeded"}
Last5 == Last4 \union {"running"}
Last6 == Last5 \union {"started"}
Tails == {Last1, Last2, Last3, Last4, Last5, Last6}

LeavesWithin(w, tail) == WillLeaveExecution(w) /\ req[w].pc \in tail
Within(tail) == \E w \in Workers : LeavesWithin(w, tail)

(* The workers that hold the plan and are on the last steps go on.  It is  *)
(* the weak fairness of their steps, with the execution itself in the      *)
(* place of their being enabled.                                           *)
ExecutorStep(tail) == \E w \in Workers : LeavesWithin(w, tail) /\ Serve(w)
ExecutorsGoOn(tail) == []<>~Within(tail) \/ []<><<ExecutorStep(tail)>>_vars

(* The step an executor takes while the plan stays held.                   *)
LEMMA ExecutorMoves ==
  ASSUME TypeOK, NEW w \in Workers, WillLeaveExecution(w), Serve(w), Held, Held'
  PROVE  /\ WillLeaveExecution(w)'
         /\ \/ At(w, "started") /\ At(w, "running")'
            \/ At(w, "running") /\ At(w, "succeeded")'
            \/ req[w].pc \in {"running", "succeeded", "finishing"} /\ At(w, "failing")'
            \/ At(w, "succeeded") /\ At(w, "finishing")'
            \/ At(w, "failing") /\ At(w, "marking")'
<1>1. req[w].pc \in ExecutePCs
  BY DEF WillLeaveExecution
<1>2. Stored.status = status /\ status \in {"executing", "succeeded"}
  BY DEF Held, Stored
<1>3. CASE RereadStarted(w) \/ RereadSucceeded(w) \/ RereadFailed(w)
  <2>1. PICK pc \in {"running", "finishing", "marking"} :
          /\ Reread(w, pc)
          /\ pc = "running" => At(w, "started")
          /\ pc = "finishing" => At(w, "succeeded")
          /\ pc = "marking" => At(w, "failing")
    BY <1>3 DEF RereadStarted, RereadSucceeded, RereadFailed
  <2>2. req'[w].pc = pc /\ req'[w].seen = Stored
    BY <2>1 DEF Reread, TypeOK
  <2>3. QED
    BY <1>2, <2>1, <2>2 DEF WillLeaveExecution, At, Seen, ExecutePCs
<1>4. CASE RunActions(w) \/ RunActionsRefused(w) \/ ExecutionError(w)
  <2>1. PICK pc \in {"succeeded", "failing"} :
          /\ Goto(w, pc)
          /\ pc = "succeeded" => At(w, "running")
          /\ pc = "failing" => req[w].pc \in {"running", "succeeded", "finishing"}
    BY <1>4 DEF RunActions, RunActionsRefused, ExecutionError, At
  <2>2. req'[w].pc = pc
    BY <2>1 DEF Goto, TypeOK
  <2>3. QED
    BY <2>1, <2>2 DEF WillLeaveExecution, At, ExecutePCs
<1>5. ~FinishExecution(w) /\ ~MarkFailed(w)
  BY DEF FinishExecution, MarkFailed, Flush, WillLeaveExecution, Held
<1>6. QED
  BY <1>1, <1>3, <1>4, <1>5
  DEF Serve, LookupPlan, InsertPlan, LoseInsert, RefuseTransition, CommitTransition,
      RefuseVerify, CommitVerify, At, ExecutePCs

(* Nobody else, unless the process dies, moves an executor.                *)
LEMMA ExecutorWaits ==
  ASSUME ~MayCrash, TypeOK, [Next]_vars, NEW w \in Workers, WillLeaveExecution(w), ~Serve(w)
  PROVE  req'[w] = req[w]
<1>1. req[w].pc \in ExecutePCs /\ req[w] # Idle
  BY DEF WillLeaveExecution, ExecutePCs, Idle
<1>2. CASE req' = req
  BY <1>2
<1>3. ASSUME NEW v \in Workers, Serve(v) PROVE req'[w] = req[w]
  <2>1. v # w
    BY <1>3
  <2>2. PICK r : req' = [req EXCEPT ![v] = r]
    BY <1>3
    DEF Serve, LookupPlan, InsertPlan, LoseInsert, RefuseTransition, CommitTransition,
        RereadStarted, RunActions, RunActionsRefused, RereadSucceeded, FinishExecution,
        ExecutionError, RereadFailed, MarkFailed, RefuseVerify, CommitVerify, Goto, Reread, End
  <2>3. QED
    BY <2>1, <2>2 DEF TypeOK
<1>4. ASSUME NEW v \in Workers, NEW u \in Users,
             \/ LoadRecommendation(v, u)
             \/ RefuseRecommendation(v, u)
             \/ \E op \in Transitions \union {"verify"} : LoadPlan(v, u, op)
      PROVE  req'[w] = req[w]
  <2>1. req[v] = Idle
    BY <1>4 DEF LoadRecommendation, RefuseRecommendation, LoadPlan, Arrive
  <2>2. PICK r : req' = [req EXCEPT ![v] = r]
    BY <1>4 DEF LoadRecommendation, RefuseRecommendation, LoadPlan, Arrive, End
  <2>3. QED
    BY <1>1, <2>1, <2>2 DEF TypeOK
<1>5. QED
  BY <1>2, <1>3, <1>4
  DEF Next, Crash, vars, AcceptRecommendation, ImplementRecommendation

(* While the plan stays held an executor stays within its last steps, and  *)
(* a step brings it nearer to the end.                                     *)
LEMMA ExecutorStays ==
  ASSUME ~MayCrash, TypeOK, [Next]_vars, Held, Held', NEW tail \in Tails, Within(tail)
  PROVE  Within(tail)'
<1>1. PICK w \in Workers : LeavesWithin(w, tail)
  BY DEF Within
<1>2. CASE Serve(w)
  <2>1. WillLeaveExecution(w)' /\ req'[w].pc \in tail
    BY <1>1, <1>2, ExecutorMoves
    DEF LeavesWithin, Tails, At, Last1, Last2, Last3, Last4, Last5, Last6
  <2>2. QED
    BY <2>1 DEF Within, LeavesWithin
<1>3. CASE ~Serve(w)
  <2>1. req'[w] = req[w]
    BY <1>1, <1>3, ExecutorWaits DEF LeavesWithin
  <2>2. QED
    BY <1>1, <2>1 DEF Within, LeavesWithin, WillLeaveExecution, At, Seen
<1>4. QED
  BY <1>2, <1>3

LEMMA ExecutorAdvances ==
  ASSUME TypeOK, Held, Held'
  PROVE  /\ ~ExecutorStep(Last1)
         /\ ExecutorStep(Last2) => Within(Last1)'
         /\ ExecutorStep(Last3) => Within(Last2)'
         /\ ExecutorStep(Last4) => Within(Last3)'
         /\ ExecutorStep(Last5) => Within(Last4)'
         /\ ExecutorStep(Last6) => Within(Last5)'
<1>1. ASSUME NEW tail, NEW rest, ExecutorStep(tail),
             "started" \in tail => "running" \in rest,
             "running" \in tail => "succeeded" \in rest /\ "failing" \in rest,
             "succeeded" \in tail => "finishing" \in rest /\ "failing" \in rest,
             "finishing" \in tail => "failing" \in rest,
             "failing" \in tail => "marking" \in rest
      PROVE  Within(rest)'
  <2>1. PICK w \in Workers : LeavesWithin(w, tail) /\ Serve(w)
    BY <1>1 DEF ExecutorStep
  <2>2. WillLeaveExecution(w)' /\ req'[w].pc \in rest
    BY <1>1, <2>1, ExecutorMoves DEF LeavesWithin, At
  <2>3. QED
    BY <2>2 DEF Within, LeavesWithin
<1>2. ~ExecutorStep(Last1)
  BY ExecutorMoves DEF ExecutorStep, LeavesWithin, Last1, At
<1>3. QED
  BY <1>1, <1>2 DEF Last1, Last2, Last3, Last4, Last5, Last6

(* While no worker dies and those that hold the plan go on, every          *)
(* execution ends, however many requests execute, cancel or verify the     *)
(* plan at the same time and whatever raises in their try blocks.          *)
THEOREM ExecutionsEndIfServed ==
  ASSUME ~MayCrash PROVE Spec /\ (\A tail \in Tails : ExecutorsGoOn(tail)) => ExecutionEnds
<1>1. ASSUME ~MayCrash
      PROVE  /\ Spec
             /\ ExecutorsGoOn(Last1) /\ ExecutorsGoOn(Last2) /\ ExecutorsGoOn(Last3)
             /\ ExecutorsGoOn(Last4) /\ ExecutorsGoOn(Last5) /\ ExecutorsGoOn(Last6)
             => ExecutionEnds
  <2>1. ExecutionIsOwned /\ Held => Within(Last6)
    BY DEF ExecutionIsOwned, Held, Within, LeavesWithin, WillLeaveExecution, ExecutePCs,
           Last1, Last2, Last3, Last4, Last5, Last6
  <2>2. TypeOK /\ [Next]_vars /\ Held =>
          /\ Within(Last1) => Within(Last1)' \/ ~Held'
          /\ Within(Last2) => Within(Last2)' \/ ~Held'
          /\ Within(Last3) => Within(Last3)' \/ ~Held'
          /\ Within(Last4) => Within(Last4)' \/ ~Held'
          /\ Within(Last5) => Within(Last5)' \/ ~Held'
          /\ Within(Last6) => Within(Last6)' \/ ~Held'
    BY <1>1, ExecutorStays DEF Tails
  <2>3. TypeOK /\ Held =>
          /\ ExecutorStep(Last1) => ~Held'
          /\ ExecutorStep(Last2) => Within(Last1)' \/ ~Held'
          /\ ExecutorStep(Last3) => Within(Last2)' \/ ~Held'
          /\ ExecutorStep(Last4) => Within(Last3)' \/ ~Held'
          /\ ExecutorStep(Last5) => Within(Last4)' \/ ~Held'
          /\ ExecutorStep(Last6) => Within(Last5)' \/ ~Held'
    BY ExecutorAdvances
  <2>4. /\ status \in {"executing", "succeeded"} <=> Held
        /\ status \notin {"executing", "succeeded"} <=> ~Held
    BY DEF Held
  <2>5. QED
    BY <2>1, <2>2, <2>3, <2>4, Typing, ExecutionsAreOwned, PTL
    DEF Spec, ExecutorsGoOn, ExecutionEnds
<1>2. QED
  BY <1>1 DEF Tails
=============================================================================
