---------------------------- MODULE IncidentProofs ----------------------------
(***************************************************************************)
(* Proofs about the incident service, for any workers, users, grants,      *)
(* summaries and levels.                                                   *)
(***************************************************************************)
EXTENDS Incident, TLAPS

(* A flushed column holds what it held or what was assigned. *)
LEMMA FlushTyped ==
  ASSUME NEW S, NEW stored \in S, NEW loaded, NEW assigned \in S
  PROVE  Flush(stored, loaded, assigned) \in S
  BY DEF Flush

LEMMA IdleTyped == Idle \in Requests
  BY DEF Idle, Requests, NoCopy, Copies, Statuses, Permission, EscalationStatuses

(* The requests a load starts. *)
LEMMA LoadedTyped ==
  ASSUME NEW op \in DOMAIN Permission, NEW u \in Users, NEW copy \in Copies
  PROVE  [Idle EXCEPT !.pc = "loaded", !.op = op, !.actor = u, !.seen = copy] \in Requests
  BY IdleTyped DEF Requests

LEMMA FoundTyped ==
  ASSUME NEW op \in DOMAIN Permission, NEW u \in Users, NEW l \in Levels,
         NEW found \in EscalationStatuses
  PROVE  [Idle EXCEPT !.pc = "found", !.op = op, !.actor = u, !.level = l, !.found = found]
           \in Requests
  BY IdleTyped DEF Requests

LEMMA EndTyped ==
  ASSUME TypeOK, NEW w \in Workers, End(w)
  PROVE  req' \in [Workers -> Requests]
  BY IdleTyped DEF TypeOK, End

LEMMA TypeStep == TypeOK /\ [Next]_vars => TypeOK'
<1> SUFFICES ASSUME TypeOK, [Next]_vars PROVE TypeOK'
  OBVIOUS
<1> USE DEF TypeOK, Statuses
<1>1. ASSUME NEW w \in Workers, Serve(w) PROVE TypeOK'
  <2>1. CASE RefuseTransition(w) \/ RefuseUpdate(w) \/ RefuseEscalation(w) \/ RefuseEscalationMove(w)
    BY <2>1, EndTyped
    DEF RefuseTransition, RefuseUpdate, RefuseEscalation, RefuseEscalationMove, incident
  <2>2. CASE CommitStart(w)
    BY <2>2, EndTyped DEF CommitStart
  <2>3. ASSUME NEW text \in Summaries, CommitResolve(w, text) PROVE TypeOK'
    <3>1. Actor(w) \in Users \union {Nobody}
      BY DEF Actor, Requests
    <3>2. /\ resolvedBy' \in Users \union {Nobody}
          /\ summary' \in Summaries \union {NoSummary}
      BY <2>3, <3>1, FlushTyped DEF CommitResolve
    <3>3. QED
      BY <2>3, <3>1, <3>2, EndTyped DEF CommitResolve
  <2>4. ASSUME NEW text \in Summaries \union {NoSummary}, CommitClose(w, text) PROVE TypeOK'
    <3>1. Actor(w) \in Users \union {Nobody} /\ Seen(w) \in Copies
      BY DEF Actor, Seen, Requests
    <3>2. Provided(w, text) \in Summaries \union {NoSummary}
      BY <3>1 DEF Provided, Copies
    <3>3. /\ closedBy' \in Users \union {Nobody}
          /\ summary' \in Summaries \union {NoSummary}
      BY <2>4, <3>1, <3>2, FlushTyped DEF CommitClose
    <3>4. QED
      BY <2>4, <3>3, EndTyped DEF CommitClose
  <2>5. ASSUME NEW u \in Users, CommitAssign(w, u) PROVE TypeOK'
    <3>1. assignee' \in Users \union {Nobody}
      BY <2>5, FlushTyped DEF CommitAssign
    <3>2. QED
      BY <2>5, <3>1, EndTyped DEF CommitAssign
  <2>6. ASSUME NEW l \in Levels, CommitEscalation(w, l) PROVE TypeOK'
    <3>1. NewEscalation \in Escalations
      BY DEF NewEscalation, Escalations, EscalationStatuses
    <3>2. escalation' \in [Levels -> Escalations]
      BY <2>6, <3>1 DEF CommitEscalation
    <3>3. QED
      BY <2>6, <3>2, EndTyped DEF CommitEscalation, incident
  <2>7. ASSUME NEW l \in Levels, RefuseLevel(w, l) PROVE TypeOK'
    BY <2>7, EndTyped DEF RefuseLevel, incident
  <2>8. CASE CommitEscalationMove(w)
    <3>1. req[w].op \in {"acknowledge", "conclude"}
      BY <2>8 DEF CommitEscalationMove, At, EscalationMoves, EscalationFrom
    <3>2. EscalationTo[req[w].op] \in EscalationStatuses
      BY <3>1 DEF EscalationTo, EscalationStatuses
    <3>3. escalation' \in [Levels -> Escalations]
      BY <2>8, <3>1, <3>2 DEF CommitEscalationMove, Escalations
    <3>4. QED
      BY <2>8, <3>3, EndTyped DEF CommitEscalationMove, incident
  <2>9. QED
    BY <1>1, <2>1, <2>2, <2>3, <2>4, <2>5, <2>6, <2>7, <2>8 DEF Serve
<1>2. ASSUME NEW w \in Workers, NEW u \in Users, NEW assigned \in Users \union {Nobody},
             Create(w, u, assigned)
      PROVE  TypeOK'
  BY <1>2 DEF Create
<1>3. ASSUME NEW w \in Workers, NEW u \in Users,
             NEW op \in Transitions \union {"assign", "update", "escalate"}, LoadIncident(w, u, op)
      PROVE  TypeOK'
  <2>1. op \in DOMAIN Permission
    BY DEF Transitions, From, Permission
  <2>2. Stored \in Copies
    BY <1>3 DEF LoadIncident, Stored, Copies
  <2>3. req' \in [Workers -> Requests]
    BY <1>3, <2>1, <2>2, LoadedTyped DEF LoadIncident, Arrive
  <2>4. QED
    BY <1>3, <2>3 DEF LoadIncident, incident
<1>4. ASSUME NEW w \in Workers, NEW u \in Users, NEW op \in EscalationMoves, NEW l \in Levels,
             FindEscalation(w, u, op, l)
      PROVE  TypeOK'
  <2>1. op \in DOMAIN Permission
    BY DEF EscalationMoves, EscalationFrom, Permission
  <2>2. req' \in [Workers -> Requests]
    <3>1. escalation[l].status \in EscalationStatuses
      BY <1>4 DEF FindEscalation, Escalations
    <3>2. QED
      BY <1>4, <2>1, <3>1, FoundTyped DEF FindEscalation, Arrive
  <2>3. QED
    BY <1>4, <2>2 DEF FindEscalation, incident
<1>5. CASE UNCHANGED vars
  BY <1>5 DEF vars, incident
<1>6. QED
  BY <1>1, <1>2, <1>3, <1>4, <1>5 DEF Next

LEMMA InitTyped == Init => TypeOK
<1> SUFFICES ASSUME Init PROVE TypeOK
  OBVIOUS
<1>1. escalation \in [Levels -> Escalations]
  BY DEF Init, Escalations
<1>2. req \in [Workers -> Requests]
  BY IdleTyped DEF Init
<1>3. QED
  BY <1>1, <1>2 DEF Init, TypeOK

(* Every reachable state is well typed, whatever the constants. *)
THEOREM Typing == Spec => []TypeOK
  BY InitTyped, TypeStep, PTL DEF Spec

-----------------------------------------------------------------------------
(* What a closure records                                                  *)

Resolved == resolvedBy # Nobody /\ resolvedAt # Nobody /\ summary # NoSummary

(* A column once written stays written, so a copy that shows it written,   *)
(* or that shows a status reached by writing it, is never ahead of the row.*)
CopyInv(w) ==
  req[w].pc = "loaded" =>
    /\ req[w].op \in {"resolve", "close"} => req[w].actor \in May(req[w].op)
    /\ Seen(w).status \in {"resolved", "closed"} => Resolved
    /\ Seen(w).resolvedBy # Nobody => resolvedBy # Nobody
    /\ Seen(w).closedBy # Nobody => closedBy # Nobody
    /\ Seen(w).summary # NoSummary => summary # NoSummary

ColumnsInv ==
  /\ {resolvedBy, resolvedAt} \subseteq May("resolve") \union {Nobody}
  /\ closedBy \in May("close") \union {Nobody}
  /\ status \in {"resolved", "closed"} => Resolved
  /\ status = "closed" => closedBy # Nobody

ClosureInv == TypeOK /\ ColumnsInv /\ \A w \in Workers : CopyInv(w)

LEMMA MayAreUsers == \A op : May(op) \subseteq Users /\ Nobody \notin May(op)
  BY IncidentAssumption DEF May

(* A flushed column is not null, when what was assigned is not and a copy  *)
(* that is not null proves that the row is not.                            *)
LEMMA FlushKeeps ==
  ASSUME NEW stored, NEW loaded, NEW assigned, NEW null,
         assigned # null, loaded # null => stored # null
  PROVE  Flush(stored, loaded, assigned) # null
  BY DEF Flush

(* A step that ends w's request and leaves written columns written keeps   *)
(* the copies of the others behind the row.                                *)
LEMMA CopiesStayBehind ==
  ASSUME TypeOK, NEW w \in Workers, \A v \in Workers : CopyInv(v),
         End(w) \/ UNCHANGED req,
         resolvedBy # Nobody => resolvedBy' # Nobody,
         resolvedAt # Nobody => resolvedAt' # Nobody,
         closedBy # Nobody => closedBy' # Nobody,
         summary # NoSummary => summary' # NoSummary
  PROVE  \A v \in Workers : CopyInv(v)'
<1> SUFFICES ASSUME NEW v \in Workers PROVE CopyInv(v)'
  OBVIOUS
<1>1. req'[v] = req[v] \/ req'[v] = Idle
  BY DEF TypeOK, End
<1>2. CASE req'[v] = Idle
  BY <1>2 DEF CopyInv, Idle
<1>3. CASE req'[v] = req[v]
  BY <1>3 DEF CopyInv, Seen, Resolved
<1>4. QED
  BY <1>1, <1>2, <1>3

LEMMA ClosureStep == ClosureInv /\ [Next]_vars => ClosureInv'
<1> SUFFICES ASSUME ClosureInv, [Next]_vars PROVE ColumnsInv' /\ \A v \in Workers : CopyInv(v)'
  BY TypeStep DEF ClosureInv
<1> USE DEF ClosureInv
<1>1. ASSUME NEW w \in Workers, Serve(w) PROVE ColumnsInv' /\ \A v \in Workers : CopyInv(v)'
  <2>1. CASE UNCHANGED <<resolvedBy, resolvedAt, closedBy, summary, status>> /\ End(w)
    BY <2>1, CopiesStayBehind DEF ColumnsInv, Resolved, May
  <2>2. CASE CommitStart(w)
    BY <2>2, CopiesStayBehind DEF CommitStart, ColumnsInv, May
  <2>3. ASSUME NEW text \in Summaries, CommitResolve(w, text)
        PROVE  ColumnsInv' /\ \A v \in Workers : CopyInv(v)'
    <3>1. Actor(w) \in May("resolve") /\ CopyInv(w) /\ req[w].pc = "loaded" /\ text # NoSummary
      BY <2>3, IncidentAssumption DEF CommitResolve, At, Actor, CopyInv
    <3>2. resolvedBy' # Nobody /\ summary' # NoSummary /\ resolvedAt' # Nobody
      BY <2>3, <3>1, FlushKeeps, MayAreUsers DEF CommitResolve, CopyInv
    <3>3. {resolvedBy', resolvedAt'} \subseteq May("resolve") \union {Nobody}
      BY <2>3, <3>1 DEF CommitResolve, ColumnsInv, Flush
    <3>4. ColumnsInv'
      BY <2>3, <3>2, <3>3 DEF CommitResolve, ColumnsInv, Resolved, May
    <3>5. QED
      BY <2>3, <3>2, <3>4, CopiesStayBehind DEF CommitResolve
  <2>4. ASSUME NEW text \in Summaries \union {NoSummary}, CommitClose(w, text)
        PROVE  ColumnsInv' /\ \A v \in Workers : CopyInv(v)'
    <3>1. Actor(w) \in May("close") /\ CopyInv(w) /\ req[w].pc = "loaded"
      BY <2>4 DEF CommitClose, At, Actor, CopyInv
    <3>2. Resolved /\ Provided(w, text) # NoSummary
      BY <2>4, <3>1 DEF CommitClose, CopyInv
    <3>3. closedBy' # Nobody /\ summary' # NoSummary
      BY <2>4, <3>1, <3>2, FlushKeeps, MayAreUsers DEF CommitClose, CopyInv
    <3>4. closedBy' \in May("close") \union {Nobody}
      BY <2>4, <3>1, FlushTyped DEF CommitClose, ColumnsInv
    <3>5. ColumnsInv'
      BY <2>4, <3>2, <3>3, <3>4 DEF CommitClose, ColumnsInv, Resolved, May
    <3>6. QED
      BY <2>4, <3>3, <3>5, CopiesStayBehind DEF CommitClose
  <2>5. QED
    BY <1>1, <2>1, <2>2, <2>3, <2>4
    DEF Serve, RefuseTransition, CommitAssign, RefuseUpdate, RefuseEscalation, CommitEscalation,
        RefuseLevel, RefuseEscalationMove, CommitEscalationMove, incident
<1>2. ASSUME NEW w \in Workers, NEW u \in Users, NEW assigned \in Users \union {Nobody},
             Create(w, u, assigned)
      PROVE  ColumnsInv' /\ \A v \in Workers : CopyInv(v)'
  BY <1>2, CopiesStayBehind DEF Create, ColumnsInv, May
<1>3. ASSUME NEW w \in Workers, NEW u \in Users,
             NEW op \in Transitions \union {"assign", "update", "escalate"}, LoadIncident(w, u, op)
      PROVE  ColumnsInv' /\ \A v \in Workers : CopyInv(v)'
  <2>1. ColumnsInv'
    BY <1>3 DEF LoadIncident, ColumnsInv, Resolved, May, incident
  <2>2. ASSUME NEW v \in Workers, v # w PROVE CopyInv(v)'
    BY <1>3, <2>2 DEF LoadIncident, Arrive, TypeOK, CopyInv, Seen, Resolved, May, incident
  <2>3. /\ req'[w].pc = "loaded" /\ req'[w].op = op
        /\ req'[w].actor = u /\ req'[w].seen = Stored
    BY <1>3 DEF LoadIncident, Arrive, TypeOK, Idle
  <2>4. CopyInv(w)'
    BY <1>3, <2>3 DEF LoadIncident, Arrive, CopyInv, ColumnsInv, Seen, Stored, Resolved, May, incident
  <2>5. QED
    BY <2>1, <2>2, <2>4
<1>4. ASSUME NEW w \in Workers, NEW u \in Users, NEW op \in EscalationMoves, NEW l \in Levels,
             FindEscalation(w, u, op, l)
      PROVE  ColumnsInv' /\ \A v \in Workers : CopyInv(v)'
  <2>1. ColumnsInv'
    BY <1>4 DEF FindEscalation, ColumnsInv, Resolved, May, incident
  <2>2. ASSUME NEW v \in Workers, v # w PROVE CopyInv(v)'
    BY <1>4, <2>2 DEF FindEscalation, Arrive, TypeOK, CopyInv, Seen, Resolved, May, incident
  <2>3. CopyInv(w)'
    BY <1>4 DEF FindEscalation, Arrive, TypeOK, CopyInv, Idle
  <2>4. QED
    BY <2>1, <2>2, <2>3
<1>5. CASE UNCHANGED vars
  BY <1>5, CopiesStayBehind DEF vars, incident, ColumnsInv, Resolved, CopyInv, Seen, May
<1>6. QED
  BY <1>1, <1>2, <1>3, <1>4, <1>5 DEF Next

(* A resolved or closed incident names a user who may resolve, a time and  *)
(* a summary, and a closed one a user who may close, whatever the races.   *)
THEOREM ClosuresAreRecorded == Spec => []ClosureIsRecorded
<1>1. Init => ClosureInv
  BY InitTyped DEF Init, ClosureInv, ColumnsInv, CopyInv, Idle
<1>2. ClosureInv => ClosureIsRecorded
  BY DEF ClosureInv, ColumnsInv, Resolved, ClosureIsRecorded
<1>3. QED
  BY <1>1, <1>2, ClosureStep, PTL DEF Spec

-----------------------------------------------------------------------------
(* The order of the incident's statuses                                    *)

(* While the incident is open every copy shows it open, and none was       *)
(* loaded before it exists.                                                *)
OpenInv ==
  /\ TypeOK
  /\ \A w \in Workers : req[w].pc = "loaded" =>
       /\ status # "absent"
       /\ status = "open" => Seen(w).status = "open"

LEMMA OpenStep == OpenInv /\ [Next]_vars => OpenInv'
<1> SUFFICES ASSUME OpenInv, [Next]_vars, NEW v \in Workers, req'[v].pc = "loaded"
             PROVE  status' # "absent" /\ (status' = "open" => Seen(v)'.status = "open")
  BY TypeStep DEF OpenInv
<1> USE DEF OpenInv, TypeOK, Seen
<1>1. ASSUME NEW w \in Workers, Serve(w)
      PROVE  status' # "absent" /\ (status' = "open" => Seen(v)'.status = "open")
  <2>1. End(w) /\ (status' = status \/ status' \in {"in_progress", "resolved", "closed"})
    BY <1>1
    DEF Serve, RefuseTransition, CommitStart, CommitResolve, CommitClose, CommitAssign, RefuseUpdate,
        RefuseEscalation, CommitEscalation, RefuseLevel, RefuseEscalationMove, CommitEscalationMove,
        incident
  <2>2. req'[v] = req[v]
    BY <2>1 DEF End, Idle
  <2>3. QED
    BY <2>1, <2>2
<1>2. ASSUME NEW w \in Workers, NEW u \in Users, NEW assigned \in Users \union {Nobody},
             Create(w, u, assigned)
      PROVE  status' # "absent" /\ (status' = "open" => Seen(v)'.status = "open")
  BY <1>2 DEF Create
<1>3. ASSUME NEW w \in Workers, NEW u \in Users,
             NEW op \in Transitions \union {"assign", "update", "escalate"}, LoadIncident(w, u, op)
      PROVE  status' # "absent" /\ (status' = "open" => Seen(v)'.status = "open")
  BY <1>3 DEF LoadIncident, Arrive, Stored, incident
<1>4. ASSUME NEW w \in Workers, NEW u \in Users, NEW op \in EscalationMoves, NEW l \in Levels,
             FindEscalation(w, u, op, l)
      PROVE  status' # "absent" /\ (status' = "open" => Seen(v)'.status = "open")
  BY <1>4 DEF FindEscalation, Arrive, incident
<1>5. CASE UNCHANGED vars
  BY <1>5 DEF vars, incident
<1>6. QED
  BY <1>1, <1>2, <1>3, <1>4, <1>5 DEF Next

(* An open incident is started before it is resolved or closed, and never  *)
(* becomes open again, whatever stale copies the requests hold.            *)
THEOREM StartsAreNotSkipped == Spec => StartIsNeverSkipped
<1>1. Init => OpenInv
  BY InitTyped DEF Init, OpenInv, Idle
<1>2. ASSUME OpenInv, Next
      PROVE  /\ status = "open" => status' \in {"open", "in_progress"}
             /\ status \notin {"absent", "open"} => status' \notin {"absent", "open"}
  <2>1. ASSUME NEW w \in Workers, Serve(w)
        PROVE  status' = status \/ CommitStart(w) \/ (status # "open" /\ status' \in {"resolved", "closed"})
    BY <1>2, <2>1
    DEF Serve, RefuseTransition, CommitStart, CommitResolve, CommitClose, CommitAssign, RefuseUpdate,
        RefuseEscalation, CommitEscalation, RefuseLevel, RefuseEscalationMove, CommitEscalationMove,
        incident, OpenInv, At
  <2>2. \/ \E w \in Workers : Serve(w)
        \/ status = "absent"
        \/ status' = status
    BY <1>2 DEF Next, Create, LoadIncident, FindEscalation, incident
  <2>3. QED
    BY <2>1, <2>2 DEF CommitStart
<1>3. ASSUME OpenInv, [Next]_vars
      PROVE  [/\ status = "open" => status' \in {"open", "in_progress"}
              /\ status \notin {"absent", "open"} => status' \notin {"absent", "open"}]_vars
  BY <1>2, <1>3
<1>4. QED
  BY <1>1, <1>3, OpenStep, PTL DEF Spec, StartIsNeverSkipped

-----------------------------------------------------------------------------
(* Escalations                                                             *)

(* A request about an escalation found one that exists, and an escalation  *)
(* that is still open was open when it was found.                          *)
EscalationInv ==
  /\ TypeOK
  /\ EscalationsAreDated
  /\ \A w \in Workers : req[w].pc = "found" =>
       /\ req[w].level \in Levels
       /\ escalation[req[w].level] # NoEscalation
       /\ escalation[req[w].level].status = "open" => req[w].found = "open"

(* A row that is not the one of "no escalation" has a status.              *)
LEMMA EscalationExists ==
  ASSUME NEW e \in Escalations PROVE (e # NoEscalation) <=> (e.status \in EscalationStatuses)
  BY DEF Escalations, NoEscalation, EscalationStatuses

LEMMA MovesTyped ==
  \A op \in EscalationMoves :
    \/ op = "acknowledge" /\ EscalationFrom[op] = {"open"} /\ EscalationTo[op] = "acknowledged"
    \/ op = "conclude" /\ EscalationFrom[op] = {"acknowledged"} /\ EscalationTo[op] = "resolved"
  BY DEF EscalationMoves, EscalationFrom, EscalationTo

LEMMA EscalationStep == EscalationInv /\ [Next]_vars => EscalationInv'
<1> SUFFICES ASSUME EscalationInv, [Next]_vars
             PROVE  /\ EscalationsAreDated'
                    /\ \A v \in Workers : req'[v].pc = "found" =>
                         /\ req'[v].level \in Levels
                         /\ escalation'[req'[v].level] # NoEscalation
                         /\ escalation'[req'[v].level].status = "open" => req'[v].found = "open"
  BY TypeStep DEF EscalationInv
<1> USE DEF EscalationInv, TypeOK
<1>1. ASSUME NEW w \in Workers, End(w), UNCHANGED <<escalation, escalated>>
      PROVE  EscalationInv'
  BY <1>1, TypeStep DEF EscalationsAreDated, End, Idle
<1>2. ASSUME NEW w \in Workers, NEW l \in Levels, CommitEscalation(w, l) PROVE EscalationInv'
  <2>1. EscalationsAreDated'
    BY <1>2 DEF CommitEscalation, EscalationsAreDated, NewEscalation
  <2>2. ASSUME NEW v \in Workers, req'[v].pc = "found"
        PROVE  req'[v] = req[v] /\ req[v].level # l
    BY <1>2, <2>2 DEF CommitEscalation, End, Idle
  <2>3. QED
    BY <1>2, <2>1, <2>2, TypeStep DEF CommitEscalation
<1>3. ASSUME NEW w \in Workers, CommitEscalationMove(w) PROVE EscalationInv'
  <2> DEFINE l == req[w].level
  <2>1. /\ l \in Levels
        /\ escalation[l].status \in EscalationStatuses
        /\ escalation[l].resolvedAt \in BOOLEAN
    BY <1>3, EscalationExists DEF CommitEscalationMove, At, Escalations
  <2>2. /\ escalation'[l].status \in {"acknowledged", "resolved"}
        /\ escalation'[l].status = "resolved" => escalation'[l].resolvedAt
        /\ \A k \in Levels : k # l => escalation'[k] = escalation[k]
    BY <1>3, <2>1, MovesTyped DEF CommitEscalationMove, At
  <2>3. EscalationsAreDated'
    BY <1>3, <2>1, <2>2 DEF CommitEscalationMove, EscalationsAreDated, EscalationStatuses
  <2>4. ASSUME NEW v \in Workers, req'[v].pc = "found" PROVE req'[v] = req[v]
    BY <1>3, <2>4 DEF CommitEscalationMove, End, Idle
  <2>5. escalation'[l] # NoEscalation
    BY <2>2 DEF NoEscalation
  <2>6. QED
    BY <2>1, <2>2, <2>3, <2>4, <2>5, TypeStep
<1>4. ASSUME NEW w \in Workers, NEW u \in Users, NEW op \in EscalationMoves, NEW l \in Levels,
             FindEscalation(w, u, op, l)
      PROVE  EscalationInv'
  <2>1. /\ req'[w].level = l
        /\ req'[w].found = escalation[l].status
    BY <1>4 DEF FindEscalation, Arrive, Idle
  <2>2. \A v \in Workers : v # w => req'[v] = req[v]
    BY <1>4 DEF FindEscalation, Arrive
  <2>3. QED
    BY <1>4, <2>1, <2>2, TypeStep DEF FindEscalation, EscalationsAreDated
<1>5. ASSUME NEW w \in Workers, NEW u \in Users,
             NEW op \in Transitions \union {"assign", "update", "escalate"}, LoadIncident(w, u, op)
      PROVE  EscalationInv'
  BY <1>5, TypeStep DEF LoadIncident, Arrive, Idle, EscalationsAreDated
<1>6. ASSUME UNCHANGED <<escalation, escalated, req>> PROVE EscalationInv'
  BY <1>6, TypeStep DEF EscalationsAreDated
<1>7. QED
  BY <1>1, <1>2, <1>3, <1>4, <1>5, <1>6
  DEF Next, Serve, vars, incident, Create, RefuseTransition, CommitStart, CommitResolve, CommitClose,
      CommitAssign, RefuseUpdate, RefuseEscalation, RefuseLevel, RefuseEscalationMove

LEMMA EscalationInit == Init => EscalationInv
  BY InitTyped DEF Init, EscalationInv, EscalationsAreDated, NoEscalation, Idle

(* Concurrent escalations and their moves leave dated records.             *)
THEOREM EscalationsDated == Spec => []EscalationsAreDated
<1>1. EscalationInv => EscalationsAreDated
  BY DEF EscalationInv
<1>2. QED
  BY <1>1, EscalationInit, EscalationStep, PTL DEF Spec

(* What a step may do to one escalation: overtaken says that w's           *)
(* acknowledgement found the escalation open.                              *)
Overtaken(w, l) ==
  /\ At(w, "found", {"acknowledge"}) /\ req'[w] = Idle
  /\ req[w].level = l /\ req[w].found = "open"

MovesInOrder(l) == <<escalation[l].status, escalation'[l].status>> \in EscalationOrder

Undoes(l) ==
  /\ <<escalation[l].status, escalation'[l].status>> = <<"resolved", "acknowledged">>
  /\ escalation'[l].resolvedAt
  /\ \E w \in Workers : Overtaken(w, l)

Keeps(l) == escalation'[l].status = escalation[l].status

(* The request that moves an escalation, and what it leaves there.         *)
LEMMA MoveMade ==
  ASSUME EscalationInv, NEW w \in Workers, CommitEscalationMove(w)
  PROVE  /\ req[w].level \in Levels /\ req'[w] = Idle /\ req[w].pc = "found"
         /\ \A k \in Levels : k # req[w].level => escalation'[k] = escalation[k]
         /\ \/ /\ req[w].op = "acknowledge" /\ req[w].found = "open"
               /\ escalation'[req[w].level].status = "acknowledged"
            \/ /\ req[w].op = "conclude" /\ req[w].found = "acknowledged"
               /\ escalation'[req[w].level].status = "resolved"
         /\ escalation[req[w].level].resolvedAt => escalation'[req[w].level].resolvedAt
         /\ escalation[req[w].level].status \in EscalationStatuses
         /\ escalation[req[w].level].status = "open" => req[w].found = "open"
<1> DEFINE l == req[w].level
<1>1. req[w].pc = "found" /\ req[w].op \in EscalationMoves
  BY DEF CommitEscalationMove, At
<1>2. /\ l \in Levels /\ escalation[l].status \in EscalationStatuses
      /\ escalation[l].status = "open" => req[w].found = "open"
      /\ escalation[l] \in Escalations
  BY <1>1, EscalationExists DEF EscalationInv, TypeOK
<1>3. /\ escalation'[l].status = EscalationTo[req[w].op]
      /\ escalation[l].resolvedAt => escalation'[l].resolvedAt
      /\ \A k \in Levels : k # l => escalation'[k] = escalation[k]
  BY <1>2 DEF CommitEscalationMove, EscalationInv, TypeOK
<1>4. req'[w] = Idle /\ req[w].found \in EscalationFrom[req[w].op]
  BY DEF CommitEscalationMove, End, EscalationInv, TypeOK
<1>5. QED
  BY <1>1, <1>2, <1>3, <1>4, MovesTyped

(* The only steps that touch an escalation.                                *)
LEMMA WhoMoves ==
  ASSUME [Next]_vars
  PROVE  \/ escalation' = escalation
         \/ \E w \in Workers, k \in Levels : CommitEscalation(w, k)
         \/ \E w \in Workers : CommitEscalationMove(w)
  BY DEF Next, Serve, vars, incident, Create, LoadIncident, FindEscalation, RefuseTransition,
         CommitStart, CommitResolve, CommitClose, CommitAssign, RefuseUpdate, RefuseEscalation,
         RefuseLevel, RefuseEscalationMove

LEMMA RaisedInOrder ==
  ASSUME TypeOK, NEW w \in Workers, NEW k \in Levels, CommitEscalation(w, k), NEW l \in Levels
  PROVE  Keeps(l) \/ MovesInOrder(l)
<1>1. CASE l = k
  BY <1>1 DEF CommitEscalation, TypeOK, NewEscalation, NoEscalation, MovesInOrder, EscalationOrder
<1>2. CASE l # k
  BY <1>2 DEF CommitEscalation, TypeOK, Keeps
<1>3. QED
  BY <1>1, <1>2

(* No race resolves an escalation that nobody acknowledged, nor reopens    *)
(* one; an acknowledgement that was overtaken is all that can take back a  *)
(* resolution, whose record stays.                                         *)
THEOREM OnlyOverlapsUndo == Spec => UndoingNeedsOverlap
<1>1. ASSUME EscalationInv, [Next]_vars, NEW l \in Levels
      PROVE  Keeps(l) \/ MovesInOrder(l) \/ Undoes(l)
  <2>1. CASE escalation' = escalation
    BY <2>1 DEF Keeps
  <2>2. ASSUME NEW w \in Workers, NEW k \in Levels, CommitEscalation(w, k)
        PROVE  Keeps(l) \/ MovesInOrder(l)
    BY <1>1, <2>2, RaisedInOrder DEF EscalationInv
  <2>3. ASSUME NEW w \in Workers, CommitEscalationMove(w), req[w].level = l
        PROVE  Keeps(l) \/ MovesInOrder(l) \/ Undoes(l)
    <3>1. CASE req[w].op = "conclude"
      BY <1>1, <2>3, <3>1, MoveMade DEF EscalationStatuses, Keeps, MovesInOrder, EscalationOrder
    <3>2. CASE req[w].op = "acknowledge" /\ escalation[l].status # "resolved"
      BY <1>1, <2>3, <3>2, MoveMade DEF EscalationStatuses, Keeps, MovesInOrder, EscalationOrder
    <3>3. CASE req[w].op = "acknowledge" /\ escalation[l].status = "resolved"
      <4>1. Overtaken(w, l)
        BY <1>1, <2>3, <3>3, MoveMade DEF Overtaken, At
      <4>2. escalation'[l].resolvedAt
        BY <1>1, <2>3, <3>3, MoveMade DEF EscalationInv, EscalationsAreDated
      <4>3. escalation'[l].status = "acknowledged"
        BY <1>1, <2>3, <3>3, MoveMade
      <4>4. QED
        BY <3>3, <4>1, <4>2, <4>3 DEF Undoes
    <3>4. QED
      BY <1>1, <2>3, <3>1, <3>2, <3>3, MoveMade
  <2>4. ASSUME NEW w \in Workers, CommitEscalationMove(w), req[w].level # l PROVE Keeps(l)
    BY <1>1, <2>4, MoveMade DEF Keeps
  <2>5. QED
    BY <1>1, <2>1, <2>2, <2>3, <2>4, WhoMoves
<1>2. ASSUME EscalationInv, [Next]_vars
      PROVE  [\A l \in Levels : Keeps(l) \/ MovesInOrder(l) \/ Undoes(l)]_vars
  BY <1>1, <1>2
<1>3. (\A l \in Levels : Keeps(l) \/ MovesInOrder(l) \/ Undoes(l)) =>
        \A l \in Levels :
          LET from == escalation[l].status
              to == escalation'[l].status
              overtaken(w) == /\ At(w, "found", {"acknowledge"}) /\ req'[w] = Idle
                              /\ req[w].level = l /\ req[w].found = "open"
          IN \/ to = from
             \/ <<from, to>> \in EscalationOrder
             \/ /\ <<from, to>> = <<"resolved", "acknowledged">>
                /\ escalation'[l].resolvedAt
                /\ \E w \in Workers : overtaken(w)
  BY DEF Keeps, MovesInOrder, Undoes, Overtaken
<1>4. QED
  BY <1>2, <1>3, EscalationInit, EscalationStep, PTL DEF Spec, UndoingNeedsOverlap

-----------------------------------------------------------------------------
(* Requests that do not overlap                                            *)

(* From its load to its commit, a request is the only one.                 *)
ServedInTurn == \A w, v \in Workers : req[w] # Idle /\ req[v] # Idle => w = v

(* One thread alone cannot help but serve in turn.                         *)
LEMMA OneThreadInTurn == ASSUME NEW t, Workers = {t} PROVE Spec => []ServedInTurn
<1>1. ServedInTurn
  BY DEF ServedInTurn
<1>2. QED
  BY <1>1, PTL

(* The status a request loaded is then the one it commits over.            *)
StatusIsFresh == \A w \in Workers : req[w].pc = "loaded" => Seen(w).status = status

LEMMA ServedLast ==
  ASSUME TypeOK, ServedInTurn, NEW w \in Workers, req[w] # Idle, End(w)
  PROVE  StatusIsFresh'
<1>1. \A v \in Workers : req'[v] = Idle
  BY DEF TypeOK, ServedInTurn, End
<1>2. Idle.pc = "idle"
  BY DEF Idle
<1>3. QED
  BY <1>1, <1>2 DEF StatusIsFresh

LEMMA FreshStep == TypeOK /\ ServedInTurn /\ StatusIsFresh /\ [Next]_vars => StatusIsFresh'
<1> SUFFICES ASSUME TypeOK, ServedInTurn, StatusIsFresh, [Next]_vars PROVE StatusIsFresh'
  OBVIOUS
<1>1. ASSUME NEW w \in Workers, Serve(w) PROVE StatusIsFresh'
  <2>1. req[w].pc # "idle" /\ End(w)
    BY <1>1
    DEF Serve, At, RefuseTransition, RefuseUpdate, RefuseEscalation, RefuseLevel,
        RefuseEscalationMove, CommitStart, CommitResolve, CommitClose, CommitAssign,
        CommitEscalation, CommitEscalationMove
  <2>2. Idle.pc = "idle"
    BY DEF Idle
  <2>3. QED
    BY <2>1, <2>2, ServedLast
<1>2. ASSUME NEW w \in Workers, NEW u \in Users, NEW assigned \in Users \union {Nobody},
             Create(w, u, assigned)
      PROVE  StatusIsFresh'
  <2>1. \A v \in Workers : Seen(v).status \in Statuses
    BY DEF TypeOK, Requests, Copies, Seen
  <2>2. status = "absent" /\ UNCHANGED req
    BY <1>2 DEF Create
  <2>3. \A v \in Workers : req[v].pc # "loaded"
    BY <2>1, <2>2 DEF StatusIsFresh, Statuses
  <2>4. QED
    BY <2>2, <2>3 DEF StatusIsFresh
<1>3. ASSUME NEW w \in Workers, NEW u \in Users,
             NEW op \in Transitions \union {"assign", "update", "escalate"}, LoadIncident(w, u, op)
      PROVE  StatusIsFresh'
  <2> DEFINE r == [Idle EXCEPT !.pc = "loaded", !.op = op, !.actor = u, !.seen = Stored]
  <2>1. r.seen.status = status
    BY DEF Stored, Idle
  <2> HIDE DEF r
  <2>2. req' = [req EXCEPT ![w] = r] /\ status' = status
    BY <1>3 DEF LoadIncident, Arrive, incident, r
  <2>3. QED
    BY <2>1, <2>2 DEF TypeOK, StatusIsFresh, Seen
<1>4. ASSUME NEW w \in Workers, NEW u \in Users, NEW op \in EscalationMoves, NEW l \in Levels,
             FindEscalation(w, u, op, l)
      PROVE  StatusIsFresh'
  <2> DEFINE r == [Idle EXCEPT !.pc = "found", !.op = op, !.actor = u, !.level = l,
                               !.found = escalation[l].status]
  <2>1. r.pc = "found"
    BY DEF Idle
  <2> HIDE DEF r
  <2>2. req' = [req EXCEPT ![w] = r] /\ status' = status
    BY <1>4 DEF FindEscalation, Arrive, incident, r
  <2>3. QED
    BY <2>1, <2>2 DEF TypeOK, StatusIsFresh, Seen
<1>5. CASE UNCHANGED vars
  BY <1>5 DEF vars, incident, StatusIsFresh, Seen
<1>6. QED
  BY <1>1, <1>2, <1>3, <1>4, <1>5 DEF Next

(* And so is the status that it found an escalation in.                    *)
FoundIsFresh ==
  \A w \in Workers : req[w].pc = "found" => req[w].found = escalation[req[w].level].status

LEMMA FoundStep == TypeOK /\ ServedInTurn /\ FoundIsFresh /\ [Next]_vars => FoundIsFresh'
<1> SUFFICES ASSUME TypeOK, ServedInTurn, FoundIsFresh, [Next]_vars PROVE FoundIsFresh'
  OBVIOUS
<1>1. Idle.pc = "idle"
  BY DEF Idle
<1>2. ASSUME NEW w \in Workers, Serve(w) PROVE FoundIsFresh'
  <2>1. req[w].pc # "idle" /\ End(w)
    BY <1>2
    DEF Serve, At, RefuseTransition, RefuseUpdate, RefuseEscalation, RefuseLevel,
        RefuseEscalationMove, CommitStart, CommitResolve, CommitClose, CommitAssign,
        CommitEscalation, CommitEscalationMove
  <2>2. \A v \in Workers : req'[v] = Idle
    BY <1>1, <2>1 DEF TypeOK, ServedInTurn, End
  <2>3. QED
    BY <1>1, <2>2 DEF FoundIsFresh
<1>3. ASSUME NEW w \in Workers, NEW r, req' = [req EXCEPT ![w] = r], escalation' = escalation,
             r.pc = "found" => r.found = escalation[r.level].status
      PROVE  FoundIsFresh'
  BY <1>3 DEF TypeOK, FoundIsFresh
<1>4. ASSUME NEW w \in Workers, NEW u \in Users,
             NEW op \in Transitions \union {"assign", "update", "escalate"}, LoadIncident(w, u, op)
      PROVE  FoundIsFresh'
  <2> DEFINE r == [Idle EXCEPT !.pc = "loaded", !.op = op, !.actor = u, !.seen = Stored]
  <2>1. r.pc = "loaded"
    BY DEF Idle
  <2> HIDE DEF r
  <2>2. req' = [req EXCEPT ![w] = r] /\ escalation' = escalation
    BY <1>4 DEF LoadIncident, Arrive, r
  <2>3. QED
    BY <1>3, <2>1, <2>2
<1>5. ASSUME NEW w \in Workers, NEW u \in Users, NEW op \in EscalationMoves, NEW l \in Levels,
             FindEscalation(w, u, op, l)
      PROVE  FoundIsFresh'
  <2> DEFINE r == [Idle EXCEPT !.pc = "found", !.op = op, !.actor = u, !.level = l,
                               !.found = escalation[l].status]
  <2>1. r.level = l /\ r.found = escalation[l].status
    BY DEF Idle
  <2> HIDE DEF r
  <2>2. req' = [req EXCEPT ![w] = r] /\ escalation' = escalation
    BY <1>5 DEF FindEscalation, Arrive, r
  <2>3. QED
    BY <1>3, <2>1, <2>2
<1>6. CASE UNCHANGED <<req, escalation>>
  BY <1>6 DEF FoundIsFresh
<1>7. QED
  BY <1>2, <1>4, <1>5, <1>6 DEF Next, Create, vars

(* An escalation stays as it is or takes the next status.                  *)
EscalationsFollowOrder == [][\A l \in Levels : Keeps(l) \/ MovesInOrder(l)]_vars

LEMMA NothingOvertaken ==
  ASSUME EscalationInv, FoundIsFresh, [Next]_vars, NEW l \in Levels
  PROVE  Keeps(l) \/ MovesInOrder(l)
<1>1. CASE escalation' = escalation
  BY <1>1 DEF Keeps
<1>2. ASSUME NEW w \in Workers, NEW k \in Levels, CommitEscalation(w, k)
      PROVE  Keeps(l) \/ MovesInOrder(l)
  BY <1>2, RaisedInOrder DEF EscalationInv
<1>3. ASSUME NEW w \in Workers, CommitEscalationMove(w) PROVE Keeps(l) \/ MovesInOrder(l)
  <2>1. req[w].found = escalation[req[w].level].status
    BY <1>3, MoveMade DEF FoundIsFresh
  <2>2. CASE req[w].level = l
    BY <1>3, <2>1, <2>2, MoveMade DEF MovesInOrder, EscalationOrder
  <2>3. CASE req[w].level # l
    BY <1>3, <2>3, MoveMade DEF Keeps
  <2>4. QED
    BY <2>2, <2>3
<1>4. QED
  BY <1>1, <1>2, <1>3, WhoMoves

(* Served one after the other, requests move the incident along the order  *)
(* that the operations guide documents, and its escalations along theirs:  *)
(* a resolved one is then final.                                           *)
THEOREM OrderHoldsInTurn ==
  Spec /\ []ServedInTurn => TransitionsFollowOrder /\ EscalationsFollowOrder
<1> DEFINE Follows ==
      status' # status =>
        <<status, status'>> \in
          {<<"absent", "open">>, <<"open", "in_progress">>,
           <<"in_progress", "resolved">>, <<"resolved", "closed">>}
<1>1. Init => StatusIsFresh
  <2>1. Init => \A w \in Workers : req[w] = Idle
    BY DEF Init
  <2>2. Idle.pc = "idle"
    BY DEF Idle
  <2>3. QED
    BY <2>1, <2>2 DEF StatusIsFresh
<1>2. StatusIsFresh /\ [Next]_vars => Follows
  <2> SUFFICES ASSUME StatusIsFresh, [Next]_vars, status' # status PROVE Follows
    OBVIOUS
  <2>1. ASSUME NEW w \in Workers, Serve(w) PROVE Follows
    BY <2>1
    DEF Serve, At, StatusIsFresh, incident, RefuseTransition, RefuseUpdate, RefuseEscalation,
        RefuseLevel, RefuseEscalationMove, CommitStart, CommitResolve, CommitClose,
        CommitAssign, CommitEscalation, CommitEscalationMove
  <2>2. ASSUME NEW w \in Workers, NEW u \in Users, NEW assigned \in Users \union {Nobody},
               Create(w, u, assigned)
        PROVE  Follows
    BY <2>2 DEF Create
  <2>3. QED
    BY <2>1, <2>2 DEF Next, vars, incident, LoadIncident, FindEscalation
<1>3. Init => FoundIsFresh
  BY DEF Init, FoundIsFresh, Idle
<1>4. EscalationInv /\ FoundIsFresh /\ [Next]_vars =>
        [\A l \in Levels : Keeps(l) \/ MovesInOrder(l)]_vars
  BY NothingOvertaken
<1>5. QED
  BY <1>1, <1>2, <1>3, <1>4, FreshStep, FoundStep, Typing, EscalationInit, EscalationStep, PTL
  DEF Spec, TransitionsFollowOrder, EscalationsFollowOrder
=============================================================================
