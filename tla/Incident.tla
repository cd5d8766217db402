------------------------------- MODULE Incident -------------------------------
(***************************************************************************)
(* The incident service: one incident, its escalations, and the requests   *)
(* that move them through their lifecycles (services/incident.py,          *)
(* endpoints/incidents.py).                                                *)
(*                                                                         *)
(* As in the remediation service, a request loads the row, decides on the  *)
(* loaded copy and commits an UPDATE that names the row's id only:         *)
(*                                                                         *)
(*   idle -> loaded -> idle          for requests about the incident       *)
(*   idle -> found  -> idle          for those about one escalation        *)
(*                                                                         *)
(* A request that dies in between leaves no trace, which is the same as    *)
(* never committing.  Incidents share no state, so one stands for all.     *)
(***************************************************************************)
CONSTANTS
  Workers,    (* the threads that serve requests                           *)
  Users,      (* the users of the incident's organization                  *)
  Grants,     (* the permissions of each user's roles                      *)
  Nobody,     (* the null of a user column                                 *)
  Summaries,  (* resolution texts                                          *)
  NoSummary,  (* the null of resolution_summary                            *)
  Levels,     (* escalation levels                                         *)
  NoLevel     (* the level of a request that is not about an escalation    *)

ASSUME IncidentAssumption ==
  /\ Nobody \notin Users
  /\ NoSummary \notin Summaries
  /\ NoLevel \notin Levels

Statuses == {"open", "in_progress", "resolved", "closed"}
EscalationStatuses == {"open", "acknowledged", "resolved"}

(* The status each lifecycle route leaves and the one it writes. *)
From == [start |-> "open", resolve |-> "in_progress", close |-> "resolved"]
Transitions == DOMAIN From
(* Mutation of EscalationFrom: a resolved escalation may be acknowledged. *)
EscalationFromLoose == [acknowledge |-> {"open", "resolved"}, conclude |-> {"acknowledged"}]
EscalationFrom == [acknowledge |-> {"open"}, conclude |-> {"acknowledged"}]
EscalationTo == [acknowledge |-> "acknowledged", conclude |-> "resolved"]
EscalationMoves == DOMAIN EscalationFrom

Permission ==
  [create  |-> "incidents:create",  start    |-> "incidents:manage",
   resolve |-> "incidents:resolve", close    |-> "incidents:close",
   assign  |-> "incidents:assign",  update   |-> "incidents:manage",
   escalate |-> "escalations:create", acknowledge |-> "escalations:manage",
   conclude |-> "escalations:resolve"]

May(op) == {u \in Users : Permission[op] \in Grants[u]}

VARIABLES
  status,       (* the incident's status, "absent" before it is created    *)
  resolvedBy,   (* resolved_by_user_id                                     *)
  resolvedAt,   (* whose resolution wrote resolved_at                      *)
  summary,      (* resolution_summary                                      *)
  closedBy,     (* closed_by_user_id                                       *)
  assignee,     (* assigned_user_id                                        *)
  escalated,    (* last_escalated_at is set                                *)
  escalation,   (* per level, the escalation's status and resolved_at      *)
  req           (* what each worker is doing                               *)

incident == <<status, resolvedBy, resolvedAt, summary, closedBy, assignee>>
vars == <<incident, escalated, escalation, req>>

Stored == [status |-> status, resolvedBy |-> resolvedBy, summary |-> summary,
           closedBy |-> closedBy, assignee |-> assignee]
NoCopy == [status |-> "open", resolvedBy |-> Nobody, summary |-> NoSummary,
           closedBy |-> Nobody, assignee |-> Nobody]
Copies == [status : Statuses, resolvedBy : Users \union {Nobody},
           summary : Summaries \union {NoSummary},
           closedBy : Users \union {Nobody}, assignee : Users \union {Nobody}]
NoEscalation == [status |-> "absent", resolvedAt |-> FALSE]
NewEscalation == [status |-> "open", resolvedAt |-> FALSE]
Escalations == [status : EscalationStatuses, resolvedAt : BOOLEAN] \union {NoEscalation}

Requests ==
  [pc : {"idle", "loaded", "found"}, op : DOMAIN Permission, actor : Users \union {Nobody},
   seen : Copies, level : Levels \union {NoLevel}, found : EscalationStatuses]
Idle == [pc |-> "idle", op |-> "create", actor |-> Nobody, seen |-> NoCopy,
         level |-> NoLevel, found |-> "open"]

Init ==
  /\ status = "absent"
  /\ resolvedBy = Nobody
  /\ resolvedAt = Nobody
  /\ summary = NoSummary
  /\ closedBy = Nobody
  /\ assignee = Nobody
  /\ escalated = FALSE
  /\ escalation = [l \in Levels |-> NoEscalation]
  /\ req = [w \in Workers |-> Idle]

-----------------------------------------------------------------------------
(* Helpers                                                                 *)

(* SQLAlchemy leaves a column out of the UPDATE when the value assigned is *)
(* the one it loaded: the stored value then survives the commit.           *)
Flush(stored, loaded, assigned) == IF assigned = loaded THEN stored ELSE assigned

Arrive(w, u, op, request) ==
  /\ req[w] = Idle
  /\ u \in May(op)
  /\ req' = [req EXCEPT ![w] = request]

End(w) == req' = [req EXCEPT ![w] = Idle]
At(w, pc, ops) == req[w].pc = pc /\ req[w].op \in ops
Seen(w) == req[w].seen
Actor(w) == req[w].actor

(* The summary a closure leaves: its own, or the loaded one. *)
Provided(w, text) == IF text = NoSummary THEN Seen(w).summary ELSE text

-----------------------------------------------------------------------------
(* Mutations of the actions below, which the runs must refute              *)

(* A closure forgets who closed. *)
CommitCloseAnonymous(w, text) ==
  /\ At(w, "loaded", {"close"})
  /\ Seen(w).status = "resolved"
  /\ Provided(w, text) # NoSummary
  /\ status' = "closed"
  /\ summary' = Flush(summary, Seen(w).summary, Provided(w, text))
  /\ End(w)
  /\ UNCHANGED <<resolvedBy, resolvedAt, closedBy, assignee, escalated, escalation>>

(* A status the enumeration lacks. *)
CommitStartMisspelt(w) ==
  /\ At(w, "loaded", {"start"})
  /\ Seen(w).status = "open"
  /\ status' = "started"
  /\ End(w)
  /\ UNCHANGED <<resolvedBy, resolvedAt, summary, closedBy, assignee, escalated, escalation>>

(* An incident in any status may be resolved. *)
CommitResolveAny(w, text) ==
  /\ At(w, "loaded", {"resolve"})
  /\ status' = "resolved"
  /\ resolvedAt' = Actor(w)
  /\ resolvedBy' = Flush(resolvedBy, Seen(w).resolvedBy, Actor(w))
  /\ summary' = Flush(summary, Seen(w).summary, text)
  /\ End(w)
  /\ UNCHANGED <<closedBy, assignee, escalated, escalation>>

-----------------------------------------------------------------------------
(* The incident                                                            *)

Create(w, u, assigned) ==
  /\ req[w] = Idle
  /\ u \in May("create")
  /\ status = "absent"
  /\ status' = "open"
  /\ assignee' = assigned
  /\ UNCHANGED <<resolvedBy, resolvedAt, summary, closedBy, escalated, escalation, req>>

LoadIncident(w, u, op) ==
  /\ status # "absent"
  /\ Arrive(w, u, op, [Idle EXCEPT !.pc = "loaded", !.op = op, !.actor = u, !.seen = Stored])
  /\ UNCHANGED <<incident, escalated, escalation>>

(* The loaded status is not the one the route leaves: 409. *)
RefuseTransition(w) ==
  /\ At(w, "loaded", Transitions)
  /\ Seen(w).status # From[req[w].op]
  /\ End(w)
  /\ UNCHANGED <<incident, escalated, escalation>>

CommitStart(w) ==
  /\ At(w, "loaded", {"start"})
  /\ Seen(w).status = "open"
  /\ status' = "in_progress"
  /\ End(w)
  /\ UNCHANGED <<resolvedBy, resolvedAt, summary, closedBy, assignee, escalated, escalation>>

CommitResolve(w, text) ==
  /\ At(w, "loaded", {"resolve"})
  /\ Seen(w).status = "in_progress"
  /\ status' = "resolved"
  /\ resolvedAt' = Actor(w)
  /\ resolvedBy' = Flush(resolvedBy, Seen(w).resolvedBy, Actor(w))
  /\ summary' = Flush(summary, Seen(w).summary, text)
  /\ End(w)
  /\ UNCHANGED <<closedBy, assignee, escalated, escalation>>

(* Without a summary there is no closure (422). *)
CommitClose(w, text) ==
  /\ At(w, "loaded", {"close"})
  /\ Seen(w).status = "resolved"
  /\ Provided(w, text) # NoSummary
  /\ status' = "closed"
  /\ summary' = Flush(summary, Seen(w).summary, Provided(w, text))
  /\ closedBy' = Flush(closedBy, Seen(w).closedBy, Actor(w))
  /\ End(w)
  /\ UNCHANGED <<resolvedBy, resolvedAt, assignee, escalated, escalation>>

(* assign, and a PATCH that names an assignee, in any status; a PATCH that *)
(* names a status is refused.                                              *)
CommitAssign(w, assigned) ==
  /\ At(w, "loaded", {"assign", "update"})
  /\ assignee' = Flush(assignee, Seen(w).assignee, assigned)
  /\ End(w)
  /\ UNCHANGED <<status, resolvedBy, resolvedAt, summary, closedBy, escalated, escalation>>

RefuseUpdate(w) ==
  /\ At(w, "loaded", {"update"})
  /\ End(w)
  /\ UNCHANGED <<incident, escalated, escalation>>

-----------------------------------------------------------------------------
(* Escalations                                                             *)

RefuseEscalation(w) ==
  /\ At(w, "loaded", {"escalate"})
  /\ Seen(w).status = "closed"
  /\ End(w)
  /\ UNCHANGED <<incident, escalated, escalation>>

CommitEscalation(w, l) ==
  /\ At(w, "loaded", {"escalate"})
  /\ Seen(w).status # "closed"
  /\ escalation[l] = NoEscalation
  /\ escalation' = [escalation EXCEPT ![l] = NewEscalation]
  /\ escalated' = TRUE
  /\ End(w)
  /\ UNCHANGED incident

(* The unique constraint on the level rejects the insert, and the whole    *)
(* transaction is rolled back.                                             *)
RefuseLevel(w, l) ==
  /\ At(w, "loaded", {"escalate"})
  /\ Seen(w).status # "closed"
  /\ escalation[l] # NoEscalation
  /\ End(w)
  /\ UNCHANGED <<incident, escalated, escalation>>

FindEscalation(w, u, op, l) ==
  /\ escalation[l] # NoEscalation
  /\ Arrive(w, u, op, [Idle EXCEPT !.pc = "found", !.op = op, !.actor = u, !.level = l,
                                   !.found = escalation[l].status])
  /\ UNCHANGED <<incident, escalated, escalation>>

RefuseEscalationMove(w) ==
  /\ At(w, "found", EscalationMoves)
  /\ req[w].found \notin EscalationFrom[req[w].op]
  /\ End(w)
  /\ UNCHANGED <<incident, escalated, escalation>>

CommitEscalationMove(w) ==
  /\ At(w, "found", EscalationMoves)
  /\ req[w].found \in EscalationFrom[req[w].op]
  /\ escalation' = [escalation EXCEPT ![req[w].level] =
       [status |-> EscalationTo[req[w].op],
        resolvedAt |-> @.resolvedAt \/ req[w].op = "conclude"]]
  /\ End(w)
  /\ UNCHANGED <<incident, escalated>>

-----------------------------------------------------------------------------

Serve(w) ==
  \/ RefuseTransition(w) \/ CommitStart(w)
  \/ \E text \in Summaries : CommitResolve(w, text)
  \/ \E text \in Summaries \union {NoSummary} : CommitClose(w, text)
  \/ \E u \in Users : CommitAssign(w, u)
  \/ RefuseUpdate(w)
  \/ RefuseEscalation(w)
  \/ \E l \in Levels : CommitEscalation(w, l) \/ RefuseLevel(w, l)
  \/ RefuseEscalationMove(w) \/ CommitEscalationMove(w)

Next ==
  \E w \in Workers :
    \/ Serve(w)
    \/ \E u \in Users :
         \/ \E assigned \in Users \union {Nobody} : Create(w, u, assigned)
         \/ \E op \in Transitions \union {"assign", "update", "escalate"} : LoadIncident(w, u, op)
         \/ \E op \in EscalationMoves, l \in Levels : FindEscalation(w, u, op, l)

Spec == Init /\ [][Next]_vars

-----------------------------------------------------------------------------
(* Properties                                                              *)

(* Every column, escalation and request holds one of its values. *)
TypeOK ==
  /\ status \in Statuses \union {"absent"}
  /\ {resolvedBy, resolvedAt, closedBy, assignee} \subseteq Users \union {Nobody}
  /\ summary \in Summaries \union {NoSummary}
  /\ escalated \in BOOLEAN
  /\ escalation \in [Levels -> Escalations]
  /\ req \in [Workers -> Requests]

(* Whatever stale copies the requests decide on, a resolved incident names *)
(* a user who may resolve, a time and a summary, and a closed one also a   *)
(* user who may close.                                                     *)
ClosureIsRecorded ==
  /\ status \in {"resolved", "closed"} =>
       /\ resolvedBy \in May("resolve")
       /\ resolvedAt \in May("resolve")
       /\ summary # NoSummary
  /\ status = "closed" => closedBy \in May("close")

(* No race lets an open incident be resolved or closed without being       *)
(* started, and none ever reopens it or makes it vanish.                   *)
StartIsNeverSkipped ==
  [][/\ status = "open" => status' \in {"open", "in_progress"}
     /\ status \notin {"absent", "open"} => status' \notin {"absent", "open"}]_vars

(* Concurrent escalations, acknowledgements and resolutions leave dated    *)
(* records: an incident with escalations has last_escalated_at, a resolved *)
(* escalation has resolved_at, and one that has it was acknowledged.       *)
EscalationsAreDated ==
  \A l \in Levels :
    /\ escalation[l].status # "absent" => escalated
    /\ escalation[l].status = "resolved" => escalation[l].resolvedAt
    /\ escalation[l].resolvedAt => escalation[l].status \in {"acknowledged", "resolved"}

(* An escalation is raised, acknowledged and resolved in this order.  The  *)
(* one way back is an acknowledgement that found the escalation open and   *)
(* that an acknowledgement and a resolution overtook: it takes the         *)
(* resolved status back, and the time of the resolution stays recorded.    *)
EscalationOrder ==
  {<<"absent", "open">>, <<"open", "acknowledged">>, <<"acknowledged", "resolved">>}

UndoingNeedsOverlap ==
  [][\A l \in Levels :
       LET from == escalation[l].status
           to == escalation'[l].status
           overtaken(w) == /\ At(w, "found", {"acknowledge"}) /\ req'[w] = Idle
                           /\ req[w].level = l /\ req[w].found = "open"
       IN \/ to = from
          \/ <<from, to>> \in EscalationOrder
          \/ /\ <<from, to>> = <<"resolved", "acknowledged">>
             /\ escalation'[l].resolvedAt
             /\ \E w \in Workers : overtaken(w)]_vars

-----------------------------------------------------------------------------
(* What the documents say, and the code does not keep.                     *)

(* Claimed by docs/operations/phase-1k-incident-escalation.md: "Incident   *)
(* transitions are open -> in progress -> resolved -> closed".             *)
TransitionsFollowOrder ==
  [][status' # status =>
       <<status, status'>> \in
         {<<"absent", "open">>, <<"open", "in_progress">>,
          <<"in_progress", "resolved">>, <<"resolved", "closed">>}]_vars

(* Claimed by docs/operations/phase-1k-incident-escalation.md:             *)
(* "Escalations are open -> acknowledged or resolved", so that a request   *)
(* to resolve an escalation that it found open resolves it.                *)
OpenEscalationsMayBeResolved ==
  [][\A w \in Workers :
       /\ At(w, "found", {"conclude"}) /\ req[w].found = "open"
       /\ req'[w] = Idle
       => escalation'[req[w].level].status = "resolved"]_vars

=============================================================================
