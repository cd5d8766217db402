-------------------------------- MODULE Agent --------------------------------
(***************************************************************************)
(* One endpoint agent as the server sees it: its row, its credentials, and *)
(* the requests that use or change them (services/agent.py,                *)
(* api/dependencies/agent_auth.py, endpoints/agents.py).                   *)
(*                                                                         *)
(*   heartbeat  idle -> presented -> beating -> idle                       *)
(*   rotate, revoke, retire                                                *)
(*              idle -> loaded -> collected -> idle                        *)
(*                                                                         *)
(* A heartbeat reads the credential, then the agent, and decides on that   *)
(* copy after the commit that dates the credential's use: the session      *)
(* expires nothing on commit.  The management requests read the agent and, *)
(* in a statement of their own, its credentials.  A request that dies      *)
(* before its commit leaves no trace, which is the same as never           *)
(* committing.                                                             *)
(***************************************************************************)
EXTENDS Naturals, FiniteSets

CONSTANTS
  Workers,      (* the threads that serve requests                         *)
  Credentials,  (* row ids: the bound on the number of credentials         *)
  NoCredential, (* no row                                                  *)
  MaxTime       (* the bound on observation times                          *)

ASSUME AgentAssumption ==
  /\ NoCredential \notin Credentials
  /\ IsFiniteSet(Workers) /\ IsFiniteSet(Credentials)
  /\ MaxTime \in Nat

Statuses == {"pending", "active", "offline", "revoked", "retired"}

(* The statuses that may authenticate, and those that do not come back. *)
Eligible == {"pending", "active", "offline"}
Withdrawing == {"revoked", "retired"}

Never == 0
Times == 1 .. MaxTime

VARIABLES
  status,       (* the agent's status, "absent" before it is enrolled      *)
  lastSeen,     (* last_seen_at                                            *)
  credential,   (* the credential rows: their state, and who issued them   *)
  req           (* what each worker is doing                               *)

vars == <<status, lastSeen, credential, req>>

Absent == [state |-> "absent", issuer |-> NoCredential]
Rows == [state : {"live", "revoked"}, issuer : Workers] \union {Absent}

Copies == [status : Statuses, lastSeen : {Never} \union Times]
NoCopy == [status |-> "pending", lastSeen |-> Never]
Stored == [status |-> status, lastSeen |-> lastSeen]

Ops == {"heartbeat", "rotate", "revoke", "retire"}
Requests ==
  [pc : {"idle", "presented", "beating", "loaded", "collected"}, op : Ops,
   observed : {Never} \union Times, seen : Copies, found : SUBSET Credentials]
Idle == [pc |-> "idle", op |-> "heartbeat", observed |-> Never,
         seen |-> NoCopy, found |-> {}]

Init ==
  /\ status = "absent"
  /\ lastSeen = Never
  /\ credential = [c \in Credentials |-> Absent]
  /\ req = [w \in Workers |-> Idle]

-----------------------------------------------------------------------------
(* Helpers                                                                 *)

(* SQLAlchemy leaves a column out of the UPDATE when the value assigned is *)
(* the one it loaded: the stored value then survives the commit.           *)
Flush(stored, loaded, assigned) == IF assigned = loaded THEN stored ELSE assigned

At(w, pc, ops) == req[w].pc = pc /\ req[w].op \in ops
Seen(w) == req[w].seen
End(w) == req' = [req EXCEPT ![w] = Idle]

Live == {c \in Credentials : credential[c].state = "live"}
Free == {c \in Credentials : credential[c].state = "absent"}
Rotating == {w \in Workers : req[w].op = "rotate" /\ req[w].pc # "idle"}
New(w) == [state |-> "live", issuer |-> w]

(* The credentials once those the request found live are revoked. *)
Revoked(w) ==
  [c \in Credentials |->
     IF c \in req[w].found THEN [credential[c] EXCEPT !.state = "revoked"]
                           ELSE credential[c]]

-----------------------------------------------------------------------------
(* Enrolment inserts the agent and its first credential in one transaction. *)
Enroll(w, c) ==
  /\ req[w] = Idle
  /\ status = "absent"
  /\ status' = "pending"
  /\ credential' = [credential EXCEPT ![c] = New(w)]
  /\ UNCHANGED <<lastSeen, req>>

-----------------------------------------------------------------------------
(* Heartbeats                                                              *)

(* The credential presented with the heartbeat is live. *)
PresentCredential(w, c, observed) ==
  /\ req[w] = Idle
  /\ c \in Live
  /\ req' = [req EXCEPT ![w] = [Idle EXCEPT !.pc = "presented", !.observed = observed]]
  /\ UNCHANGED <<status, lastSeen, credential>>

(* The agent may authenticate; its copy is the one the heartbeat uses. *)
Authenticate(w) ==
  /\ At(w, "presented", {"heartbeat"})
  /\ status \in Eligible
  /\ req' = [req EXCEPT ![w].pc = "beating", ![w].seen = Stored]
  /\ UNCHANGED <<status, lastSeen, credential>>

RefuseAgent(w) ==
  /\ At(w, "presented", {"heartbeat"})
  /\ status \notin Eligible
  /\ End(w)
  /\ UNCHANGED <<status, lastSeen, credential>>

(* The heartbeat, its telemetry and the agent's first activation commit    *)
(* together.                                                               *)
CommitHeartbeat(w) ==
  /\ At(w, "beating", {"heartbeat"})
  /\ lastSeen' = IF req[w].observed > Seen(w).lastSeen THEN req[w].observed ELSE lastSeen
  /\ status' = IF Seen(w).status \in {"pending", "offline"} THEN "active" ELSE status
  /\ End(w)
  /\ UNCHANGED credential

(* Telemetry that does not validate: the transaction is lost. *)
LoseHeartbeat(w) ==
  /\ At(w, "beating", {"heartbeat"})
  /\ End(w)
  /\ UNCHANGED <<status, lastSeen, credential>>

-----------------------------------------------------------------------------
(* Management                                                              *)

(* The agent is read.  The bound: rotations under way find a free id.      *)
LoadAgent(w, op) ==
  /\ req[w] = Idle
  /\ status # "absent"
  /\ op \in {"rotate", "revoke", "retire"}
  /\ op = "rotate" => Cardinality(Rotating) < Cardinality(Free)
  /\ req' = [req EXCEPT ![w] = [Idle EXCEPT !.pc = "loaded", !.op = op, !.seen = Stored]]
  /\ UNCHANGED <<status, lastSeen, credential>>

RefuseRotation(w) ==
  /\ At(w, "loaded", {"rotate"})
  /\ Seen(w).status \in Withdrawing
  /\ End(w)
  /\ UNCHANGED <<status, lastSeen, credential>>

(* Mutation of CollectCredentials: a withdrawn agent's are rotated too. *)
CollectCredentialsUnchecked(w) ==
  /\ At(w, "loaded", {"rotate", "revoke", "retire"})
  /\ req' = [req EXCEPT ![w].pc = "collected", ![w].found = Live]
  /\ UNCHANGED <<status, lastSeen, credential>>

(* The credentials that are not revoked are read. *)
CollectCredentials(w) ==
  /\ At(w, "loaded", {"rotate", "revoke", "retire"})
  /\ req[w].op = "rotate" => Seen(w).status \notin Withdrawing
  /\ req' = [req EXCEPT ![w].pc = "collected", ![w].found = Live]
  /\ UNCHANGED <<status, lastSeen, credential>>

(* Mutation of CommitRotation: the old credentials stay. *)
CommitRotationKeeping(w, c) ==
  /\ At(w, "collected", {"rotate"})
  /\ c \in Free
  /\ credential' = [credential EXCEPT ![c] = New(w)]
  /\ End(w)
  /\ UNCHANGED <<status, lastSeen>>

CommitRotation(w, c) ==
  /\ At(w, "collected", {"rotate"})
  /\ c \in Free
  /\ credential' = [Revoked(w) EXCEPT ![c] = New(w)]
  /\ End(w)
  /\ UNCHANGED <<status, lastSeen>>

(* Mutation of CommitRevoke: a status the enumeration lacks. *)
CommitRevokeMisspelt(w) ==
  /\ At(w, "collected", {"revoke"})
  /\ status' = "revocation"
  /\ credential' = Revoked(w)
  /\ End(w)
  /\ UNCHANGED lastSeen

CommitRevoke(w) ==
  /\ At(w, "collected", {"revoke"})
  /\ status' = Flush(status, Seen(w).status, "revoked")
  /\ credential' = Revoked(w)
  /\ End(w)
  /\ UNCHANGED lastSeen

CommitRetire(w) ==
  /\ At(w, "collected", {"retire"})
  /\ status' = Flush(status, Seen(w).status, "retired")
  /\ credential' = Revoked(w)
  /\ End(w)
  /\ UNCHANGED lastSeen

-----------------------------------------------------------------------------

Next ==
  \E w \in Workers :
    \/ \E c \in Credentials : Enroll(w, c) \/ CommitRotation(w, c)
    \/ \E c \in Credentials, observed \in Times : PresentCredential(w, c, observed)
    \/ Authenticate(w) \/ RefuseAgent(w)
    \/ CommitHeartbeat(w) \/ LoseHeartbeat(w)
    \/ \E op \in Ops : LoadAgent(w, op)
    \/ RefuseRotation(w) \/ CollectCredentials(w)
    \/ CommitRevoke(w) \/ CommitRetire(w)

Spec == Init /\ [][Next]_vars

-----------------------------------------------------------------------------
(* Properties                                                              *)

(* The row, the credentials and the requests hold values of their columns. *)
TypeOK ==
  /\ status \in Statuses \union {"absent"}
  /\ lastSeen \in {Never} \union Times
  /\ credential \in [Credentials -> Rows]
  /\ req \in [Workers -> Requests]

(* However rotations and withdrawals overlap, two live credentials were    *)
(* issued by two different threads: as many as rotate at the same time may *)
(* survive, and rotations served one after the other leave one.            *)
LiveCredentialsNeedOverlap ==
  \A c, d \in Live : credential[c].issuer = credential[d].issuer => c = d

(* An agent that is active was heard from, whichever heartbeats, late or   *)
(* out of order, activated it, also after a withdrawal it did not see.     *)
ActiveWasSeen == status = "active" => lastSeen # Never

(* The agent is withdrawn, and no request that read it before is under way *)
(* that could still activate it or give it a credential.                   *)
Withdrawn ==
  /\ status \in Withdrawing
  /\ Live = {}
  /\ \A w \in Workers :
       /\ req[w].pc = "beating" => Seen(w).status \notin {"pending", "offline"}
       /\ req[w].pc \in {"loaded", "collected"} /\ req[w].op = "rotate" =>
            Seen(w).status \in Withdrawing

(* A revocation or retirement that outlives the requests it overlapped is  *)
(* final: nothing activates the agent or issues it a credential again.     *)
WithdrawalIsFinal == [][Withdrawn => Withdrawn']_vars

-----------------------------------------------------------------------------
(* What a test says, and the code does not keep.                           *)

(* Claimed by test_heartbeat_maps_metrics_and_preserves_newest_seen_timestamps:*)
(* an older observation does not replace a newer last_seen_at.             *)
NewestSeenPreserved == [][lastSeen' >= lastSeen]_vars
=============================================================================
