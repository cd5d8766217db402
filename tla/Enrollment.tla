----------------------------- MODULE Enrollment -----------------------------
(***************************************************************************)
(* The enrolment of endpoint agents with one-time tokens                   *)
(* (services/agent.py, endpoints/agents.py, the agents and                 *)
(* agent_enrollment_tokens tables), in one organization.                   *)
(*                                                                         *)
(*   idle -> read -> checked -> claimed -> inserted -> idle                *)
(*                                                                         *)
(* An enrolment reads the token, looks for an agent of the device, claims  *)
(* the token with a conditional update and inserts the agent with its      *)
(* credential.  The claim locks the token's row, and the insertion the     *)
(* agent's unique keys, until the transaction ends.  Meanwhile tokens      *)
(* expire and enrolled agents are renamed.                                 *)
(***************************************************************************)
CONSTANTS
  Enrollers,  (* the threads that serve enrolments                         *)
  Tokens,     (* the tokens that may be issued                             *)
  Devices,    (* the organization's devices                                *)
  NoDevice,   (* a token or an agent without a device                      *)
  AgentNames  (* the names that agents ask for                             *)

ASSUME EnrollmentAssumption == NoDevice \notin Devices

VARIABLES
  token,      (* each token: issued, expired or consumed, and its device   *)
  agents,     (* the committed agents, with the token each was enrolled by *)
  enrolment   (* what each thread is doing                                 *)

enrollmentVars == <<token, agents, enrolment>>

AnyDevice == Devices \union {NoDevice}
Unissued == [state |-> "absent", device |-> NoDevice]
AgentRows == [token : Tokens, device : AnyDevice, name : AgentNames]
NoRow == [token |-> NoDevice, device |-> NoDevice, name |-> NoDevice]
NoEnrolment == [pc |-> "idle", row |-> NoRow]

EnrollmentInit ==
  /\ token = [t \in Tokens |-> Unissued]
  /\ agents = {}
  /\ enrolment = [e \in Enrollers |-> NoEnrolment]

-----------------------------------------------------------------------------
(* Helpers                                                                 *)

Reached(e, pc) == enrolment[e].pc = pc
Continue(e, pc) == enrolment' = [enrolment EXCEPT ![e].pc = pc]
EndEnrolment(e) == enrolment' = [enrolment EXCEPT ![e] = NoEnrolment]

(* Two agents that the unique keys keep apart. *)
Conflict(a, b) == a.name = b.name \/ (a.device = b.device /\ a.device # NoDevice)

(* The other threads whose transaction holds a lock. *)
Holding(e, pcs) == {other \in Enrollers \ {e} : enrolment[other].pc \in pcs}

-----------------------------------------------------------------------------
CreateToken(t, device) ==
  /\ token[t] = Unissued
  /\ token' = [token EXCEPT ![t] = [state |-> "issued", device |-> device]]
  /\ UNCHANGED <<agents, enrolment>>

ExpireToken(t) ==
  /\ token[t].state = "issued"
  /\ token' = [token EXCEPT ![t].state = "expired"]
  /\ UNCHANGED <<agents, enrolment>>

(* The token is valid.  Its device, if it has one, is the agent's; the     *)
(* request may name it again but name no other.                            *)
ReadToken(e, t, device, name) ==
  /\ Reached(e, "idle")
  /\ token[t].state = "issued"
  /\ token[t].device # NoDevice => device \in {token[t].device, NoDevice}
  /\ LET chosen == IF token[t].device # NoDevice THEN token[t].device ELSE device
         row == [token |-> t, device |-> chosen, name |-> name]
     IN enrolment' = [enrolment EXCEPT ![e] = [pc |-> "read", row |-> row]]
  /\ UNCHANGED <<token, agents>>

(* A token that expired or was consumed is refused. *)
RefuseToken(e, t) ==
  /\ Reached(e, "idle")
  /\ token[t].state \in {"expired", "consumed"}
  /\ UNCHANGED enrollmentVars

(* A device with an agent is refused. *)
CheckDevice(e) ==
  /\ Reached(e, "read")
  /\ LET device == enrolment[e].row.device
     IN IF device # NoDevice /\ \E a \in agents : a.device = device
        THEN EndEnrolment(e) ELSE Continue(e, "checked")
  /\ UNCHANGED <<token, agents>>

(* Mutation of Claim: the claim trusts the token as it was read. *)
ClaimAsRead(e) ==
  /\ Reached(e, "checked")
  /\ Continue(e, "claimed")
  /\ UNCHANGED <<token, agents>>

(* The update waits for a transaction that updated the token's row, and    *)
(* then finds it consumed or not.  It compares the expiry with the time at *)
(* which the request began.                                                *)
Claim(e) ==
  /\ Reached(e, "checked")
  /\ LET t == enrolment[e].row.token
     IN /\ \A other \in Holding(e, {"claimed", "inserted"}) : enrolment[other].row.token # t
        /\ IF token[t].state # "consumed" THEN Continue(e, "claimed") ELSE EndEnrolment(e)
  /\ UNCHANGED <<token, agents>>

(* Mutation of InsertAgent: the keys are not unique. *)
InsertAgentAnyway(e) ==
  /\ Reached(e, "claimed")
  /\ Continue(e, "inserted")
  /\ UNCHANGED <<token, agents>>

(* The insertion waits for a transaction that inserted a conflicting row;  *)
(* a committed one makes it fail, and the claim is rolled back with it.    *)
InsertAgent(e) ==
  /\ Reached(e, "claimed")
  /\ LET row == enrolment[e].row
     IN /\ \A other \in Holding(e, {"inserted"}) : ~Conflict(row, enrolment[other].row)
        /\ IF \E a \in agents : Conflict(row, a) THEN EndEnrolment(e)
                                                 ELSE Continue(e, "inserted")
  /\ UNCHANGED <<token, agents>>

CommitEnrolment(e) ==
  /\ Reached(e, "inserted")
  /\ agents' = agents \union {enrolment[e].row}
  /\ token' = [token EXCEPT ![enrolment[e].row.token].state = "consumed"]
  /\ EndEnrolment(e)

(* The thread dies, and its transaction is rolled back. *)
LoseEnrolment(e) ==
  /\ ~Reached(e, "idle")
  /\ EndEnrolment(e)
  /\ UNCHANGED <<token, agents>>

(* A user renames an agent: the update waits for a transaction that        *)
(* inserted the name, and a committed one makes it fail.                   *)
RenameAgent(a, name) ==
  /\ a \in agents
  /\ \A other \in Enrollers : Reached(other, "inserted") => enrolment[other].row.name # name
  /\ \A b \in agents : b.name # name
  /\ agents' = (agents \ {a}) \union {[a EXCEPT !.name = name]}
  /\ UNCHANGED <<token, enrolment>>

EnrollmentNext ==
  \/ \E t \in Tokens : ExpireToken(t)
  \/ \E a \in agents, name \in AgentNames : RenameAgent(a, name)
  \/ \E t \in Tokens, device \in AnyDevice : CreateToken(t, device)
  \/ \E e \in Enrollers :
       \/ \E t \in Tokens, device \in AnyDevice, name \in AgentNames :
            ReadToken(e, t, device, name)
       \/ \E t \in Tokens : RefuseToken(e, t)
       \/ CheckDevice(e) \/ Claim(e) \/ InsertAgent(e) \/ CommitEnrolment(e)
       \/ LoseEnrolment(e)

EnrollmentSpec == EnrollmentInit /\ [][EnrollmentNext]_enrollmentVars

-----------------------------------------------------------------------------
(* Properties                                                              *)

(* A token is spent exactly when it enrolled an agent, and it enrolled no  *)
(* other: two enrolments with one token, or one that fails after its       *)
(* claim, neither share the token nor waste it.                            *)
TokenPaysForAgent ==
  /\ \A t \in Tokens : token[t].state = "consumed" <=> \E a \in agents : a.token = t
  /\ \A a, b \in agents : a.token = b.token => a = b

(* Two tokens that enrol one device, or ask for one name, at once leave    *)
(* one agent; and an agent runs on the device its token was issued for.    *)
OneAgentPerDevice ==
  /\ \A a, b \in agents : a # b => ~Conflict(a, b)
  /\ \A a \in agents : token[a.token].device \in {NoDevice, a.device}
=============================================================================
