---------------------------- MODULE EndpointProofs ----------------------------
(***************************************************************************)
(* Proofs about what the platform hears from its endpoints: enrolment, for *)
(* any number of threads, tokens, devices and names; monitoring, for any   *)
(* number of threads and any clock; and the agent's runtime, for any       *)
(* number of attempts and any clock.                                       *)
(***************************************************************************)
EXTENDS Enrollment, Monitoring, AgentRuntime, FiniteSetTheorems, TLAPS

-----------------------------------------------------------------------------
(* Enrolment                                                               *)

PCs == {"idle", "read", "checked", "claimed", "inserted"}
TokenRows == [state : {"absent", "issued", "expired", "consumed"}, device : AnyDevice]
Enrolments == [pc : PCs, row : AgentRows \union {NoRow}]

EnrollmentTypeOK ==
  /\ token \in [Tokens -> TokenRows]
  /\ agents \subseteq AgentRows
  /\ enrolment \in [Enrollers -> Enrolments]
  /\ \A e \in Enrollers : Reached(e, "idle") \/ enrolment[e].row \in AgentRows

(* A thread that moves on keeps its row; one that ends loses it. *)
LEMMA ContinueTyped ==
  ASSUME EnrollmentTypeOK, NEW e \in Enrollers, NEW pc \in PCs \ {"idle"},
         ~Reached(e, "idle"), Continue(e, pc)
  PROVE  /\ enrolment' \in [Enrollers -> Enrolments]
         /\ enrolment'[e] = [pc |-> pc, row |-> enrolment[e].row]
         /\ \A o \in Enrollers \ {e} : enrolment'[o] = enrolment[o]
  BY DEF EnrollmentTypeOK, Continue, Enrolments, Reached

LEMMA EndTyped ==
  ASSUME EnrollmentTypeOK, NEW e \in Enrollers, EndEnrolment(e)
  PROVE  /\ enrolment' \in [Enrollers -> Enrolments]
         /\ enrolment'[e] = NoEnrolment
         /\ \A o \in Enrollers \ {e} : enrolment'[o] = enrolment[o]
  BY DEF EnrollmentTypeOK, EndEnrolment, Enrolments, NoEnrolment, PCs

LEMMA ContinueKeepsType ==
  ASSUME EnrollmentTypeOK, NEW e \in Enrollers, NEW pc \in PCs \ {"idle"},
         ~Reached(e, "idle"), Continue(e, pc), UNCHANGED <<token, agents>>
  PROVE  EnrollmentTypeOK'
<1>1. enrolment[e].row \in AgentRows
  BY DEF EnrollmentTypeOK
<1>2. ASSUME NEW o \in Enrollers
      PROVE  Reached(o, "idle")' \/ enrolment'[o].row \in AgentRows
  <2>1. enrolment'[e] = [pc |-> pc, row |-> enrolment[e].row]
    BY ContinueTyped
  <2>2. CASE o = e
    BY <1>1, <2>1, <2>2
  <2>3. CASE o # e
    <3>1. enrolment'[o] = enrolment[o]
      BY <2>3, ContinueTyped
    <3>2. QED
      BY <3>1 DEF EnrollmentTypeOK, Reached
  <2>4. QED
    BY <2>2, <2>3
<1>3. QED
  BY <1>2, ContinueTyped DEF EnrollmentTypeOK

LEMMA EndKeepsType ==
  ASSUME EnrollmentTypeOK, NEW e \in Enrollers, EndEnrolment(e), UNCHANGED <<token, agents>>
  PROVE  EnrollmentTypeOK'
<1>1. ASSUME NEW o \in Enrollers
      PROVE  Reached(o, "idle")' \/ enrolment'[o].row \in AgentRows
  <2>1. CASE o = e
    BY <2>1, EndTyped DEF Reached, NoEnrolment
  <2>2. CASE o # e
    BY <2>2, EndTyped DEF EnrollmentTypeOK, Reached
  <2>3. QED
    BY <2>1, <2>2
<1>2. QED
  BY <1>1, EndTyped DEF EnrollmentTypeOK

LEMMA EnrollmentTypeStep == EnrollmentTypeOK /\ [EnrollmentNext]_enrollmentVars => EnrollmentTypeOK'
<1> SUFFICES ASSUME EnrollmentTypeOK, [EnrollmentNext]_enrollmentVars
             PROVE  EnrollmentTypeOK'
  OBVIOUS
<1>1. ASSUME NEW t \in Tokens, NEW wanted \in AnyDevice, CreateToken(t, wanted)
      PROVE  EnrollmentTypeOK'
  BY <1>1 DEF EnrollmentTypeOK, CreateToken, TokenRows, Reached
<1>2. ASSUME NEW e \in Enrollers, NEW t \in Tokens, NEW wanted \in AnyDevice,
             NEW name \in AgentNames, ReadToken(e, t, wanted, name)
      PROVE  EnrollmentTypeOK'
  <2> DEFINE chosen == IF token[t].device # NoDevice THEN token[t].device ELSE wanted
             row == [token |-> t, device |-> chosen, name |-> name]
  <2>1. chosen \in AnyDevice
    BY DEF EnrollmentTypeOK, TokenRows
  <2>2. row \in AgentRows
    BY <2>1 DEF AgentRows
  <2>3. enrolment' = [enrolment EXCEPT ![e] = [pc |-> "read", row |-> row]]
    BY <1>2 DEF ReadToken
  <2> HIDE DEF row
  <2>4. QED
    BY <1>2, <2>2, <2>3 DEF EnrollmentTypeOK, ReadToken, Enrolments, PCs, Reached
<1>3. ASSUME NEW e \in Enrollers, CheckDevice(e) PROVE EnrollmentTypeOK'
  <2>1. ~Reached(e, "idle") /\ UNCHANGED <<token, agents>>
    BY <1>3 DEF CheckDevice, Reached
  <2>2. EndEnrolment(e) \/ Continue(e, "checked")
    BY <1>3 DEF CheckDevice
  <2>3. QED
    BY <2>1, <2>2, EndKeepsType, ContinueKeepsType DEF PCs
<1>4. ASSUME NEW e \in Enrollers, Claim(e) PROVE EnrollmentTypeOK'
  <2>1. ~Reached(e, "idle") /\ UNCHANGED <<token, agents>>
    BY <1>4 DEF Claim, Reached
  <2>2. EndEnrolment(e) \/ Continue(e, "claimed")
    BY <1>4 DEF Claim
  <2>3. QED
    BY <2>1, <2>2, EndKeepsType, ContinueKeepsType DEF PCs
<1>5. ASSUME NEW e \in Enrollers, InsertAgent(e) PROVE EnrollmentTypeOK'
  <2>1. ~Reached(e, "idle") /\ UNCHANGED <<token, agents>>
    BY <1>5 DEF InsertAgent, Reached
  <2>2. EndEnrolment(e) \/ Continue(e, "inserted")
    BY <1>5 DEF InsertAgent
  <2>3. QED
    BY <2>1, <2>2, EndKeepsType, ContinueKeepsType DEF PCs
<1>6. ASSUME NEW e \in Enrollers, CommitEnrolment(e) PROVE EnrollmentTypeOK'
  <2>1. enrolment[e].row \in AgentRows
    BY <1>6 DEF EnrollmentTypeOK, CommitEnrolment, Reached
  <2>2. token' \in [Tokens -> TokenRows] /\ agents' \subseteq AgentRows
    BY <1>6, <2>1 DEF EnrollmentTypeOK, CommitEnrolment, AgentRows, TokenRows
  <2>3. QED
    BY <1>6, <2>2, EndTyped DEF EnrollmentTypeOK, CommitEnrolment, Reached, NoEnrolment
<1>7. ASSUME NEW e \in Enrollers, LoseEnrolment(e) PROVE EnrollmentTypeOK'
  BY <1>7, EndKeepsType DEF LoseEnrolment
<1>8. ASSUME NEW t \in Tokens, ExpireToken(t) PROVE EnrollmentTypeOK'
  BY <1>8 DEF EnrollmentTypeOK, ExpireToken, TokenRows, Reached
<1>9. ASSUME NEW a \in agents, NEW name \in AgentNames, RenameAgent(a, name)
      PROVE  EnrollmentTypeOK'
  <2>1. [a EXCEPT !.name = name] \in AgentRows
    BY DEF EnrollmentTypeOK, AgentRows
  <2>2. QED
    BY <1>9, <2>1 DEF EnrollmentTypeOK, RenameAgent, Reached
<1>10. CASE UNCHANGED enrollmentVars
  BY <1>10 DEF EnrollmentTypeOK, enrollmentVars, Reached
<1>11. QED
  BY <1>1, <1>2, <1>3, <1>4, <1>5, <1>6, <1>7, <1>8, <1>9, <1>10 DEF EnrollmentNext, RefuseToken

(* Every reachable state is well typed. *)
THEOREM EnrollmentTyping == EnrollmentSpec => []EnrollmentTypeOK
<1>1. EnrollmentInit => EnrollmentTypeOK
  BY DEF EnrollmentInit, EnrollmentTypeOK, TokenRows, Unissued, AnyDevice, Enrolments,
         NoEnrolment, PCs, Reached
<1>2. QED
  BY <1>1, EnrollmentTypeStep, PTL DEF EnrollmentSpec

-----------------------------------------------------------------------------
(* The locks                                                               *)

Claims(e) == enrolment[e].pc \in {"claimed", "inserted"}

(* An enrolment under way asks for a device that its token allows; one     *)
(* that claimed its token holds it alone, unconsumed; one that inserted    *)
(* its agent conflicts with no other, inserted or committed.               *)
LockInv ==
  /\ \A e \in Enrollers : ~Reached(e, "idle") =>
       /\ token[enrolment[e].row.token].state # "absent"
       /\ token[enrolment[e].row.token].device \in {NoDevice, enrolment[e].row.device}
  /\ \A e \in Enrollers : Claims(e) => token[enrolment[e].row.token].state # "consumed"
  /\ \A e, o \in Enrollers : Claims(e) /\ Claims(o) /\ e # o =>
       enrolment[e].row.token # enrolment[o].row.token
  /\ \A e \in Enrollers : Reached(e, "inserted") =>
       \A a \in agents : ~Conflict(enrolment[e].row, a)
  /\ \A e, o \in Enrollers : Reached(e, "inserted") /\ Reached(o, "inserted") /\ e # o =>
       ~Conflict(enrolment[e].row, enrolment[o].row)

EnrollmentInv == LockInv /\ TokenPaysForAgent /\ OneAgentPerDevice

(* A step that ends a thread, and one that moves a thread on without a     *)
(* lock, disturb nothing.                                                  *)
LEMMA EndKeepsInv ==
  ASSUME EnrollmentTypeOK, EnrollmentInv, NEW e \in Enrollers, EndEnrolment(e),
         UNCHANGED <<token, agents>>
  PROVE  EnrollmentInv'
<1>1. \A o \in Enrollers : Reached(o, "idle")' \/ enrolment'[o] = enrolment[o]
  BY EndTyped DEF Reached, NoEnrolment
<1>2. LockInv'
  BY <1>1 DEF EnrollmentInv, LockInv, Claims, Reached
<1>3. QED
  BY <1>2 DEF EnrollmentInv, TokenPaysForAgent, OneAgentPerDevice

LEMMA EnrollmentInvStep ==
  EnrollmentTypeOK /\ EnrollmentInv /\ [EnrollmentNext]_enrollmentVars => EnrollmentInv'
<1> SUFFICES ASSUME EnrollmentTypeOK, EnrollmentInv, [EnrollmentNext]_enrollmentVars
             PROVE  EnrollmentInv'
  OBVIOUS
<1>1. ASSUME NEW t \in Tokens, NEW wanted \in AnyDevice, CreateToken(t, wanted)
      PROVE  EnrollmentInv'
  <2>1. /\ \A u \in Tokens : token[u].state # "absent" => token'[u] = token[u]
        /\ token[t].state = "absent" /\ token'[t].state = "issued"
        /\ \A u \in Tokens \ {t} : token'[u] = token[u]
    BY <1>1 DEF EnrollmentTypeOK, CreateToken, Unissued
  <2>2. /\ \A e \in Enrollers : ~Reached(e, "idle") => enrolment[e].row.token \in Tokens
        /\ \A a \in agents : a.token \in Tokens
    BY DEF EnrollmentTypeOK, AgentRows
  <2>3. enrolment' = enrolment /\ agents' = agents
    BY <1>1 DEF CreateToken
  <2>4. LockInv'
    BY <2>1, <2>2, <2>3 DEF EnrollmentInv, LockInv, Claims, Reached
  <2>5. \A a \in agents : token[a.token].state = "consumed"
    BY <2>2 DEF EnrollmentInv, TokenPaysForAgent
  <2>6. TokenPaysForAgent'
    BY <2>1, <2>2, <2>3 DEF EnrollmentInv, TokenPaysForAgent
  <2>7. OneAgentPerDevice'
    BY <2>1, <2>2, <2>3, <2>5 DEF EnrollmentInv, OneAgentPerDevice
  <2>8. QED
    BY <2>4, <2>6, <2>7 DEF EnrollmentInv
<1>2. ASSUME NEW e \in Enrollers, NEW t \in Tokens, NEW wanted \in AnyDevice,
             NEW name \in AgentNames, ReadToken(e, t, wanted, name)
      PROVE  EnrollmentInv'
  <2>1. /\ enrolment'[e].pc = "read" /\ enrolment'[e].row.token = t
        /\ token[t].device \in {NoDevice, enrolment'[e].row.device}
        /\ \A o \in Enrollers \ {e} : enrolment'[o] = enrolment[o]
    BY <1>2 DEF EnrollmentTypeOK, ReadToken
  <2>2. token[t].state = "issued" /\ UNCHANGED <<token, agents>>
    BY <1>2 DEF ReadToken
  <2>3. LockInv'
    BY <2>1, <2>2 DEF EnrollmentInv, LockInv, Claims, Reached
  <2>4. QED
    BY <2>2, <2>3 DEF EnrollmentInv, TokenPaysForAgent, OneAgentPerDevice
<1>3. ASSUME NEW e \in Enrollers, CheckDevice(e) PROVE EnrollmentInv'
  <2>1. ~Reached(e, "idle") /\ UNCHANGED <<token, agents>>
    BY <1>3 DEF CheckDevice, Reached
  <2>2. CASE EndEnrolment(e)
    BY <2>1, <2>2, EndKeepsInv
  <2>3. CASE Continue(e, "checked")
    <3>1. /\ enrolment'[e] = [pc |-> "checked", row |-> enrolment[e].row]
          /\ \A o \in Enrollers \ {e} : enrolment'[o] = enrolment[o]
      BY <2>1, <2>3, ContinueTyped DEF PCs
    <3>2. LockInv'
      BY <2>1, <3>1 DEF EnrollmentInv, LockInv, Claims, Reached
    <3>3. QED
      BY <2>1, <3>2 DEF EnrollmentInv, TokenPaysForAgent, OneAgentPerDevice
  <2>4. QED
    BY <1>3, <2>2, <2>3 DEF CheckDevice
<1>4. ASSUME NEW e \in Enrollers, Claim(e) PROVE EnrollmentInv'
  <2>1. ~Reached(e, "idle") /\ UNCHANGED <<token, agents>>
    BY <1>4 DEF Claim, Reached
  <2>2. CASE EndEnrolment(e)
    BY <2>1, <2>2, EndKeepsInv
  <2>3. CASE Continue(e, "claimed") /\ ~EndEnrolment(e)
    <3>1. /\ enrolment'[e] = [pc |-> "claimed", row |-> enrolment[e].row]
          /\ \A o \in Enrollers \ {e} : enrolment'[o] = enrolment[o]
      BY <2>1, <2>3, ContinueTyped DEF PCs
    <3>2. /\ token[enrolment[e].row.token].state # "consumed"
          /\ \A o \in Enrollers \ {e} :
               Claims(o) => enrolment[o].row.token # enrolment[e].row.token
      BY <1>4, <2>3 DEF Claim, Holding, Claims
    <3>3. LockInv'
      BY <2>1, <3>1, <3>2 DEF EnrollmentInv, LockInv, Claims, Reached
    <3>4. QED
      BY <2>1, <3>3 DEF EnrollmentInv, TokenPaysForAgent, OneAgentPerDevice
  <2>4. QED
    BY <1>4, <2>2, <2>3 DEF Claim
<1>5. ASSUME NEW e \in Enrollers, InsertAgent(e) PROVE EnrollmentInv'
  <2>1. ~Reached(e, "idle") /\ Reached(e, "claimed") /\ UNCHANGED <<token, agents>>
    BY <1>5 DEF InsertAgent, Reached
  <2>2. CASE EndEnrolment(e)
    BY <2>1, <2>2, EndKeepsInv
  <2>3. CASE Continue(e, "inserted") /\ ~EndEnrolment(e)
    <3>1. /\ enrolment'[e] = [pc |-> "inserted", row |-> enrolment[e].row]
          /\ \A o \in Enrollers \ {e} : enrolment'[o] = enrolment[o]
      BY <2>1, <2>3, ContinueTyped DEF PCs
    <3>2. /\ \A a \in agents : ~Conflict(enrolment[e].row, a)
          /\ \A o \in Enrollers \ {e} :
               Reached(o, "inserted") => ~Conflict(enrolment[e].row, enrolment[o].row)
      BY <1>5, <2>3 DEF InsertAgent, Holding, Reached
    <3>3. \A a, b : Conflict(a, b) => Conflict(b, a)
      BY DEF Conflict
    <3>4. LockInv'
      BY <2>1, <3>1, <3>2, <3>3 DEF EnrollmentInv, LockInv, Claims, Reached
    <3>5. QED
      BY <2>1, <3>4 DEF EnrollmentInv, TokenPaysForAgent, OneAgentPerDevice
  <2>4. QED
    BY <1>5, <2>2, <2>3 DEF InsertAgent
<1>6. ASSUME NEW e \in Enrollers, CommitEnrolment(e) PROVE EnrollmentInv'
  <2> DEFINE row == enrolment[e].row
  <2>1. /\ Reached(e, "inserted") /\ Claims(e) /\ ~Reached(e, "idle")
        /\ row \in AgentRows /\ row.token \in Tokens
    BY <1>6 DEF EnrollmentTypeOK, CommitEnrolment, Reached, Claims, AgentRows
  <2>2. \A o \in Enrollers : Reached(o, "idle")' \/ (o # e /\ enrolment'[o] = enrolment[o])
    BY <1>6, EndTyped DEF CommitEnrolment, Reached, NoEnrolment
  <2>3. /\ token'[row.token].state = "consumed"
        /\ token'[row.token].device = token[row.token].device
        /\ \A t \in Tokens \ {row.token} : token'[t] = token[t]
        /\ agents' = agents \union {row}
    BY <1>6, <2>1 DEF EnrollmentTypeOK, TokenRows, CommitEnrolment
  <2>4. /\ \A o \in Enrollers : ~Reached(o, "idle") => enrolment[o].row.token \in Tokens
        /\ \A a \in agents : a.token \in Tokens
    BY DEF EnrollmentTypeOK, AgentRows
  <2>5. token[row.token].state # "consumed" /\ \A a \in agents : a.token # row.token
    BY <2>1 DEF EnrollmentInv, LockInv, TokenPaysForAgent
  <2>6. \A a, b : Conflict(a, b) => Conflict(b, a)
    BY DEF Conflict
  <2>7. \A a \in agents : ~Conflict(row, a) /\ ~Conflict(a, row)
    BY <2>1, <2>6 DEF EnrollmentInv, LockInv
  <2>8. token[row.token].device \in {NoDevice, row.device}
    BY <2>1 DEF EnrollmentInv, LockInv
  <2>9. \A o \in Enrollers \ {e} :
          /\ Claims(o) => enrolment[o].row.token # row.token
          /\ Reached(o, "inserted") => ~Conflict(enrolment[o].row, row)
    BY <2>1 DEF EnrollmentInv, LockInv
  <2> HIDE DEF row
  <2>10. LockInv'
    <3>1. ASSUME NEW o \in Enrollers, ~Reached(o, "idle")'
          PROVE  /\ o # e /\ enrolment'[o] = enrolment[o] /\ ~Reached(o, "idle")
                 /\ Claims(o)' => Claims(o)
                 /\ Reached(o, "inserted")' => Reached(o, "inserted")
                 /\ enrolment[o].row.token \in Tokens
      BY <2>2, <2>4, <3>1 DEF Claims, Reached
    <3>2. \A o \in Enrollers : Claims(o)' => ~Reached(o, "idle")'
      BY DEF Claims, Reached
    <3>2a. \A o \in Enrollers : Reached(o, "inserted")' => ~Reached(o, "idle")'
      BY DEF Reached
    <3>3. \A o \in Enrollers : ~Reached(o, "idle")' =>
           /\ token'[enrolment'[o].row.token].state # "absent"
           /\ token'[enrolment'[o].row.token].device \in {NoDevice, enrolment'[o].row.device}
      BY <2>3, <3>1 DEF EnrollmentInv, LockInv
    <3>4. ASSUME NEW o \in Enrollers, Claims(o)'
          PROVE  token'[enrolment'[o].row.token].state # "consumed"
      <4>1. /\ o # e /\ enrolment'[o] = enrolment[o] /\ Claims(o)
            /\ enrolment[o].row.token \in Tokens
        BY <3>1, <3>2, <3>4
      <4>2. token'[enrolment[o].row.token] = token[enrolment[o].row.token]
        BY <2>3, <2>9, <4>1
      <4>3. QED
        BY <4>1, <4>2 DEF EnrollmentInv, LockInv
    <3>5. \A o, u \in Enrollers : Claims(o)' /\ Claims(u)' /\ o # u =>
           enrolment'[o].row.token # enrolment'[u].row.token
      BY <3>1, <3>2 DEF EnrollmentInv, LockInv
    <3>6. ASSUME NEW o \in Enrollers, Reached(o, "inserted")', NEW a \in agents'
          PROVE  ~Conflict(enrolment'[o].row, a)
      <4>1. o # e /\ enrolment'[o] = enrolment[o] /\ Reached(o, "inserted")
        BY <3>1, <3>6, <3>2a
      <4>2. ~Conflict(enrolment[o].row, row) /\ \A b \in agents : ~Conflict(enrolment[o].row, b)
        BY <2>9, <4>1 DEF EnrollmentInv, LockInv
      <4>3. a \in agents \/ a = row
        BY <2>3
      <4>4. QED
        BY <4>1, <4>2, <4>3
    <3>7. \A o, u \in Enrollers : Reached(o, "inserted")' /\ Reached(u, "inserted")' /\ o # u =>
           ~Conflict(enrolment'[o].row, enrolment'[u].row)
      BY <3>1, <3>2a DEF EnrollmentInv, LockInv
    <3>8. QED
      BY <3>3, <3>4, <3>5, <3>6, <3>7 DEF LockInv, Conflict
  <2>11. TokenPaysForAgent'
    BY <2>1, <2>3, <2>4, <2>5 DEF EnrollmentInv, TokenPaysForAgent
  <2>12. OneAgentPerDevice'
    BY <2>1, <2>3, <2>4, <2>5, <2>7, <2>8 DEF EnrollmentInv, OneAgentPerDevice
  <2>13. QED
    BY <2>10, <2>11, <2>12 DEF EnrollmentInv
<1>7. ASSUME NEW e \in Enrollers, LoseEnrolment(e) PROVE EnrollmentInv'
  BY <1>7, EndKeepsInv DEF LoseEnrolment
<1>8. ASSUME NEW t \in Tokens, ExpireToken(t) PROVE EnrollmentInv'
  <2>1. /\ \A u \in Tokens : token'[u].device = token[u].device
        /\ \A u \in Tokens : token'[u].state = "consumed" <=> token[u].state = "consumed"
        /\ \A u \in Tokens : token'[u].state = "absent" <=> token[u].state = "absent"
        /\ UNCHANGED <<agents, enrolment>>
    BY <1>8 DEF EnrollmentTypeOK, TokenRows, ExpireToken
  <2>2. /\ \A e \in Enrollers : ~Reached(e, "idle") => enrolment[e].row.token \in Tokens
        /\ \A a \in agents : a.token \in Tokens
    BY DEF EnrollmentTypeOK, AgentRows
  <2>3. \A e \in Enrollers : Claims(e) => ~Reached(e, "idle")
    BY DEF Claims, Reached
  <2>4. LockInv'
    BY <2>1, <2>2, <2>3 DEF EnrollmentInv, LockInv, Claims, Reached
  <2>5. QED
    BY <2>1, <2>2, <2>4 DEF EnrollmentInv, TokenPaysForAgent, OneAgentPerDevice
<1>9. ASSUME NEW a \in agents, NEW name \in AgentNames, RenameAgent(a, name)
      PROVE  EnrollmentInv'
  <2> DEFINE new == [a EXCEPT !.name = name]
  <2>1. new.token = a.token /\ new.device = a.device /\ new.name = name
    BY DEF EnrollmentTypeOK, AgentRows
  <2> HIDE DEF new
  <2>2. /\ agents' = (agents \ {a}) \union {new}
        /\ UNCHANGED <<token, enrolment>>
        /\ \A b \in agents : b.name # name
        /\ \A e \in Enrollers : Reached(e, "inserted") => enrolment[e].row.name # name
    BY <1>9 DEF RenameAgent, new
  <2>3. \A b \in agents \ {a} : ~Conflict(new, b) /\ ~Conflict(b, new)
    BY <2>1, <2>2 DEF EnrollmentInv, OneAgentPerDevice, Conflict
  <2>4. \A e \in Enrollers : Reached(e, "inserted") => ~Conflict(enrolment[e].row, new)
    BY <2>1, <2>2 DEF EnrollmentInv, LockInv, Conflict
  <2>5. LockInv'
    BY <2>2, <2>4 DEF EnrollmentInv, LockInv, Claims, Reached
  <2>6. TokenPaysForAgent'
    BY <2>1, <2>2 DEF EnrollmentInv, TokenPaysForAgent
  <2>7. OneAgentPerDevice'
    BY <2>1, <2>2, <2>3 DEF EnrollmentInv, OneAgentPerDevice
  <2>8. QED
    BY <2>5, <2>6, <2>7 DEF EnrollmentInv
<1>10. CASE UNCHANGED enrollmentVars
  BY <1>10 DEF enrollmentVars, EnrollmentInv, LockInv, Claims, Reached,
               TokenPaysForAgent, OneAgentPerDevice
<1>11. QED
  BY <1>1, <1>2, <1>3, <1>4, <1>5, <1>6, <1>7, <1>8, <1>9, <1>10 DEF EnrollmentNext, RefuseToken

LEMMA EnrollmentInvariant == EnrollmentSpec => []EnrollmentInv
<1>1. EnrollmentInit => EnrollmentInv
  BY DEF EnrollmentInit, EnrollmentInv, LockInv, TokenPaysForAgent, OneAgentPerDevice,
         Claims, Reached, NoEnrolment, Unissued
<1>2. QED
  BY <1>1, EnrollmentInvStep, EnrollmentTyping, PTL DEF EnrollmentSpec

(* A token is spent exactly when it enrolled an agent, and enrols one.     *)
THEOREM TokensPayForAgents == EnrollmentSpec => []TokenPaysForAgent
<1>1. EnrollmentInv => TokenPaysForAgent
  BY DEF EnrollmentInv
<1>2. QED
  BY <1>1, EnrollmentInvariant, PTL

(* No two agents share a device or a name.                                 *)
THEOREM AgentsAreDistinct == EnrollmentSpec => []OneAgentPerDevice
<1>1. EnrollmentInv => OneAgentPerDevice
  BY DEF EnrollmentInv
<1>2. QED
  BY <1>1, EnrollmentInvariant, PTL

-----------------------------------------------------------------------------
(* Monitoring                                                              *)

Targets == Configurations \union {NoTarget}
Seen == {Never} \union Times
Statuses == [health : HealthStatus, seen : Seen, at : Nat]
TelemetryPcs == {"target", "device", "ready", "unmonitored"}
MonitoringRequests ==
  [pc : {"idle", "loaded"} \union TelemetryPcs, observed : Times, received : Times,
   health : HealthStatus, target : Targets, status : Statuses, device : Seen]

MonitoringTypeOK ==
  /\ clock \in Times
  /\ target \in Targets
  /\ targetStatus \in Statuses
  /\ device \in Seen
  /\ telemetry \subseteq Times
  /\ serving \in [Receivers -> MonitoringRequests]
  /\ \A w \in Receivers : Doing(w, "loaded") => target \in Configurations

LEMMA TypedConstants ==
  /\ NoTarget \in Targets /\ NoStatus \in Statuses /\ NoRequest \in MonitoringRequests
  /\ 1 \in Times
  /\ Times \subseteq Nat \ {0} /\ Seen \subseteq Nat
<1>1. 1 \in Times /\ Times \subseteq Nat \ {0}
  BY MonitoringAssumption DEF MonitoringAssumption, Times
<1>2. NoTarget \in Targets
  BY DEF Targets
<1>3. NoStatus \in Statuses
  BY DEF NoStatus, Statuses, HealthStatus, Seen, Never
<1>4. Never \in Seen /\ "UNKNOWN" \in HealthStatus
  BY DEF Seen, HealthStatus
<1>5. NoRequest \in MonitoringRequests
  BY <1>1, <1>2, <1>3, <1>4 DEF NoRequest, MonitoringRequests
<1>6. Seen \subseteq Nat
  BY <1>1 DEF Seen, Never
<1>7. QED
  BY <1>1, <1>2, <1>3, <1>5, <1>6

(* What a commit of telemetry leaves in the columns.                       *)
LEMMA CommitTyped ==
  ASSUME NEW r \in MonitoringRequests, device \in Seen, targetStatus \in Statuses
  PROVE  DeviceSeen(r) \in Seen /\ StatusSeen(r) \in Statuses
<1>1. DeviceSeen(r) \in Seen
  BY DEF DeviceSeen, MonitoringRequests, Seen
<1>2. /\ r.status \in Statuses /\ r.health \in HealthStatus
      /\ r.observed \in Seen /\ r.received \in Nat
  BY TypedConstants DEF MonitoringRequests, Seen
<1>3. StatusSeen(r).health \in HealthStatus
  BY <1>2 DEF StatusSeen, Statuses, Column
<1>4. StatusSeen(r).seen \in Seen
  BY <1>2 DEF StatusSeen, Statuses
<1>5. StatusSeen(r).at \in Nat
  BY <1>2 DEF StatusSeen, Statuses, StatusAt
<1>6. QED
  BY <1>1, <1>3, <1>4, <1>5 DEF StatusSeen, Statuses

(* A configuration that mixes the columns of two is one.                   *)
LEMMA ConfiguredTyped ==
  ASSUME target \in Configurations, NEW loaded, NEW change \in Configurations
  PROVE  Configured(loaded, change) \in Configurations
<1>1. DOMAIN target = {"enabled", "interval", "offline"}
  BY DEF Configurations
<1>2. /\ Configured(loaded, change).enabled \in BOOLEAN
      /\ Configured(loaded, change).interval \in Seconds
      /\ Configured(loaded, change).offline \in Seconds
  BY <1>1 DEF Configured, Column, Configurations
<1>3. Configured(loaded, change) = [enabled |-> Configured(loaded, change).enabled,
                                    interval |-> Configured(loaded, change).interval,
                                    offline |-> Configured(loaded, change).offline]
  BY <1>1 DEF Configured
<1>4. QED
  BY <1>2, <1>3 DEF Configurations

LEMMA MonitoringTypeStep == MonitoringTypeOK /\ [MonitoringNext]_monitoringVars => MonitoringTypeOK'
<1> SUFFICES ASSUME MonitoringTypeOK, [MonitoringNext]_monitoringVars PROVE MonitoringTypeOK'
  OBVIOUS
<1> USE DEF MonitoringTypeOK
<1>1. CASE PassTime
  BY <1>1, MonitoringAssumption DEF PassTime, Doing, Times, MonitoringAssumption
<1>2. ASSUME NEW w \in Receivers, ServeMonitoring(w) PROVE MonitoringTypeOK'
  <2>0. ASSUME NEW r \in MonitoringRequests, Set(w, r)
        PROVE  /\ serving' \in [Receivers -> MonitoringRequests]
               /\ \A v \in Receivers : Doing(v, "loaded")' => Doing(v, "loaded") \/ r.pc = "loaded"
    BY <2>0 DEF Set, Doing
  <2>1. ASSUME NEW values \in Configurations, CreateTarget(w, values) PROVE MonitoringTypeOK'
    BY <2>1 DEF CreateTarget, Targets, Doing
  <2>2. CASE LoadTarget(w)
    <3> DEFINE r == [NoRequest EXCEPT !.pc = "loaded", !.target = target]
    <3>1. r \in MonitoringRequests
      BY TypedConstants DEF MonitoringRequests
    <3> HIDE DEF r
    <3>2. target \in Configurations /\ Set(w, r)
      BY <2>2 DEF LoadTarget, Targets, r
    <3>3. QED
      BY <2>0, <2>2, <3>1, <3>2 DEF LoadTarget
  <2>3. ASSUME NEW values \in Configurations, CommitConfiguration(w, values)
        PROVE  MonitoringTypeOK'
    <3>1. target \in Configurations /\ Set(w, NoRequest)
      BY <2>3 DEF CommitConfiguration
    <3>2. target' \in Configurations
      BY <2>3, <3>1, ConfiguredTyped DEF CommitConfiguration
    <3>3. QED
      BY <2>0, <2>3, <3>1, <3>2, TypedConstants DEF CommitConfiguration, Targets
  <2>4. ASSUME NEW t \in Times, NEW health \in HealthStatus, LoadForIngest(w, t, health)
        PROVE  MonitoringTypeOK'
    <3> DEFINE r == [NoRequest EXCEPT !.pc = "target", !.observed = t, !.health = health,
                                 !.status = targetStatus]
    <3>1. r \in MonitoringRequests /\ r.pc = "target"
      BY TypedConstants DEF MonitoringRequests, TelemetryPcs
    <3> HIDE DEF r
    <3>2. Set(w, r)
      BY <2>4 DEF LoadForIngest, r
    <3>3. QED
      BY <2>0, <2>4, <3>1, <3>2 DEF LoadForIngest
  <2>5. ASSUME NEW t \in Times, NEW health \in HealthStatus, LoadForHeartbeat(w, t, health)
        PROVE  MonitoringTypeOK'
    <3> DEFINE r == [NoRequest EXCEPT !.pc = "device", !.observed = t, !.health = health,
                                 !.device = device]
    <3>1. r \in MonitoringRequests /\ r.pc = "device"
      BY TypedConstants DEF MonitoringRequests, TelemetryPcs
    <3> HIDE DEF r
    <3>2. Set(w, r)
      BY <2>5 DEF LoadForHeartbeat, r
    <3>3. QED
      BY <2>0, <2>5, <3>1, <3>2 DEF LoadForHeartbeat
  <2>6. ASSUME NEW received \in Times, LoadDevice(w, received) PROVE MonitoringTypeOK'
    <3> DEFINE r == [serving[w] EXCEPT !.pc = "ready", !.received = received, !.device = device]
    <3>1. r \in MonitoringRequests /\ r.pc = "ready"
      BY DEF MonitoringRequests, TelemetryPcs
    <3> HIDE DEF r
    <3>2. Set(w, r)
      BY <2>6 DEF LoadDevice, r
    <3>3. QED
      BY <2>0, <2>6, <3>1, <3>2 DEF LoadDevice
  <2>7. CASE LoadTargetForHeartbeat(w)
    <3> DEFINE r == IF target.enabled
                    THEN [serving[w] EXCEPT !.pc = "ready", !.received = clock,
                                            !.status = targetStatus]
                    ELSE [serving[w] EXCEPT !.pc = "unmonitored"]
    <3>1. r \in MonitoringRequests /\ r.pc \in {"ready", "unmonitored"}
      BY DEF MonitoringRequests, TelemetryPcs
    <3> HIDE DEF r
    <3>2. Set(w, r)
      BY <2>7 DEF LoadTargetForHeartbeat, r
    <3>3. QED
      BY <2>0, <2>7, <3>1, <3>2 DEF LoadTargetForHeartbeat
  <2>8. CASE CommitTelemetry(w) \/ CommitUnmonitored(w)
    <3>1. /\ Set(w, NoRequest) /\ UNCHANGED <<clock, target>>
          /\ telemetry' \subseteq telemetry \union {serving[w].observed}
          /\ device' = DeviceSeen(serving[w])
          /\ targetStatus' \in {targetStatus, StatusSeen(serving[w])}
      BY <2>8 DEF CommitTelemetry, CommitUnmonitored
    <3>2. serving[w] \in MonitoringRequests /\ serving[w].observed \in Times
      BY DEF MonitoringRequests
    <3>3. QED
      BY <2>0, <3>1, <3>2, CommitTyped, TypedConstants DEF NoRequest
  <2>9. CASE Abandon(w)
    BY <2>0, <2>9, TypedConstants DEF Abandon, NoRequest
  <2>10. QED
    BY <1>2, <2>1, <2>2, <2>3, <2>4, <2>5, <2>6, <2>7, <2>8, <2>9 DEF ServeMonitoring
<1>3. CASE UNCHANGED monitoringVars
  BY <1>3 DEF monitoringVars, Doing
<1>4. QED
  BY <1>1, <1>2, <1>3 DEF MonitoringNext

(* Every reachable state is well typed.                                    *)
THEOREM MonitoringTyping == MonitoringSpec => []MonitoringTypeOK
<1>1. MonitoringInit => MonitoringTypeOK
  BY TypedConstants DEF MonitoringInit, MonitoringTypeOK, Seen, Doing, NoRequest
<1>2. QED
  BY <1>1, MonitoringTypeStep, PTL DEF MonitoringSpec

-----------------------------------------------------------------------------
(* What a request loaded as seen had been seen, and was stored.            *)
SeenInv ==
  /\ SeenIsStored
  /\ \A w \in Receivers : serving[w].device # Never => device # Never

LEMMA SeenStep == MonitoringTypeOK /\ SeenInv /\ [MonitoringNext]_monitoringVars => SeenInv'
<1> SUFFICES ASSUME MonitoringTypeOK, SeenInv, [MonitoringNext]_monitoringVars PROVE SeenInv'
  OBVIOUS
<1>1. CASE PassTime
  BY <1>1 DEF PassTime, SeenInv, SeenIsStored
<1>2. ASSUME NEW w \in Receivers, ServeMonitoring(w) PROVE SeenInv'
  <2>0. ASSUME NEW r, Set(w, r), r.device # Never => device # Never,
               UNCHANGED <<targetStatus, device, telemetry>>
        PROVE  SeenInv'
    BY <2>0 DEF Set, SeenInv, SeenIsStored, MonitoringTypeOK
  <2>1. ASSUME NEW values \in Configurations, CreateTarget(w, values) PROVE SeenInv'
    BY <2>1 DEF CreateTarget, SeenInv, SeenIsStored
  <2>2. CASE LoadTarget(w) \/ Abandon(w)
    BY <2>0, <2>2 DEF LoadTarget, Abandon, NoRequest
  <2>3. ASSUME NEW values \in Configurations, CommitConfiguration(w, values) PROVE SeenInv'
    BY <2>0, <2>3 DEF CommitConfiguration, NoRequest
  <2>4. ASSUME NEW t \in Times, NEW health \in HealthStatus,
               LoadForIngest(w, t, health) \/ LoadForHeartbeat(w, t, health)
        PROVE  SeenInv'
    BY <2>0, <2>4 DEF LoadForIngest, LoadForHeartbeat, NoRequest
  <2>5. ASSUME NEW received \in Times, LoadDevice(w, received) PROVE SeenInv'
    <3>1. serving[w] \in MonitoringRequests
      BY DEF MonitoringTypeOK
    <3>2. QED
      BY <2>0, <2>5, <3>1 DEF LoadDevice, MonitoringRequests
  <2>6. CASE LoadTargetForHeartbeat(w)
    <3>1. serving[w] \in MonitoringRequests /\ (serving[w].device # Never => device # Never)
      BY DEF MonitoringTypeOK, SeenInv
    <3>2. QED
      BY <2>0, <2>6, <3>1 DEF LoadTargetForHeartbeat, MonitoringRequests
  <2>7. CASE CommitTelemetry(w) \/ CommitUnmonitored(w)
    <3>1. /\ serving[w].observed \in Nat \ {0} /\ serving[w].device \in Nat /\ device \in Nat
          /\ serving[w].device # Never => device # Never
      BY TypedConstants DEF MonitoringTypeOK, MonitoringRequests, SeenInv
    <3>2. device' # Never /\ Set(w, NoRequest)
      BY <2>7, <3>1 DEF CommitTelemetry, CommitUnmonitored, DeviceSeen, Newer, Never
    <3>3. \A v \in Receivers : serving'[v].device # Never => device' # Never
      BY <3>2
    <3>4. targetStatus'.seen # Never => targetStatus'.seen \in telemetry'
      BY <2>7 DEF CommitTelemetry, CommitUnmonitored, StatusSeen, SeenInv, SeenIsStored
    <3>5. QED
      BY <3>2, <3>3, <3>4 DEF SeenInv, SeenIsStored
  <2>8. QED
    BY <1>2, <2>1, <2>2, <2>3, <2>4, <2>5, <2>6, <2>7 DEF ServeMonitoring
<1>3. CASE UNCHANGED monitoringVars
  BY <1>3 DEF monitoringVars, SeenInv, SeenIsStored
<1>4. QED
  BY <1>1, <1>2, <1>3 DEF MonitoringNext

(* What a target or its device says it saw was stored.                     *)
THEOREM WhatIsSeenIsStored == MonitoringSpec => []SeenIsStored
<1>1. MonitoringInit => SeenInv
  BY DEF MonitoringInit, SeenInv, SeenIsStored, NoStatus, NoRequest
<1>2. SeenInv => SeenIsStored
  BY DEF SeenInv
<1>3. QED
  BY <1>1, <1>2, SeenStep, MonitoringTyping, PTL DEF MonitoringSpec

-----------------------------------------------------------------------------
(* A step that takes back a timestamp or leaves a change of status without *)
(* a date of its own.                                                      *)
GoesBack ==
  \/ targetStatus'.seen < targetStatus.seen
  \/ device' < device
  \/ targetStatus'.at < targetStatus.at
  \/ targetStatus'.health # targetStatus.health /\ targetStatus'.at = targetStatus.at

Overtaken(w) ==
  \/ serving[w].device # device
  \/ Doing(w, "ready") /\ serving[w].status # targetStatus

LEMMA CommitInOrder ==
  ASSUME MonitoringTypeOK, MonitoringTypeOK', NEW w \in Receivers, ~Overtaken(w),
         CommitTelemetry(w) \/ CommitUnmonitored(w)
  PROVE  ~GoesBack
<1> DEFINE r == serving[w]
<1>1. /\ r.observed \in Nat /\ r.received \in Nat \ {0} /\ r.health \in HealthStatus
      /\ device \in Nat /\ r.device = device
      /\ targetStatus.seen \in Nat /\ targetStatus.at \in Nat
      /\ device' \in Nat /\ targetStatus'.seen \in Nat /\ targetStatus'.at \in Nat
  BY TypedConstants
  DEF MonitoringTypeOK, MonitoringRequests, Statuses, Overtaken
<1> HIDE DEF r
<1>2. device' >= device
  <2>1. device' = IF r.observed > r.device THEN r.observed ELSE device
    BY DEF CommitTelemetry, CommitUnmonitored, DeviceSeen, Newer, r
  <2>2. QED
    BY <1>1, <2>1
<1>3. CASE CommitUnmonitored(w)
  BY <1>1, <1>2, <1>3 DEF CommitUnmonitored, GoesBack
<1>4. CASE CommitTelemetry(w)
  <2>1. r.status = targetStatus /\ targetStatus' = StatusSeen(r)
    BY <1>4 DEF CommitTelemetry, Overtaken, r
  <2>2. targetStatus'.seen >= targetStatus.seen
    BY <1>1, <2>1 DEF StatusSeen, Newer
  <2>3. CASE r.health = targetStatus.health
    BY <1>1, <1>2, <2>1, <2>2, <2>3 DEF StatusSeen, Column, GoesBack
  <2>4. CASE r.health # targetStatus.health
    <3>1. targetStatus'.at > targetStatus.at
      BY <1>1, <2>1, <2>4 DEF StatusSeen, StatusAt, Never
    <3>2. QED
      BY <1>1, <1>2, <2>2, <3>1 DEF GoesBack
  <2>5. QED
    BY <2>3, <2>4
<1>5. QED
  BY <1>3, <1>4

LEMMA OthersKeepTimes ==
  ASSUME MonitoringTypeOK, [MonitoringNext]_monitoringVars, GoesBack
  PROVE  \E w \in Receivers : CommitTelemetry(w) \/ CommitUnmonitored(w)
<1>1. targetStatus.seen \in Nat /\ targetStatus.at \in Nat /\ device \in Nat
  BY TypedConstants DEF MonitoringTypeOK, Statuses
<1>2. ~UNCHANGED <<targetStatus, device>>
  BY <1>1 DEF GoesBack
<1>3. QED
  BY <1>2
  DEF MonitoringNext, monitoringVars, PassTime, ServeMonitoring, CreateTarget, LoadTarget,
      CommitConfiguration, LoadForIngest, LoadDevice, LoadForHeartbeat,
      LoadTargetForHeartbeat, Abandon

(* Only a request whose copies were overtaken takes a timestamp back.      *)
THEOREM BackwardsNeedsOverlap == MonitoringSpec => TimestampsNeedOverlap
<1> DEFINE Back ==
      GoesBack => \E w \in Receivers :
                    serving[w] # NoRequest /\ serving'[w] = NoRequest /\ Overtaken(w)
<1>1. MonitoringTypeOK /\ [MonitoringNext]_monitoringVars => Back
  <2> SUFFICES ASSUME MonitoringTypeOK, [MonitoringNext]_monitoringVars, GoesBack
               PROVE  \E w \in Receivers :
                        serving[w] # NoRequest /\ serving'[w] = NoRequest /\ Overtaken(w)
    OBVIOUS
  <2>1. PICK w \in Receivers : CommitTelemetry(w) \/ CommitUnmonitored(w)
    BY OthersKeepTimes
  <2>2. Overtaken(w)
    BY <2>1, CommitInOrder, MonitoringTypeStep
  <2>3. serving[w] # NoRequest /\ serving'[w] = NoRequest
    BY <2>1 DEF CommitTelemetry, CommitUnmonitored, Doing, Set, NoRequest, MonitoringTypeOK
  <2>4. QED
    BY <2>2, <2>3
<1>2. MonitoringSpec => [][Back]_monitoringVars
  BY <1>1, MonitoringTyping, PTL DEF MonitoringSpec
<1>3. QED
  BY <1>2 DEF TimestampsNeedOverlap, GoesBack, Overtaken

(* While requests do not overlap, what a request has loaded stays true     *)
(* until it commits...                                                     *)
ServedInTurn == \A w, v \in Receivers : serving[w] # NoRequest /\ serving[v] # NoRequest => w = v

(* One thread alone cannot help but serve in turn.                         *)
LEMMA OneThreadInTurn == ASSUME NEW t, Receivers = {t} PROVE MonitoringSpec => []ServedInTurn
<1>1. ServedInTurn
  BY DEF ServedInTurn
<1>2. QED
  BY <1>1, PTL

MonitoringFresh ==
  \A w \in Receivers :
    /\ serving[w].pc \in {"device", "ready", "unmonitored"} => serving[w].device = device
    /\ serving[w].pc \in {"target", "ready"} => serving[w].status = targetStatus

LEMMA MonitoringFreshStep ==
  MonitoringTypeOK /\ ServedInTurn /\ MonitoringFresh /\ [MonitoringNext]_monitoringVars
    => MonitoringFresh'
<1> SUFFICES ASSUME MonitoringTypeOK, ServedInTurn, MonitoringFresh,
                    [MonitoringNext]_monitoringVars
             PROVE  MonitoringFresh'
  OBVIOUS
<1>1. CASE PassTime
  BY <1>1 DEF PassTime, MonitoringFresh
<1>2. ASSUME NEW w \in Receivers, ServeMonitoring(w) PROVE MonitoringFresh'
  <2>0. ASSUME NEW r, Set(w, r), UNCHANGED <<targetStatus, device>>,
               r.pc \in {"device", "ready", "unmonitored"} => r.device = device,
               r.pc \in {"target", "ready"} => r.status = targetStatus
        PROVE  MonitoringFresh'
    BY <2>0 DEF Set, MonitoringFresh, MonitoringTypeOK
  <2>1. ASSUME NEW values \in Configurations, CreateTarget(w, values) PROVE MonitoringFresh'
    BY <2>1 DEF CreateTarget, MonitoringFresh
  <2>2. CASE LoadTarget(w) \/ Abandon(w)
    BY <2>0, <2>2 DEF LoadTarget, Abandon, NoRequest
  <2>3. ASSUME NEW values \in Configurations, CommitConfiguration(w, values)
        PROVE  MonitoringFresh'
    BY <2>0, <2>3 DEF CommitConfiguration, NoRequest
  <2>4. ASSUME NEW t \in Times, NEW health \in HealthStatus,
               LoadForIngest(w, t, health) \/ LoadForHeartbeat(w, t, health)
        PROVE  MonitoringFresh'
    BY <2>0, <2>4 DEF LoadForIngest, LoadForHeartbeat, NoRequest
  <2>5. ASSUME NEW received \in Times, LoadDevice(w, received) PROVE MonitoringFresh'
    <3>1. serving[w] \in MonitoringRequests /\ serving[w].status = targetStatus
      BY <2>5 DEF MonitoringTypeOK, MonitoringFresh, LoadDevice, Doing
    <3>2. QED
      BY <2>0, <2>5, <3>1 DEF LoadDevice, MonitoringRequests
  <2>6. CASE LoadTargetForHeartbeat(w)
    <3>1. serving[w] \in MonitoringRequests /\ serving[w].device = device
      BY <2>6 DEF MonitoringTypeOK, MonitoringFresh, LoadTargetForHeartbeat, Doing
    <3>2. QED
      BY <2>0, <2>6, <3>1 DEF LoadTargetForHeartbeat, MonitoringRequests
  <2>7. CASE CommitTelemetry(w) \/ CommitUnmonitored(w)
    <3>1. Set(w, NoRequest) /\ serving[w] # NoRequest
      BY <2>7 DEF CommitTelemetry, CommitUnmonitored, Doing, NoRequest
    <3>2. \A v \in Receivers : serving'[v] = NoRequest
      BY <3>1 DEF Set, ServedInTurn, MonitoringTypeOK
    <3>3. QED
      BY <3>2 DEF MonitoringFresh, NoRequest
  <2>8. QED
    BY <1>2, <2>1, <2>2, <2>3, <2>4, <2>5, <2>6, <2>7 DEF ServeMonitoring
<1>3. CASE UNCHANGED monitoringVars
  BY <1>3 DEF monitoringVars, MonitoringFresh
<1>4. QED
  BY <1>1, <1>2, <1>3 DEF MonitoringNext

(* ... so that no telemetry or heartbeat takes a timestamp back.           *)
THEOREM TimesGrowInTurn ==
  MonitoringSpec /\ []ServedInTurn => [][~GoesBack]_monitoringVars
<1>1. MonitoringInit => MonitoringFresh
  <2>1. NoRequest.pc = "idle"
    BY DEF NoRequest
  <2>2. MonitoringInit => \A w \in Receivers : serving[w] = NoRequest
    BY DEF MonitoringInit
  <2>3. QED
    BY <2>1, <2>2 DEF MonitoringFresh
<1>2. MonitoringTypeOK /\ MonitoringFresh /\ [MonitoringNext]_monitoringVars => ~GoesBack
  <2> SUFFICES ASSUME MonitoringTypeOK, MonitoringFresh, [MonitoringNext]_monitoringVars,
                      GoesBack
               PROVE  FALSE
    OBVIOUS
  <2>1. PICK w \in Receivers : CommitTelemetry(w) \/ CommitUnmonitored(w)
    BY OthersKeepTimes
  <2>2. ~Overtaken(w)
    BY <2>1 DEF CommitTelemetry, CommitUnmonitored, MonitoringFresh, Overtaken, Doing
  <2>3. QED
    BY <2>1, <2>2, CommitInOrder, MonitoringTypeStep
<1>3. QED
  BY <1>1, <1>2, MonitoringFreshStep, MonitoringTyping, PTL DEF MonitoringSpec

-----------------------------------------------------------------------------
(* The runtime                                                             *)

Attempts == [beat : Beats, attempt : 1 .. MaxAttempts]

RuntimeTypeOK ==
  /\ state \in {"stopped", "starting", "running", "stopping", "error"}
  /\ stopEvent \in BOOLEAN
  /\ loop \in {"out", "starting", "check", "tick", "sending", "cycled", "finally"}
  /\ stop \in [Threads -> {"no", "stopping", "set"}]
  /\ now \in Beats
  /\ beat \in Beats \union {NoBeat}
  /\ attempt \in 0 .. MaxAttempts
  /\ answer \in {"none", "awaited", "sent", "refused"}
  /\ inflight \subseteq Attempts
  /\ stored \in [Beats -> Nat]
  /\ late \in Nat
  /\ loop = "sending" => beat \in Beats

LEMMA RuntimeTypeStep == RuntimeTypeOK /\ [RuntimeNext]_runtimeVars => RuntimeTypeOK'
<1> SUFFICES ASSUME RuntimeTypeOK, [RuntimeNext]_runtimeVars PROVE RuntimeTypeOK'
  OBVIOUS
<1> USE RuntimeAssumption DEF RuntimeTypeOK, RuntimeAssumption, Attempts, Beats, Threads,
        Goto, clientVars, threadVars
<1>1. CASE RunStep
  <2>1. CASE EnterRun \/ SettingsValid \/ SettingsInvalid \/ CheckLoop
    BY <1>1, <2>1 DEF RunStep, EnterRun, SettingsValid, SettingsInvalid, CheckLoop
  <2>2. CASE Tick
    BY <1>1, <2>2 DEF RunStep, Tick
  <2>3. ASSUME NEW last \in BOOLEAN, EndCycle(last) PROVE RuntimeTypeOK'
    BY <1>1, <2>3 DEF RunStep, EndCycle
  <2>4. CASE LeaveRun \/ SetStopEvent("loop") \/ StopReturns("loop")
    BY <1>1, <2>4 DEF RunStep, LeaveRun, SetStopEvent, StopReturns
  <2>5. ASSUME NEW arrives \in BOOLEAN, Send(arrives) PROVE RuntimeTypeOK'
    <3>1. attempt' \in 1 .. MaxAttempts /\ beat \in Beats
      BY <2>5 DEF Send, MayRetry
    <3>2. [beat |-> beat, attempt |-> attempt'] \in Attempts
      BY <3>1
    <3>3. QED
      BY <1>1, <2>5, <3>1, <3>2 DEF RunStep, Send
  <2>6. CASE TimeOut \/ Receive \/ BeatFails
    BY <1>1, <2>6 DEF RunStep, TimeOut, Receive, BeatFails
  <2>7. QED
    BY <1>1, <2>1, <2>2, <2>3, <2>4, <2>5, <2>6 DEF RunStep
<1>2. CASE OtherStep
  BY <1>2 DEF OtherStep, StopCalled, SetStopEvent, StopReturns
<1>3. CASE TimePasses
  BY <1>3 DEF TimePasses
<1>4. ASSUME NEW a \in inflight, ServeAttempt(a) \/ RefuseAttempt(a) PROVE RuntimeTypeOK'
  <2>1. Answer(a, "sent") \in {"none", "awaited", "sent", "refused"}
        /\ Answer(a, "refused") \in {"none", "awaited", "sent", "refused"}
    BY DEF Answer
  <2>2. a.beat \in Beats /\ stored[a.beat] + 1 \in Nat
    OBVIOUS
  <2>3. [stored EXCEPT ![a.beat] = @ + 1] \in [Beats -> Nat]
    BY <2>2
  <2>4. CASE ServeAttempt(a)
    BY <2>1, <2>3, <2>4 DEF ServeAttempt
  <2>5. CASE RefuseAttempt(a)
    BY <2>1, <2>5 DEF RefuseAttempt
  <2>6. QED
    BY <1>4, <2>4, <2>5
<1>5. CASE UNCHANGED runtimeVars
  BY <1>5 DEF runtimeVars
<1>6. QED
  BY <1>1, <1>2, <1>3, <1>4, <1>5 DEF RuntimeNext

(* Every reachable state is well typed.                                    *)
THEOREM RuntimeTyping == RuntimeSpec => []RuntimeTypeOK
<1>1. RuntimeInit => RuntimeTypeOK
  <2>1. 0 \in 0 .. MaxAttempts /\ 1 \in Beats
    BY RuntimeAssumption DEF RuntimeAssumption, Beats
  <2>2. [th \in Threads |-> "no"] \in [Threads -> {"no", "stopping", "set"}]
    OBVIOUS
  <2>3. [t \in Beats |-> 0] \in [Beats -> Nat]
    OBVIOUS
  <2>4. QED
    BY <2>1, <2>2, <2>3 DEF RuntimeInit, RuntimeTypeOK
<1>2. QED
  BY <1>1, RuntimeTypeStep, PTL DEF RuntimeSpec

-----------------------------------------------------------------------------
(* The loop's thread and the stopping thread.  While the state says that   *)
(* the runtime is stopping, a thread is in stop(); a loop that is in       *)
(* stop() has ended; and a heartbeat begun since the event was set was     *)
(* the last, because the loop decides on the next only before it.          *)
StopInv ==
  /\ late = 0 \/ (late = 1 /\ stopEvent /\ loop # "tick")
  /\ stop["loop"] # "no" => loop = "finally"
  /\ state = "starting" => loop = "starting"
  /\ state = "stopping" => \E th \in Threads : stop[th] # "no"
  /\ loop = "out" => state \in {"stopped", "error"} \/ stop["other"] # "no"

LEMMA StopStep == RuntimeTypeOK /\ StopInv /\ [RuntimeNext]_runtimeVars => StopInv'
<1> SUFFICES ASSUME RuntimeTypeOK, StopInv, [RuntimeNext]_runtimeVars PROVE StopInv'
  OBVIOUS
<1> USE DEF RuntimeTypeOK, StopInv, Threads, Goto, clientVars, threadVars
<1>1. CASE RunStep
  <2>1. CASE EnterRun \/ SettingsValid \/ SettingsInvalid \/ CheckLoop
    BY <2>1 DEF EnterRun, SettingsValid, SettingsInvalid, CheckLoop
  <2>2. CASE Tick
    BY <2>2 DEF Tick
  <2>3. ASSUME NEW last \in BOOLEAN, EndCycle(last) PROVE StopInv'
    BY <2>3 DEF EndCycle
  <2>4. CASE LeaveRun
    BY <2>4 DEF LeaveRun
  <2>5. CASE SetStopEvent("loop") \/ StopReturns("loop")
    BY <2>5 DEF SetStopEvent, StopReturns
  <2>6. ASSUME NEW arrives \in BOOLEAN, Send(arrives) PROVE StopInv'
    BY <2>6 DEF Send
  <2>7. CASE TimeOut \/ Receive \/ BeatFails
    BY <2>7 DEF TimeOut, Receive, BeatFails
  <2>8. QED
    BY <1>1, <2>1, <2>2, <2>3, <2>4, <2>5, <2>6, <2>7 DEF RunStep
<1>2. CASE OtherStep
  BY <1>2 DEF OtherStep, StopCalled, SetStopEvent, StopReturns
<1>3. CASE TimePasses
  BY <1>3 DEF TimePasses
<1>4. ASSUME NEW a \in inflight, ServeAttempt(a) \/ RefuseAttempt(a) PROVE StopInv'
  BY <1>4 DEF ServeAttempt, RefuseAttempt
<1>5. CASE UNCHANGED runtimeVars
  BY <1>5 DEF runtimeVars
<1>6. QED
  BY <1>1, <1>2, <1>3, <1>4, <1>5 DEF RuntimeNext

LEMMA StopInvariant == RuntimeSpec => []StopInv
<1>1. RuntimeInit => StopInv
  BY DEF RuntimeInit, StopInv, Threads
<1>2. QED
  BY <1>1, StopStep, RuntimeTyping, PTL DEF RuntimeSpec

(* A stopped runtime sends at most the heartbeat it had decided on.        *)
THEOREM StopSilences == RuntimeSpec => []StoppedIsSilent
<1>1. StopInv => StoppedIsSilent
  BY DEF StopInv, StoppedIsSilent
<1>2. QED
  BY <1>1, StopInvariant, PTL

(* No order of the two threads' writes leaves a runtime running alone.     *)
THEOREM RunsAreStopped == RuntimeSpec => []NotLeftRunning
<1>1. StopInv => NotLeftRunning
  BY DEF StopInv, NotLeftRunning
<1>2. QED
  BY <1>1, StopInvariant, PTL

-----------------------------------------------------------------------------
(* The attempts at a heartbeat that the server has served or may serve yet *)
(* are at most the attempts made.  It holds because a heartbeat's time is  *)
(* later than that of the one before, which is the clock's part.           *)
ClockInv ==
  /\ beat <= now
  /\ loop \in {"starting", "tick"} => beat < now
  /\ loop = "check" => beat < now \/ stopEvent

Pending(t) == {a \in inflight : a.beat = t}
Made(t) == IF t = beat THEN attempt ELSE MaxAttempts

AttemptInv ==
  /\ IsFiniteSet(inflight)
  /\ \A t \in Beats : stored[t] + Cardinality(Pending(t)) <= Made(t)
  /\ \A t \in Beats : t > beat => stored[t] = 0 /\ Pending(t) = {}
  /\ answer # "none" => loop = "sending"
  /\ answer = "sent" => stored[beat] > 0

LEMMA ClockStep ==
  RuntimeTypeOK /\ ClockInv /\ [RuntimeNext]_runtimeVars => ClockInv'
<1> SUFFICES ASSUME RuntimeTypeOK, ClockInv, [RuntimeNext]_runtimeVars PROVE ClockInv'
  OBVIOUS
<1> USE RuntimeAssumption DEF RuntimeAssumption, RuntimeTypeOK, ClockInv, Beats, NoBeat, Threads, Goto,
        clientVars, threadVars
<1>1. CASE RunStep
  <2>1. CASE EnterRun \/ SettingsValid \/ SettingsInvalid \/ CheckLoop
    BY <1>1, <2>1 DEF RunStep, EnterRun, SettingsValid, SettingsInvalid, CheckLoop
  <2>2. CASE Tick
    BY <1>1, <2>2 DEF RunStep, Tick
  <2>3. ASSUME NEW last \in BOOLEAN, EndCycle(last) PROVE ClockInv'
    BY <1>1, <2>3 DEF RunStep, EndCycle
  <2>4. CASE LeaveRun \/ SetStopEvent("loop") \/ StopReturns("loop")
    BY <1>1, <2>4 DEF RunStep, LeaveRun, SetStopEvent, StopReturns
  <2>5. ASSUME NEW arrives \in BOOLEAN, Send(arrives) PROVE ClockInv'
    BY <1>1, <2>5 DEF RunStep, Send
  <2>6. CASE TimeOut \/ Receive \/ BeatFails
    BY <1>1, <2>6 DEF RunStep, TimeOut, Receive, BeatFails
  <2>7. QED
    BY <1>1, <2>1, <2>2, <2>3, <2>4, <2>5, <2>6 DEF RunStep
<1>2. CASE OtherStep
  BY <1>2 DEF OtherStep, StopCalled, SetStopEvent, StopReturns
<1>3. CASE TimePasses
  BY <1>3 DEF TimePasses
<1>4. ASSUME NEW a \in inflight, ServeAttempt(a) \/ RefuseAttempt(a) PROVE ClockInv'
  BY <1>4 DEF ServeAttempt, RefuseAttempt
<1>5. CASE UNCHANGED runtimeVars
  BY <1>5 DEF runtimeVars
<1>6. QED
  BY <1>1, <1>2, <1>3, <1>4, <1>5 DEF RuntimeNext

LEMMA PendingIsFinite ==
  ASSUME AttemptInv, NEW t
  PROVE  IsFiniteSet(Pending(t)) /\ Cardinality(Pending(t)) \in Nat
<1>1. Pending(t) \in SUBSET inflight
  BY DEF Pending
<1>2. IsFiniteSet(Pending(t))
  BY <1>1, FS_Subset DEF AttemptInv
<1>3. QED
  BY <1>2, FS_CardinalityType

(* A step that begins, sends, serves and refuses no attempt.               *)
LEMMA QuietStep ==
  ASSUME AttemptInv, UNCHANGED <<beat, attempt, inflight, stored>>,
         answer' # "none" => loop' = "sending", answer' = "sent" => answer = "sent"
  PROVE  AttemptInv'
<1>1. \A t : Pending(t)' = Pending(t) /\ Made(t)' = Made(t)
  BY DEF Pending, Made
<1>2. QED
  BY <1>1 DEF AttemptInv

LEMMA AttemptStep ==
  RuntimeTypeOK /\ ClockInv /\ AttemptInv /\ [RuntimeNext]_runtimeVars => AttemptInv'
<1> SUFFICES ASSUME RuntimeTypeOK, ClockInv, AttemptInv, [RuntimeNext]_runtimeVars
             PROVE  AttemptInv'
  OBVIOUS
<1>0. \A t \in Beats : stored[t] \in Nat /\ IsFiniteSet(Pending(t))
                       /\ Cardinality(Pending(t)) \in Nat
  BY PendingIsFinite DEF RuntimeTypeOK
<1>1. CASE RunStep
  <2> USE DEF AttemptInv, Goto, clientVars, threadVars
  <2>1. CASE EnterRun \/ SettingsValid \/ SettingsInvalid \/ CheckLoop
    BY <1>1, <2>1, QuietStep DEF RunStep, EnterRun, SettingsValid, SettingsInvalid, CheckLoop
  <2>2. CASE Tick /\ state = "running"
    <3>1. /\ beat' = now /\ attempt' = 0 /\ answer' = "none"
          /\ UNCHANGED <<inflight, stored>>
      BY <1>1, <2>2 DEF RunStep, Tick
    <3>2. beat < now /\ now \in Beats
      BY <2>2 DEF Tick, ClockInv, RuntimeTypeOK
    <3>3. \A t \in Beats : Pending(t)' = Pending(t)
      BY <3>1 DEF Pending
    <3>4. ASSUME NEW t \in Beats PROVE stored'[t] + Cardinality(Pending(t)') <= Made(t)'
      <4>1. CASE t = now
        <5>1. stored[t] = 0 /\ Pending(t) = {}
          BY <3>2, <4>1 DEF RuntimeTypeOK, Beats, NoBeat
        <5>2. QED
          BY <3>1, <3>3, <4>1, <5>1, FS_EmptySet DEF Made
      <4>2. CASE t # now
        <5>1. Made(t) <= MaxAttempts /\ Made(t) \in Nat
          BY RuntimeAssumption DEF RuntimeAssumption, RuntimeTypeOK, Made
        <5>2. Made(t)' = MaxAttempts
          BY <3>1, <4>2 DEF Made
        <5>3. stored[t] + Cardinality(Pending(t)) <= Made(t)
          OBVIOUS
        <5>4. QED
          BY <1>0, <3>1, <3>3, <5>1, <5>2, <5>3, RuntimeAssumption DEF RuntimeAssumption
      <4>3. QED
        BY <4>1, <4>2
    <3>5. \A t \in Beats : t > beat' => stored'[t] = 0 /\ Pending(t)' = {}
      BY <3>1, <3>2, <3>3, RuntimeAssumption
      DEF RuntimeTypeOK, Beats, NoBeat, RuntimeAssumption
    <3>6. QED
      BY <3>1, <3>4, <3>5
  <2>3. CASE Tick /\ state # "running"
    BY <1>1, <2>3, QuietStep DEF RunStep, Tick
  <2>4. ASSUME NEW last \in BOOLEAN, EndCycle(last) PROVE AttemptInv'
    BY <1>1, <2>4, QuietStep DEF RunStep, EndCycle
  <2>5. CASE LeaveRun
    BY <1>1, <2>5, QuietStep DEF RunStep, LeaveRun
  <2>6. CASE SetStopEvent("loop") \/ StopReturns("loop")
    BY <1>1, <2>6, QuietStep DEF RunStep, SetStopEvent, StopReturns
  <2>7. ASSUME NEW arrives \in BOOLEAN, Send(arrives) PROVE AttemptInv'
    <3> DEFINE new == [beat |-> beat, attempt |-> attempt + 1]
    <3>1. /\ inflight' = inflight \/ inflight' = inflight \union {new}
          /\ attempt' = attempt + 1 /\ answer' = "awaited"
          /\ loop = "sending" /\ loop' = "sending" /\ UNCHANGED <<beat, stored>>
      BY <1>1, <2>7 DEF RunStep, Send
    <3>2. beat \in Beats /\ attempt \in Nat
      BY <3>1, RuntimeAssumption DEF RuntimeTypeOK, RuntimeAssumption
    <3>3. new.beat = beat
      OBVIOUS
    <3> HIDE DEF new
    <3>4. IsFiniteSet(inflight')
      BY <3>1, FS_AddElement
    <3>5. ASSUME NEW t \in Beats, t # beat
          PROVE  Pending(t)' = Pending(t) /\ Made(t)' = Made(t)
      BY <3>1, <3>3, <3>5 DEF Pending, Made
    <3>6. Pending(beat)' = Pending(beat) \/ Pending(beat)' = Pending(beat) \union {new}
      BY <3>1, <3>3 DEF Pending
    <3>7. Cardinality(Pending(beat)') <= Cardinality(Pending(beat)) + 1
          /\ Cardinality(Pending(beat)') \in Nat
      <4> DEFINE more == Pending(beat) \union {new}
      <4>1. Cardinality(more) \in {Cardinality(Pending(beat)), Cardinality(Pending(beat)) + 1}
        BY <1>0, <3>2, FS_AddElement
      <4> HIDE DEF more
      <4>2. Pending(beat)' \in {Pending(beat), more}
        BY <3>6 DEF more
      <4>3. QED
        BY <1>0, <3>2, <4>1, <4>2
    <3>8. stored[beat] + Cardinality(Pending(beat)) <= attempt
      BY <3>2 DEF Made
    <3>9. stored'[beat] + Cardinality(Pending(beat)') <= Made(beat)'
      BY <1>0, <3>1, <3>2, <3>7, <3>8 DEF Made
    <3>10. \A t \in Beats : stored'[t] + Cardinality(Pending(t)') <= Made(t)'
      BY <3>1, <3>5, <3>9
    <3>11. \A t \in Beats : t > beat' => stored'[t] = 0 /\ Pending(t)' = {}
      BY <3>1, <3>2, <3>5 DEF Beats
    <3>12. QED
      BY <3>1, <3>4, <3>10, <3>11
  <2>8. CASE TimeOut \/ Receive \/ BeatFails
    BY <1>1, <2>8, QuietStep DEF RunStep, TimeOut, Receive, BeatFails
  <2>9. QED
    BY <1>1, <2>1, <2>2, <2>3, <2>4, <2>5, <2>6, <2>7, <2>8 DEF RunStep
<1>2. CASE OtherStep
  BY <1>2, QuietStep
  DEF OtherStep, StopCalled, SetStopEvent, StopReturns, clientVars, AttemptInv
<1>3. CASE TimePasses
  BY <1>3, QuietStep DEF TimePasses, clientVars, threadVars, AttemptInv
<1>4. ASSUME NEW a \in inflight, ServeAttempt(a) \/ RefuseAttempt(a) PROVE AttemptInv'
  <2>1. a.beat \in Beats
    BY DEF RuntimeTypeOK, Attempts
  <2>2. /\ inflight' = inflight \ {a} /\ UNCHANGED <<beat, attempt, loop>>
        /\ answer' \in {answer, "sent", "refused"}
        /\ answer' # "none" => answer # "none"
    BY <1>4 DEF ServeAttempt, RefuseAttempt, Answer, threadVars
  <2>3. /\ \A t \in Beats : t # a.beat => stored'[t] = stored[t]
        /\ stored'[a.beat] \in {stored[a.beat], stored[a.beat] + 1}
    BY <1>4, <2>1 DEF ServeAttempt, RefuseAttempt, RuntimeTypeOK
  <2>4. IsFiniteSet(inflight')
    BY <2>2, FS_RemoveElement DEF AttemptInv
  <2>5. \A t \in Beats : t # a.beat => Pending(t)' = Pending(t)
    BY <2>2 DEF Pending
  <2>6. a \in Pending(a.beat) /\ Pending(a.beat)' = Pending(a.beat) \ {a}
    BY <2>2 DEF Pending
  <2>7. Cardinality(Pending(a.beat)') = Cardinality(Pending(a.beat)) - 1
    BY <1>0, <2>1, <2>6, FS_RemoveElement
  <2>8. \A t \in Beats : Made(t)' = Made(t) /\ Made(t) \in Nat
    BY <2>2, RuntimeAssumption DEF Made, RuntimeTypeOK, RuntimeAssumption
  <2>9. \A t \in Beats : stored'[t] + Cardinality(Pending(t)') <= Made(t)'
    <3>1. stored'[a.beat] + Cardinality(Pending(a.beat)') <= Made(a.beat)'
      <4>1. stored[a.beat] + Cardinality(Pending(a.beat)) <= Made(a.beat)
        BY <2>1 DEF AttemptInv
      <4>2. QED
        BY <1>0, <2>1, <2>3, <2>7, <2>8, <4>1
    <3>2. QED
      BY <2>3, <2>5, <2>8, <3>1 DEF AttemptInv
  <2>10. ~(a.beat > beat)
    BY <2>1, <2>6 DEF AttemptInv
  <2>11. \A t \in Beats : t > beat' => stored'[t] = 0 /\ Pending(t)' = {}
    BY <2>2, <2>3, <2>5, <2>10 DEF AttemptInv
  <2>12. answer' = "sent" => stored'[beat'] > 0
    <3>1. ASSUME answer' = "sent" PROVE stored'[beat] > 0
      <4>1. beat \in Beats
        BY <2>2, <3>1 DEF AttemptInv, RuntimeTypeOK
      <4>2. CASE answer = "sent"
        BY <1>0, <2>1, <2>3, <4>1, <4>2 DEF AttemptInv
      <4>3. CASE answer # "sent"
        <5>1. ServeAttempt(a) /\ a.beat = beat
          BY <1>4, <3>1, <4>3 DEF ServeAttempt, RefuseAttempt, Answer
        <5>2. stored'[beat] = stored[beat] + 1
          BY <4>1, <5>1 DEF ServeAttempt, RuntimeTypeOK
        <5>3. QED
          BY <1>0, <4>1, <5>2
      <4>4. QED
        BY <4>2, <4>3
    <3>2. QED
      BY <2>2, <3>1
  <2>13. QED
    BY <2>2, <2>4, <2>9, <2>11, <2>12 DEF AttemptInv
<1>5. CASE UNCHANGED runtimeVars
  BY <1>5, QuietStep DEF runtimeVars, clientVars, threadVars, AttemptInv
<1>6. QED
  BY <1>1, <1>2, <1>3, <1>4, <1>5 DEF RuntimeNext

LEMMA AttemptInvariant == RuntimeSpec => []AttemptInv
<1>1. RuntimeInit => ClockInv /\ AttemptInv
  <2>1. ASSUME RuntimeInit PROVE \A t \in Beats : stored[t] = 0 /\ Pending(t) = {}
    BY <2>1 DEF RuntimeInit, Pending
  <2>2. ASSUME RuntimeInit PROVE AttemptInv
    <3>1. \A t \in Beats : Made(t) \in Nat
      BY <2>2, RuntimeAssumption DEF RuntimeInit, Made, RuntimeAssumption
    <3>2. QED
      <4>1. \A t \in Beats : stored[t] + Cardinality(Pending(t)) <= Made(t)
        <5>1. Cardinality({}) = 0
          BY FS_EmptySet
        <5>2. QED
          BY <2>1, <2>2, <3>1, <5>1
      <4>2. IsFiniteSet(inflight)
        BY <2>2, FS_EmptySet DEF RuntimeInit
      <4>3. QED
        BY <2>1, <2>2, <4>1, <4>2 DEF RuntimeInit, AttemptInv
  <2>3. RuntimeInit => ClockInv
    BY DEF RuntimeInit, ClockInv, NoBeat
  <2>4. QED
    BY <2>2, <2>3
<1>2. QED
  BY <1>1, RuntimeTyping, ClockStep, AttemptStep, PTL DEF RuntimeSpec

(* A heartbeat is stored at most as often as it may be attempted.          *)
THEOREM BeatsBounded == RuntimeSpec => []BeatsAreBounded
<1>1. RuntimeTypeOK /\ AttemptInv => BeatsAreBounded
  <2> SUFFICES ASSUME RuntimeTypeOK, AttemptInv PROVE BeatsAreBounded
    OBVIOUS
  <2>1. ASSUME NEW t \in Beats PROVE stored[t] <= MaxAttempts
    <3>1. stored[t] \in Nat /\ Cardinality(Pending(t)) \in Nat
      BY PendingIsFinite DEF RuntimeTypeOK
    <3>2. stored[t] + Cardinality(Pending(t)) <= Made(t)
      BY DEF AttemptInv
    <3>3. Made(t) \in Nat /\ Made(t) <= MaxAttempts
      BY RuntimeAssumption DEF Made, RuntimeTypeOK, RuntimeAssumption
    <3>4. QED
      BY <3>1, <3>2, <3>3, RuntimeAssumption DEF RuntimeAssumption
  <2>2. QED
    BY <2>1 DEF BeatsAreBounded, AttemptInv
<1>2. QED
  BY <1>1, RuntimeTyping, AttemptInvariant, PTL

-----------------------------------------------------------------------------
(* The end of a stopped run                                                *)

(* The steps that a run can still take once the stop event is set.         *)
LoopSteps ==
  [starting |-> 6, check |-> 5, cycled |-> 6, tick |-> 8 + 2 * MaxAttempts]

FinallySteps ==
  CASE stop["loop"] = "stopping" -> 3
    [] stop["loop"] = "set" -> 2
    [] OTHER -> IF state = "running" THEN 4 ELSE 1

SendingSteps == 7 + 2 * (MaxAttempts - attempt) + (IF answer = "none" THEN 0 ELSE 1)

StepsLeft ==
  CASE loop = "out" -> 0
    [] loop = "finally" -> FinallySteps
    [] loop = "sending" -> SendingSteps
    [] OTHER -> LoopSteps[loop]

(* Each step of a stopped run brings it nearer to its end, and the steps   *)
(* of the others do not take it back.                                      *)
WindsDown ==
  stopEvent /\ loop # "out" =>
    /\ StepsLeft' <= StepsLeft
    /\ RunStep => StepsLeft' < StepsLeft

(* However many attempts are allowed, and whatever the server, the network *)
(* and the other thread do meanwhile, a stopped run only gets nearer to    *)
(* its end.                                                                *)
THEOREM StoppedRunsWindDown == RuntimeSpec => [](StepsLeft \in Nat) /\ [][WindsDown]_runtimeVars
<1> USE RuntimeAssumption DEF RuntimeAssumption, Threads
<1>1. RuntimeTypeOK => StepsLeft \in Nat
  BY DEF RuntimeTypeOK, StepsLeft, FinallySteps, SendingSteps, LoopSteps
<1>2. ASSUME RuntimeTypeOK, RuntimeTypeOK', StopInv, AttemptInv, stopEvent, loop # "out",
             [RuntimeNext]_runtimeVars
      PROVE  /\ StepsLeft' <= StepsLeft
             /\ RunStep => StepsLeft' < StepsLeft
  <2> USE DEF StepsLeft, FinallySteps, SendingSteps, LoopSteps
  <2>1. ASSUME RunStep PROVE StepsLeft' < StepsLeft
    <3> USE DEF Goto, clientVars, threadVars
    <3>t. stop \in [Threads -> {"no", "stopping", "set"}] /\ attempt \in 0 .. MaxAttempts
      BY <1>2 DEF RuntimeTypeOK
    <3>1. ~EnterRun
      BY <1>2 DEF EnterRun
    <3>2. CASE SettingsValid \/ SettingsInvalid
      BY <3>2 DEF SettingsValid, SettingsInvalid
    <3>3. CASE CheckLoop
      BY <1>2, <3>t, <3>3 DEF CheckLoop
    <3>4. CASE Tick
      BY <1>2, <3>4 DEF Tick
    <3>5. ASSUME NEW last \in BOOLEAN, EndCycle(last) PROVE StepsLeft' < StepsLeft
      <4>1. loop = "cycled" /\ loop' \in {"finally", "check"} /\ UNCHANGED <<state, stop>>
        BY <3>5 DEF EndCycle
      <4>2. QED
        BY <4>1
    <3>6. CASE LeaveRun
      BY <3>t, <3>6 DEF LeaveRun
    <3>7. CASE SetStopEvent("loop")
      <4>1. stop["loop"] = "stopping" /\ stop'["loop"] = "set" /\ UNCHANGED loop
        BY <3>t, <3>7 DEF SetStopEvent
      <4>2. loop = "finally"
        BY <1>2, <4>1 DEF StopInv
      <4>3. QED
        BY <4>1, <4>2
    <3>8. CASE StopReturns("loop")
      <4>1. stop["loop"] = "set" /\ stop'["loop"] = "no" /\ state' = "stopped" /\ UNCHANGED loop
        BY <3>t, <3>8 DEF StopReturns
      <4>2. loop = "finally"
        BY <1>2, <4>1 DEF StopInv
      <4>3. QED
        BY <4>1, <4>2
    <3>9. ASSUME NEW arrives \in BOOLEAN, Send(arrives) PROVE StepsLeft' < StepsLeft
      <4>1. loop = "sending" /\ loop' = "sending" /\ answer = "none" /\ answer' = "awaited"
            /\ attempt' = attempt + 1
        BY <3>9 DEF Send
      <4>2. QED
        BY <3>t, <4>1
    <3>10. CASE TimeOut
      <4>1. loop = "sending" /\ loop' = "sending" /\ answer # "none" /\ answer' = "none"
            /\ attempt' = attempt
        BY <1>2, <3>10 DEF TimeOut, AttemptInv
      <4>2. QED
        BY <3>t, <4>1
    <3>11. CASE Receive \/ BeatFails
      <4>1. loop = "sending" /\ loop' = "cycled"
        BY <3>11 DEF Receive, BeatFails
      <4>2. QED
        BY <3>t, <4>1
    <3>12. QED
      BY <2>1, <3>1, <3>2, <3>3, <3>4, <3>5, <3>6, <3>7, <3>8, <3>9, <3>10, <3>11 DEF RunStep
  <2>2. StepsLeft \in Nat /\ StepsLeft' \in Nat
    BY <1>1, <1>2 DEF RuntimeTypeOK
  <2>3. CASE OtherStep
    <3>1. stop'["loop"] = stop["loop"] /\ (state' = "running" => state = "running")
      BY <1>2, <2>3 DEF OtherStep, StopCalled, SetStopEvent, StopReturns, RuntimeTypeOK
    <3>2. UNCHANGED <<loop, attempt, answer>>
      BY <2>3 DEF OtherStep, StopCalled, SetStopEvent, StopReturns, clientVars
    <3>3. StepsLeft' <= StepsLeft
      BY <1>2, <2>2, <3>1, <3>2 DEF RuntimeTypeOK
    <3>4. QED
      BY <2>1, <2>2, <3>3
  <2>4. ASSUME \/ TimePasses \/ UNCHANGED runtimeVars
               \/ \E a \in inflight : ServeAttempt(a) \/ RefuseAttempt(a)
        PROVE  StepsLeft' <= StepsLeft
    <3>1. UNCHANGED <<loop, state, stop, attempt>> /\ (answer = "none" <=> answer' = "none")
      BY <2>4 DEF TimePasses, runtimeVars, clientVars, threadVars, ServeAttempt, RefuseAttempt, Answer
    <3>2. QED
      BY <2>2, <3>1
  <2>5. QED
    BY <1>2, <2>1, <2>2, <2>3, <2>4 DEF RuntimeNext
<1>3. RuntimeTypeOK /\ RuntimeTypeOK' /\ StopInv /\ AttemptInv /\ [RuntimeNext]_runtimeVars => WindsDown
  BY <1>2 DEF WindsDown
<1>4. QED
  BY <1>1, <1>3, RuntimeTyping, StopInvariant, AttemptInvariant, PTL DEF RuntimeSpec
=============================================================================
