----------------------------- MODULE AgentProofs -----------------------------
(***************************************************************************)
(* Proofs about one agent, for any workers, credential ids and times.      *)
(***************************************************************************)
EXTENDS Agent, TLAPS

(* What the requests know.                                                 *)
RequestInv ==
  \A w \in Workers :
    /\ req[w].pc \in {"presented", "beating"} => req[w].observed # Never
    /\ \A c \in req[w].found : credential[c].state # "absent"
    /\ Seen(w).lastSeen # Never => lastSeen # Never
    /\ At(w, "collected", {"rotate"}) => Seen(w).status \notin Withdrawing

(* A rotation about to commit has found the live credentials its thread    *)
(* issued; an agent that is not enrolled has none, and no management       *)
(* request.                                                                *)
CredentialInv ==
  /\ status = "absent" => Live = {}
  /\ \A w \in Workers : req[w].pc \in {"loaded", "collected"} => status # "absent"
  /\ LiveCredentialsNeedOverlap
  /\ \A w \in Workers : At(w, "collected", {"rotate"}) =>
       \A c \in Live : credential[c].issuer = w => c \in req[w].found

Inv == TypeOK /\ RequestInv /\ CredentialInv /\ ActiveWasSeen

LEMMA IdleTyped == Idle \in Requests /\ NoCopy \in Copies
  BY DEF Idle, Requests, Ops, Copies, NoCopy, Statuses

(* What a request revokes stays well typed, and nothing else changes.      *)
LEMMA RevokedRows ==
  ASSUME TypeOK, RequestInv, NEW w \in Workers
  PROVE  /\ Revoked(w) \in [Credentials -> Rows]
         /\ \A c \in Credentials :
              /\ Revoked(w)[c].issuer = credential[c].issuer
              /\ c \in req[w].found => Revoked(w)[c].state = "revoked"
              /\ c \notin req[w].found => Revoked(w)[c] = credential[c]
<1>1. ASSUME NEW c \in Credentials, c \in req[w].found
      PROVE  /\ [credential[c] EXCEPT !.state = "revoked"] \in Rows
             /\ [credential[c] EXCEPT !.state = "revoked"].issuer = credential[c].issuer
             /\ [credential[c] EXCEPT !.state = "revoked"].state = "revoked"
  <2>1. credential[c] \in Rows /\ credential[c].state # "absent"
    BY <1>1 DEF TypeOK, RequestInv
  <2>2. QED
    BY <2>1 DEF Rows, Absent
<1>2. QED
  BY <1>1 DEF Revoked, TypeOK

(* No row a request revokes from is absent afterwards either.              *)
LEMMA StillIssued ==
  ASSUME TypeOK, RequestInv, NEW w \in Workers, NEW c \in Credentials, credential[c].state # "absent"
  PROVE  Revoked(w)[c].state # "absent"
  BY RevokedRows

LEMMA NewTyped == \A w \in Workers : New(w) \in Rows /\ New(w).state = "live" /\ New(w).issuer = w
  BY DEF New, Rows

LEMMA TypeStep == TypeOK /\ RequestInv /\ [Next]_vars => TypeOK'
<1> SUFFICES ASSUME TypeOK, RequestInv, [Next]_vars PROVE TypeOK'
  OBVIOUS
<1> USE DEF TypeOK
<1>1. ASSUME NEW w \in Workers, NEW c \in Credentials, Enroll(w, c) PROVE TypeOK'
  BY <1>1, NewTyped DEF Enroll, Statuses
<1>2. ASSUME NEW w \in Workers, NEW c \in Credentials, CommitRotation(w, c) PROVE TypeOK'
  BY <1>2, NewTyped, RevokedRows, IdleTyped DEF CommitRotation, End
<1>3. ASSUME NEW w \in Workers, NEW c \in Credentials, NEW observed \in Times,
             PresentCredential(w, c, observed)
      PROVE  TypeOK'
  <2>1. [Idle EXCEPT !.pc = "presented", !.observed = observed] \in Requests
    BY IdleTyped DEF Requests
  <2>2. QED
    BY <1>3, <2>1 DEF PresentCredential
<1>4. ASSUME NEW w \in Workers, Authenticate(w) PROVE TypeOK'
  <2>1. Stored \in Copies
    BY <1>4 DEF Authenticate, Stored, Copies, Eligible, Statuses
  <2>2. [req[w] EXCEPT !.pc = "beating", !.seen = Stored] \in Requests
    BY <2>1 DEF Requests
  <2>3. QED
    BY <1>4, <2>2 DEF Authenticate
<1>5. ASSUME NEW w \in Workers, RefuseAgent(w) \/ LoseHeartbeat(w) \/ RefuseRotation(w)
      PROVE  TypeOK'
  BY <1>5, IdleTyped DEF RefuseAgent, LoseHeartbeat, RefuseRotation, End
<1>6. ASSUME NEW w \in Workers, CommitHeartbeat(w) PROVE TypeOK'
  <2>1. req[w].observed \in {Never} \union Times
    BY DEF Requests
  <2>2. QED
    BY <1>6, <2>1, IdleTyped DEF CommitHeartbeat, End, Statuses
<1>7. ASSUME NEW w \in Workers, NEW op \in Ops, LoadAgent(w, op) PROVE TypeOK'
  <2>1. Stored \in Copies
    BY <1>7 DEF LoadAgent, Stored, Copies
  <2>2. [Idle EXCEPT !.pc = "loaded", !.op = op, !.seen = Stored] \in Requests
    BY <2>1, IdleTyped DEF Requests
  <2>3. QED
    BY <1>7, <2>2 DEF LoadAgent
<1>8. ASSUME NEW w \in Workers, CollectCredentials(w) PROVE TypeOK'
  <2>1. [req[w] EXCEPT !.pc = "collected", !.found = Live] \in Requests
    BY DEF Requests, Live
  <2>2. QED
    BY <1>8, <2>1 DEF CollectCredentials
<1>9. ASSUME NEW w \in Workers, CommitRevoke(w) \/ CommitRetire(w) PROVE TypeOK'
  BY <1>9, RevokedRows, IdleTyped DEF CommitRevoke, CommitRetire, End, Flush, Statuses
<1>10. CASE UNCHANGED vars
  BY <1>10 DEF vars
<1>11. QED
  BY <1>1, <1>2, <1>3, <1>4, <1>5, <1>6, <1>7, <1>8, <1>9, <1>10 DEF Next

(* What happens to the credentials in the four steps that write them.      *)
LEMMA LiveSets ==
  ASSUME TypeOK, RequestInv, NEW w \in Workers
  PROVE  /\ \A c \in Credentials : Enroll(w, c) =>
              /\ credential'[c] = New(w) /\ Live' = Live \union {c}
              /\ \A d \in Credentials \ {c} : credential'[d] = credential[d]
         /\ \A c \in Credentials : CommitRotation(w, c) =>
              /\ credential'[c] = New(w) /\ Live' = (Live \ req[w].found) \union {c}
              /\ \A d \in Live' \ {c} : credential'[d] = credential[d]
              /\ \A d \in Credentials : credential[d].state # "absent" => credential'[d].state # "absent"
         /\ CommitRevoke(w) \/ CommitRetire(w) =>
              /\ Live' = Live \ req[w].found
              /\ \A d \in Live' : credential'[d] = credential[d]
              /\ \A d \in Credentials : credential[d].state # "absent" => credential'[d].state # "absent"
<1>1. ASSUME NEW c \in Credentials, Enroll(w, c)
      PROVE  /\ credential'[c] = New(w) /\ Live' = Live \union {c}
             /\ \A d \in Credentials \ {c} : credential'[d] = credential[d]
  BY <1>1, NewTyped DEF Enroll, TypeOK, Live
<1>2. ASSUME NEW c \in Credentials, CommitRotation(w, c)
      PROVE  /\ credential'[c] = New(w) /\ Live' = (Live \ req[w].found) \union {c}
             /\ \A d \in Live' \ {c} : credential'[d] = credential[d]
             /\ \A d \in Credentials : credential[d].state # "absent" => credential'[d].state # "absent"
  <2>1. credential'[c] = New(w) /\ \A d \in Credentials \ {c} : credential'[d] = Revoked(w)[d]
    BY <1>2, RevokedRows DEF CommitRotation
  <2>2. \A d \in Credentials \ {c} :
          /\ d \in Live' <=> d \in Live \ req[w].found
          /\ d \in Live' => credential'[d] = credential[d]
    BY <2>1, RevokedRows DEF Live
  <2>3. c \in Live'
    BY <2>1, NewTyped DEF Live
  <2>4. QED
    BY <2>1, <2>2, <2>3, StillIssued, NewTyped DEF Live
<1>3. ASSUME CommitRevoke(w) \/ CommitRetire(w)
      PROVE  /\ Live' = Live \ req[w].found
             /\ \A d \in Live' : credential'[d] = credential[d]
             /\ \A d \in Credentials : credential[d].state # "absent" => credential'[d].state # "absent"
  <2>1. credential' = Revoked(w)
    BY <1>3 DEF CommitRevoke, CommitRetire
  <2>2. QED
    BY <2>1, RevokedRows, StillIssued DEF Live
<1>4. QED
  BY <1>1, <1>2, <1>3

(* Issued credentials and a dated last_seen_at do not go back.             *)
LEMMA Kept ==
  ASSUME TypeOK, RequestInv, [Next]_vars
  PROVE  /\ \A c \in Credentials : credential[c].state # "absent" => credential'[c].state # "absent"
         /\ lastSeen # Never => lastSeen' # Never
<1>1. ASSUME NEW w \in Workers, NEW c \in Credentials, Enroll(w, c) \/ CommitRotation(w, c)
      PROVE  /\ lastSeen' = lastSeen
             /\ \A d \in Credentials : credential[d].state # "absent" => credential'[d].state # "absent"
  BY <1>1, LiveSets, NewTyped DEF Enroll, CommitRotation
<1>2. ASSUME NEW w \in Workers, CommitRevoke(w) \/ CommitRetire(w)
      PROVE  /\ lastSeen' = lastSeen
             /\ \A d \in Credentials : credential[d].state # "absent" => credential'[d].state # "absent"
  BY <1>2, LiveSets DEF CommitRevoke, CommitRetire
<1>3. ASSUME NEW w \in Workers, CommitHeartbeat(w)
      PROVE  credential' = credential /\ (lastSeen # Never => lastSeen' # Never)
  BY <1>3 DEF CommitHeartbeat, RequestInv, At
<1>4. ASSUME NEW w \in Workers,
             \/ \E c \in Credentials, observed \in Times : PresentCredential(w, c, observed)
             \/ Authenticate(w) \/ RefuseAgent(w) \/ LoseHeartbeat(w)
             \/ \E op \in Ops : LoadAgent(w, op)
             \/ RefuseRotation(w) \/ CollectCredentials(w)
      PROVE  credential' = credential /\ lastSeen' = lastSeen
  BY <1>4 DEF PresentCredential, Authenticate, RefuseAgent, LoseHeartbeat, LoadAgent,
              RefuseRotation, CollectCredentials
<1>5. QED
  BY <1>1, <1>2, <1>3, <1>4 DEF Next, vars

(* What a request knows of the rows and last_seen_at it works on.          *)
Knows(r, rows, last) ==
  /\ r.pc \in {"presented", "beating"} => r.observed # Never
  /\ \A c \in r.found : rows[c].state # "absent"
  /\ r.seen.lastSeen # Never => last # Never
  /\ r.pc = "collected" /\ r.op = "rotate" => r.seen.status \notin Withdrawing

LEMMA RequestStep == TypeOK /\ RequestInv /\ [Next]_vars => RequestInv'
<1> SUFFICES ASSUME TypeOK, RequestInv, [Next]_vars, NEW v \in Workers PROVE Knows(req'[v], credential', lastSeen')
  BY DEF RequestInv, Knows, At, Seen
<1>k. ASSUME NEW r \in Requests, Knows(r, credential, lastSeen) PROVE Knows(r, credential', lastSeen')
  BY <1>k, Kept DEF Knows, Requests
<1>i. Knows(Idle, credential', lastSeen')
  BY DEF Knows, Idle, NoCopy
<1>v. req[v] \in Requests /\ Knows(req[v], credential, lastSeen)
  BY DEF TypeOK, RequestInv, Knows, At, Seen
<1>1. CASE req'[v] \in {req[v], Idle}
  BY <1>1, <1>k, <1>i, <1>v, IdleTyped
<1>2. ASSUME NEW observed \in Times, NEW c \in Credentials, PresentCredential(v, c, observed)
      PROVE  Knows(req'[v], credential', lastSeen')
  BY <1>2 DEF PresentCredential, TypeOK, Knows, Idle, NoCopy, Times, Never
<1>3. CASE Authenticate(v)
  <2>1. req'[v] = [req[v] EXCEPT !.pc = "beating", !.seen = Stored] /\ lastSeen' = lastSeen
        /\ credential' = credential /\ req[v].pc = "presented"
    BY <1>3 DEF Authenticate, TypeOK, At
  <2>2. QED
    BY <2>1, <1>v DEF Knows, Requests, Stored
<1>4. ASSUME NEW op \in Ops, LoadAgent(v, op) PROVE Knows(req'[v], credential', lastSeen')
  <2>1. req'[v] = [Idle EXCEPT !.pc = "loaded", !.op = op, !.seen = Stored] /\ lastSeen' = lastSeen
    BY <1>4 DEF LoadAgent, TypeOK
  <2>2. QED
    BY <2>1 DEF Knows, Idle, Stored
<1>5. CASE CollectCredentials(v)
  <2>1. req'[v] = [req[v] EXCEPT !.pc = "collected", !.found = Live] /\ lastSeen' = lastSeen
        /\ credential' = credential /\ (req[v].op = "rotate" => req[v].seen.status \notin Withdrawing)
    BY <1>5 DEF CollectCredentials, TypeOK, Seen
  <2>2. QED
    BY <2>1, <1>v DEF Knows, Requests, Live
<1>6. ASSUME NEW w \in Workers,
             \/ \E c \in Credentials : Enroll(w, c) \/ CommitRotation(w, c)
             \/ RefuseAgent(w) \/ CommitHeartbeat(w) \/ LoseHeartbeat(w) \/ RefuseRotation(w)
             \/ CommitRevoke(w) \/ CommitRetire(w)
      PROVE  req'[v] \in {req[v], Idle}
  BY <1>6 DEF Enroll, CommitRotation, RefuseAgent, CommitHeartbeat, LoseHeartbeat, RefuseRotation,
              CommitRevoke, CommitRetire, End, TypeOK
<1>7. ASSUME NEW w \in Workers, w # v,
             \/ \E c \in Credentials, observed \in Times : PresentCredential(w, c, observed)
             \/ Authenticate(w) \/ CollectCredentials(w)
             \/ \E op \in Ops : LoadAgent(w, op)
      PROVE  req'[v] = req[v]
  BY <1>7 DEF PresentCredential, Authenticate, CollectCredentials, LoadAgent, TypeOK
<1>8. CASE UNCHANGED vars
  BY <1>8, <1>1 DEF vars
<1>9. QED
  BY <1>1, <1>2, <1>3, <1>4, <1>5, <1>6, <1>7, <1>8 DEF Next

-----------------------------------------------------------------------------
(* Credentials                                                             *)

LEMMA CredentialStep == TypeOK /\ RequestInv /\ CredentialInv /\ [Next]_vars => CredentialInv'
<1> SUFFICES ASSUME TypeOK, RequestInv, CredentialInv, [Next]_vars PROVE CredentialInv'
  OBVIOUS
<1> USE DEF CredentialInv, LiveCredentialsNeedOverlap
<1>l. Live \subseteq Credentials
  BY DEF Live
<1>1. ASSUME NEW w \in Workers, NEW c \in Credentials, Enroll(w, c) PROVE CredentialInv'
  <2>1. Live' = {c} /\ status' # "absent" /\ req' = req
    BY <1>1, LiveSets DEF Enroll
  <2>2. \A v \in Workers : ~At(v, "collected", {"rotate"})
    BY <1>1 DEF Enroll, At
  <2>3. QED
    BY <2>1, <2>2 DEF At
<1>2. ASSUME NEW w \in Workers, NEW c \in Credentials, CommitRotation(w, c) PROVE CredentialInv'
  <2>1. /\ Live' = (Live \ req[w].found) \union {c} /\ credential'[c].issuer = w
        /\ \A d \in Live' \ {c} : credential'[d] = credential[d] /\ d \in Live
    BY <1>2, LiveSets, NewTyped
  <2>2. \A d \in Live' \ {c} : credential'[d].issuer # w
    BY <1>2, <2>1 DEF CommitRotation
  <2>3. \A d, e \in Live' : credential'[d].issuer = credential'[e].issuer => d = e
    BY <2>1, <2>2
  <2>4. status' = status /\ status # "absent" /\ req' = [req EXCEPT ![w] = Idle]
    BY <1>2 DEF CommitRotation, At, End
  <2>5. ASSUME NEW v \in Workers, At(v, "collected", {"rotate"})', NEW d \in Live', credential'[d].issuer = v
        PROVE  d \in req'[v].found
    <3>1. v # w /\ req'[v] = req[v]
      BY <2>4, <2>5 DEF TypeOK, At, Idle
    <3>2. d # c /\ d \in Live /\ credential[d].issuer = v
      BY <2>1, <2>5, <3>1
    <3>3. QED
      BY <2>5, <3>1, <3>2 DEF At
  <2>6. QED
    BY <2>3, <2>4, <2>5
<1>3. ASSUME NEW w \in Workers, CommitRevoke(w) \/ CommitRetire(w) PROVE CredentialInv'
  <2>1. Live' \subseteq Live /\ \A d \in Live' : credential'[d] = credential[d]
    BY <1>3, LiveSets
  <2>2. /\ req' = [req EXCEPT ![w] = Idle]
        /\ status' \in {status, "revoked", "retired"} /\ status # "absent"
    BY <1>3 DEF CommitRevoke, CommitRetire, End, Flush, At
  <2>3. \A v \in Workers : req'[v] = req[v] \/ req'[v].pc = "idle"
    BY <2>2 DEF TypeOK, Idle
  <2>4. QED
    BY <2>1, <2>2, <2>3 DEF At
<1>4. ASSUME NEW w \in Workers, CollectCredentials(w) PROVE CredentialInv'
  <2>1. /\ credential' = credential /\ Live' = Live /\ status' = status /\ status # "absent"
        /\ req'[w].found = Live
        /\ \A v \in Workers \ {w} : req'[v] = req[v]
    BY <1>4 DEF CollectCredentials, TypeOK, Live, At
  <2>2. QED
    BY <2>1 DEF At
<1>5. ASSUME credential' = credential, status' \in {status, "active"},
             \A v \in Workers : \/ req'[v] = req[v]
                                \/ req'[v].pc \notin {"loaded", "collected"}
                                \/ req'[v].pc = "loaded" /\ status # "absent"
      PROVE  CredentialInv'
  BY <1>5 DEF At, Live
<1>6. ASSUME NEW w \in Workers,
             RefuseAgent(w) \/ CommitHeartbeat(w) \/ LoseHeartbeat(w) \/ RefuseRotation(w)
      PROVE  CredentialInv'
  <2>1. credential' = credential /\ status' \in {status, "active"} /\ req' = [req EXCEPT ![w] = Idle]
    BY <1>6 DEF RefuseAgent, CommitHeartbeat, LoseHeartbeat, RefuseRotation, End
  <2>2. QED
    BY <2>1, <1>5 DEF TypeOK, Idle
<1>7. ASSUME NEW w \in Workers, NEW op \in Ops, LoadAgent(w, op) PROVE CredentialInv'
  BY <1>7, <1>5 DEF LoadAgent, TypeOK, Idle
<1>8. ASSUME NEW w \in Workers,
             Authenticate(w) \/ \E c \in Credentials, observed \in Times : PresentCredential(w, c, observed)
      PROVE  CredentialInv'
  <2>1. /\ credential' = credential /\ status' = status
        /\ \A v \in Workers \ {w} : req'[v] = req[v]
    BY <1>8 DEF Authenticate, PresentCredential, TypeOK
  <2>2. CASE Authenticate(w)
    <3>1. req'[w].pc = "beating"
      BY <2>2 DEF Authenticate, TypeOK, Requests
    <3>2. QED
      BY <2>1, <3>1, <1>5
  <2>3. ASSUME NEW c \in Credentials, NEW t \in Times, PresentCredential(w, c, t)
        PROVE  req'[w].pc = "presented"
    BY <2>3 DEF PresentCredential, TypeOK, Idle
  <2>4. QED
    BY <1>8, <2>1, <2>2, <2>3, <1>5
<1>9. CASE UNCHANGED vars
  BY <1>9, <1>5 DEF vars
<1>10. QED
  BY <1>1, <1>2, <1>3, <1>4, <1>6, <1>7, <1>8, <1>9 DEF Next

-----------------------------------------------------------------------------
(* Heartbeats                                                              *)

LEMMA ActiveStep == TypeOK /\ RequestInv /\ ActiveWasSeen /\ [Next]_vars => ActiveWasSeen'
<1> SUFFICES ASSUME TypeOK, RequestInv, ActiveWasSeen, [Next]_vars PROVE ActiveWasSeen'
  OBVIOUS
<1>1. ASSUME NEW w \in Workers, CommitHeartbeat(w) PROVE lastSeen' # Never
  <2>1. req[w].observed # Never /\ (Seen(w).lastSeen # Never => lastSeen # Never)
    BY <1>1 DEF CommitHeartbeat, RequestInv, At
  <2>2. req[w].observed \in Nat /\ Seen(w).lastSeen \in Nat
    BY AgentAssumption DEF TypeOK, Requests, Copies, Seen, Times, Never
  <2>3. CASE req[w].observed > Seen(w).lastSeen
    BY <1>1, <2>1, <2>3 DEF CommitHeartbeat
  <2>4. CASE ~(req[w].observed > Seen(w).lastSeen)
    BY <1>1, <2>1, <2>2, <2>4 DEF CommitHeartbeat, Never
  <2>5. QED
    BY <2>3, <2>4
<1>2. (\A w \in Workers : ~CommitHeartbeat(w)) => (status' = "active" => status = "active")
  BY DEF Next, vars, Enroll, CommitRotation, PresentCredential, Authenticate, RefuseAgent,
         LoseHeartbeat, LoadAgent, RefuseRotation, CollectCredentials, CommitRevoke, CommitRetire,
         Flush
<1>3. QED
  BY <1>1, <1>2, Kept DEF ActiveWasSeen

(* Every reachable state satisfies the invariant, whatever the constants.  *)
THEOREM Invariance == Spec => []Inv
<1>1. Init => Inv
  BY DEF Init, Inv, TypeOK, RequestInv, CredentialInv, ActiveWasSeen, LiveCredentialsNeedOverlap,
         Absent, Rows, Live, Idle, NoCopy, At, Seen, Requests, Ops, Copies, Statuses
<1>2. Inv /\ [Next]_vars => Inv'
  BY TypeStep, RequestStep, CredentialStep, ActiveStep DEF Inv
<1>3. QED
  BY <1>1, <1>2, PTL DEF Spec

(* The row, the credentials and the requests are well typed.               *)
THEOREM Typing == Spec => []TypeOK
<1>1. Inv => TypeOK
  BY DEF Inv
<1>2. QED
  BY <1>1, Invariance, PTL

(* As many credentials stay live as threads issued one: rotations served   *)
(* one after the other leave a single live credential.                     *)
THEOREM LiveCredentials == Spec => []LiveCredentialsNeedOverlap
<1>1. Inv => LiveCredentialsNeedOverlap
  BY DEF Inv, CredentialInv
<1>2. QED
  BY <1>1, Invariance, PTL

(* No order of heartbeats and withdrawals activates an agent never seen.   *)
THEOREM ActiveAgentsWereSeen == Spec => []ActiveWasSeen
<1>1. Inv => ActiveWasSeen
  BY DEF Inv
<1>2. QED
  BY <1>1, Invariance, PTL

-----------------------------------------------------------------------------
(* Withdrawal                                                              *)

LEMMA WithdrawnStep == TypeOK /\ RequestInv /\ Withdrawn /\ [Next]_vars => Withdrawn'
<1> SUFFICES ASSUME TypeOK, RequestInv, Withdrawn, [Next]_vars PROVE Withdrawn'
  OBVIOUS
<1> USE DEF Withdrawn
<1>1. ASSUME NEW w \in Workers, NEW c \in Credentials,
             Enroll(w, c) \/ CommitRotation(w, c) \/ \E t \in Times : PresentCredential(w, c, t)
      PROVE  FALSE
  BY <1>1 DEF Enroll, CommitRotation, PresentCredential, RequestInv, At, Withdrawing
<1>2. ASSUME NEW w \in Workers, Authenticate(w) PROVE FALSE
  BY <1>2 DEF Authenticate, Eligible, Withdrawing
<1>3. ASSUME NEW w \in Workers,
             \/ RefuseAgent(w) \/ LoseHeartbeat(w) \/ RefuseRotation(w) \/ CommitHeartbeat(w)
             \/ CommitRevoke(w) \/ CommitRetire(w)
      PROVE  Withdrawn'
  <2>1. req' = [req EXCEPT ![w] = Idle] /\ status' \in {status, "revoked", "retired"}
    BY <1>3 DEF RefuseAgent, LoseHeartbeat, RefuseRotation, CommitHeartbeat, CommitRevoke,
                CommitRetire, Flush, End, At, Withdrawing
  <2>2. Live' = {}
    BY <1>3, LiveSets DEF RefuseAgent, LoseHeartbeat, RefuseRotation, CommitHeartbeat, Live
  <2>3. QED
    BY <2>1, <2>2 DEF TypeOK, Idle, Seen, Withdrawing
<1>4. ASSUME NEW w \in Workers, NEW op \in Ops, LoadAgent(w, op) PROVE Withdrawn'
  <2>1. /\ status' = status /\ credential' = credential
        /\ req' = [req EXCEPT ![w] = [Idle EXCEPT !.pc = "loaded", !.op = op, !.seen = Stored]]
    BY <1>4 DEF LoadAgent
  <2>2. QED
    BY <2>1 DEF TypeOK, Idle, Seen, Stored, Live
<1>5. ASSUME NEW w \in Workers, CollectCredentials(w) PROVE Withdrawn'
  <2>1. /\ status' = status /\ credential' = credential
        /\ req' = [req EXCEPT ![w].pc = "collected", ![w].found = Live]
        /\ req[w].pc = "loaded"
    BY <1>5 DEF CollectCredentials, At
  <2>2. QED
    BY <2>1 DEF TypeOK, Requests, Seen, Live
<1>6. CASE UNCHANGED vars
  BY <1>6 DEF vars, Live, Seen
<1>7. QED
  BY <1>1, <1>2, <1>3, <1>4, <1>5, <1>6 DEF Next

(* A withdrawal that outlives the requests it overlapped is final.         *)
THEOREM WithdrawalFinal == Spec => WithdrawalIsFinal
<1>1. Inv /\ [Next]_vars => (Withdrawn => Withdrawn')
  BY WithdrawnStep DEF Inv
<1>2. Inv /\ [Next]_vars => [Withdrawn => Withdrawn']_vars
  BY <1>1
<1>3. QED
  BY <1>2, Invariance, PTL DEF Spec, WithdrawalIsFinal

-----------------------------------------------------------------------------
(* Requests that do not overlap                                            *)

(* From its first read to its commit, a request is the only one.           *)
ServedInTurn == \A w, v \in Workers : req[w] # Idle /\ req[v] # Idle => w = v

(* One thread alone cannot help but serve in turn.                         *)
LEMMA OneThreadInTurn == ASSUME NEW t, Workers = {t} PROVE Spec => []ServedInTurn
<1>1. ServedInTurn
  BY DEF ServedInTurn
<1>2. QED
  BY <1>1, PTL

(* The rows that a request has read are then the ones it commits over.     *)
Fresh(r) ==
  /\ r.pc \in {"beating", "loaded", "collected"} => r.seen = Stored
  /\ r.pc = "collected" => r.found = Live

FreshInv == \A w \in Workers : Fresh(req[w])

LEMMA IdleFresh == Fresh(Idle) /\ Fresh(Idle)'
  BY DEF Fresh, Idle

LEMMA EndedFresh ==
  ASSUME TypeOK, ServedInTurn, NEW w \in Workers, req[w].pc # "idle", End(w)
  PROVE  FreshInv'
<1>1. Idle.pc = "idle"
  BY DEF Idle
<1>2. \A v \in Workers : req'[v] = Idle
  BY <1>1 DEF TypeOK, ServedInTurn, End
<1>3. QED
  BY <1>2, IdleFresh DEF FreshInv, Fresh

(* A step that only reads adds what it read to one request.                *)
LEMMA ReadFresh ==
  ASSUME TypeOK, FreshInv, NEW w \in Workers, NEW r, Fresh(r), req' = [req EXCEPT ![w] = r],
         UNCHANGED <<status, lastSeen, credential>>
  PROVE  FreshInv'
<1>1. Stored' = Stored /\ Live' = Live
  BY DEF Stored, Live
<1>2. \A v \in Workers : Fresh(req'[v])
  BY DEF TypeOK, FreshInv
<1>3. QED
  BY <1>1, <1>2 DEF FreshInv, Fresh

LEMMA FreshStep == TypeOK /\ ServedInTurn /\ FreshInv /\ [Next]_vars => FreshInv'
<1> SUFFICES ASSUME TypeOK, ServedInTurn, FreshInv, [Next]_vars PROVE FreshInv'
  OBVIOUS
<1>1. ASSUME NEW w \in Workers,
             \/ \E c \in Credentials : CommitRotation(w, c)
             \/ RefuseAgent(w) \/ CommitHeartbeat(w) \/ LoseHeartbeat(w)
             \/ RefuseRotation(w) \/ CommitRevoke(w) \/ CommitRetire(w)
      PROVE  FreshInv'
  <2>1. req[w].pc # "idle" /\ End(w)
    BY <1>1 DEF CommitRotation, RefuseAgent, CommitHeartbeat, LoseHeartbeat, RefuseRotation,
                CommitRevoke, CommitRetire, At
  <2>2. QED
    BY <2>1, EndedFresh
<1>2. ASSUME NEW w \in Workers, NEW c \in Credentials, Enroll(w, c) PROVE FreshInv'
  <2>1. \A v \in Workers : req[v].seen.status \in Statuses
    BY DEF TypeOK, Requests, Copies
  <2>2. status = "absent" /\ UNCHANGED req
    BY <1>2 DEF Enroll
  <2>3. \A v \in Workers : req[v].pc \notin {"beating", "loaded", "collected"}
    BY <2>1, <2>2 DEF FreshInv, Fresh, Stored, Statuses
  <2>4. QED
    BY <2>2, <2>3 DEF FreshInv, Fresh
<1>3. ASSUME NEW w \in Workers, NEW c \in Credentials, NEW observed \in Times,
             PresentCredential(w, c, observed)
      PROVE  FreshInv'
  <2> DEFINE r == [Idle EXCEPT !.pc = "presented", !.observed = observed]
  <2>1. Fresh(r)
    BY DEF Fresh, Idle
  <2> HIDE DEF r
  <2>2. QED
    BY <1>3, <2>1, ReadFresh DEF PresentCredential, r
<1>4. ASSUME NEW w \in Workers, Authenticate(w) PROVE FreshInv'
  <2> DEFINE r == [req[w] EXCEPT !.pc = "beating", !.seen = Stored]
  <2>1. Fresh(r) /\ req' = [req EXCEPT ![w] = r]
    BY <1>4 DEF Fresh, Authenticate, TypeOK, Requests
  <2> HIDE DEF r
  <2>2. QED
    BY <1>4, <2>1, ReadFresh DEF Authenticate
<1>5. ASSUME NEW w \in Workers, NEW op \in Ops, LoadAgent(w, op) PROVE FreshInv'
  <2> DEFINE r == [Idle EXCEPT !.pc = "loaded", !.op = op, !.seen = Stored]
  <2>1. Fresh(r)
    BY DEF Fresh, Idle
  <2> HIDE DEF r
  <2>2. QED
    BY <1>5, <2>1, ReadFresh DEF LoadAgent, r
<1>6. ASSUME NEW w \in Workers, CollectCredentials(w) PROVE FreshInv'
  <2> DEFINE r == [req[w] EXCEPT !.pc = "collected", !.found = Live]
  <2>1. req[w] \in Requests /\ req[w].seen = Stored
    BY <1>6 DEF CollectCredentials, TypeOK, FreshInv, Fresh, At
  <2>2. Fresh(r) /\ req' = [req EXCEPT ![w] = r]
    BY <1>6, <2>1 DEF Fresh, CollectCredentials, TypeOK, Requests
  <2> HIDE DEF r
  <2>3. QED
    BY <1>6, <2>2, ReadFresh DEF CollectCredentials
<1>7. CASE UNCHANGED vars
  BY <1>7 DEF vars, FreshInv, Fresh, Stored, Live
<1>8. QED
  BY <1>1, <1>2, <1>3, <1>4, <1>5, <1>6, <1>7 DEF Next

LEMMA FreshInvariant == Spec /\ []ServedInTurn => []FreshInv
<1>1. Init => FreshInv
  <2>1. Init => \A w \in Workers : req[w] = Idle
    BY DEF Init
  <2>2. QED
    BY <2>1, IdleFresh DEF FreshInv
<1>2. QED
  BY <1>1, FreshStep, Typing, PTL DEF Spec

(* Served one after the other, no heartbeat replaces a newer last_seen_at, *)
(* as the test of the heartbeat says.                                      *)
THEOREM NewestSeenInTurn == Spec /\ []ServedInTurn => NewestSeenPreserved
<1>1. TypeOK /\ FreshInv /\ [Next]_vars => lastSeen' >= lastSeen
  <2> SUFFICES ASSUME TypeOK, FreshInv, [Next]_vars PROVE lastSeen' >= lastSeen
    OBVIOUS
  <2>1. lastSeen \in Nat
    BY DEF TypeOK, Never, Times
  <2>2. ASSUME NEW w \in Workers, CommitHeartbeat(w) PROVE lastSeen' >= lastSeen
    <3>1. req[w].observed \in Nat
      BY DEF TypeOK, Requests, Never, Times
    <3>2. Seen(w).lastSeen = lastSeen
      BY <2>2 DEF CommitHeartbeat, At, FreshInv, Fresh, Seen, Stored
    <3>3. QED
      BY <2>1, <2>2, <3>1, <3>2 DEF CommitHeartbeat
  <2>3. ASSUME lastSeen' # lastSeen PROVE \E w \in Workers : CommitHeartbeat(w)
    BY <2>3
    DEF Next, vars, Enroll, CommitRotation, PresentCredential, Authenticate, RefuseAgent,
        LoseHeartbeat, LoadAgent, RefuseRotation, CollectCredentials, CommitRevoke, CommitRetire
  <2>4. QED
    BY <2>1, <2>2, <2>3
<1>2. QED
  BY <1>1, FreshInvariant, Typing, PTL DEF Spec, NewestSeenPreserved

OneLive == \A c, d \in Live : c = d
StaysWithdrawn == status \in Withdrawing /\ Live = {} => status' \in Withdrawing /\ Live' = {}

(* Served one after the other, the requests keep one live credential, and  *)
(* a withdrawn agent stays withdrawn and without any.                      *)
THEOREM CredentialsInTurn == Spec /\ []ServedInTurn => []OneLive /\ [][StaysWithdrawn]_vars
<1>1. Init => OneLive
  BY DEF Init, OneLive, Live, Absent
<1>2. Inv /\ FreshInv /\ OneLive /\ [Next]_vars => OneLive' /\ StaysWithdrawn
  <2> SUFFICES ASSUME Inv, FreshInv, OneLive, [Next]_vars PROVE OneLive' /\ StaysWithdrawn
    OBVIOUS
  <2>0. TypeOK /\ RequestInv /\ CredentialInv
    BY DEF Inv
  <2>1. ASSUME NEW w \in Workers, NEW c \in Credentials, Enroll(w, c)
        PROVE  OneLive' /\ StaysWithdrawn
    <3>1. Live = {} /\ Live' = Live \union {c}
      BY <2>0, <2>1, LiveSets DEF CredentialInv, Enroll
    <3>2. status = "absent"
      BY <2>1 DEF Enroll
    <3>3. QED
      BY <3>1, <3>2 DEF OneLive, StaysWithdrawn, Withdrawing
  <2>2. ASSUME NEW w \in Workers, NEW c \in Credentials, CommitRotation(w, c)
        PROVE  OneLive' /\ StaysWithdrawn
    <3>1. req[w].found = Live /\ Live' = (Live \ req[w].found) \union {c}
      BY <2>0, <2>2, LiveSets DEF CommitRotation, At, FreshInv, Fresh
    <3>2. status \notin Withdrawing
      BY <2>0, <2>2 DEF CommitRotation, At, FreshInv, Fresh, RequestInv, Seen, Stored
    <3>3. QED
      BY <3>1, <3>2 DEF OneLive, StaysWithdrawn
  <2>3. ASSUME NEW w \in Workers, CommitRevoke(w) \/ CommitRetire(w)
        PROVE  OneLive' /\ StaysWithdrawn
    <3>1. Live' \subseteq Live
      BY <2>0, <2>3, LiveSets
    <3>2. status' \in {status, "revoked", "retired"}
      BY <2>3 DEF CommitRevoke, CommitRetire, Flush
    <3>3. QED
      BY <3>1, <3>2 DEF OneLive, StaysWithdrawn, Withdrawing
  <2>4. ASSUME NEW w \in Workers, CommitHeartbeat(w) PROVE OneLive' /\ StaysWithdrawn
    <3>1. credential' = credential /\ Seen(w).status = status
      BY <2>4 DEF CommitHeartbeat, At, FreshInv, Fresh, Seen, Stored
    <3>2. Live' = Live
      BY <3>1 DEF Live
    <3>3. status' = status \/ status \in {"pending", "offline"}
      BY <2>4, <3>1 DEF CommitHeartbeat
    <3>4. QED
      BY <3>2, <3>3 DEF OneLive, StaysWithdrawn, Withdrawing
  <2>5. ASSUME UNCHANGED <<status, credential>> PROVE OneLive' /\ StaysWithdrawn
    BY <2>5 DEF OneLive, StaysWithdrawn, Live
  <2>6. QED
    BY <2>1, <2>2, <2>3, <2>4, <2>5
    DEF Next, vars, PresentCredential, Authenticate, RefuseAgent, LoseHeartbeat, LoadAgent,
        RefuseRotation, CollectCredentials
<1>3. QED
  BY <1>1, <1>2, FreshInvariant, Invariance, PTL DEF Spec
=============================================================================
