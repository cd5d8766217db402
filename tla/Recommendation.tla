--------------------------- MODULE Recommendation ---------------------------
(***************************************************************************)
(* The recommendation service on top of the analysis it reads from         *)
(* (services/recommendation.py, repositories/recommendation.py,            *)
(* recommendations.py, endpoints/recommendations.py).                      *)
(*                                                                         *)
(* A generation walks through the analysis' findings in the order of their *)
(* ids, looks for each finding's recommendation, inserts the missing ones  *)
(* and commits them together with one audit event.  The unique identity of *)
(* a recommendation makes an insertion wait while another transaction      *)
(* holds the same identity uncommitted, and fail once it is committed:     *)
(*                                                                         *)
(*   generate    idle -> generating <-> inserting -> idle                  *)
(*               with failing as the error path                            *)
(*   create      idle -> inserting -> created -> idle                      *)
(*   transition  idle -> loaded -> idle                                    *)
(*                                                                         *)
(* An analysis has one finding per rule, and a recommendation's identity   *)
(* is its finding's, so both go by the check type.                         *)
(***************************************************************************)
EXTENDS RootCause

CONSTANT Clerks   (* the threads that serve the recommendation routes      *)

VARIABLES
  recommended,  (* the committed recommendations, by check type            *)
  audited,      (* the recommendations that committed audit events report  *)
  clerk,        (* what each clerk is doing                                *)
  generated     (* the clerks whose last request was a successful generate *)

store == <<recommended, audited>>
recommendationVars == <<store, clerk, generated>>
pipelineVars == <<analysisVars, recommendationVars>>

NoRow == [status |-> "absent", reviewed |-> FALSE, implemented |-> FALSE]
NewRow == [status |-> "pending", reviewed |-> FALSE, implemented |-> FALSE]
ReviewStatuses == {"pending", "reviewed", "accepted", "rejected", "implemented"}
Recommendations == {c \in Checks : recommended[c].status # "absent"}

Free == [pc |-> "free", op |-> "generate", todo |-> {}, inserted |-> {},
         seen |-> "pending", target |-> "reviewed"]
ClerkPCs == {"free", "generating", "inserting", "created", "failing", "loaded"}

PipelineInit ==
  /\ Init
  /\ recommended = [c \in Checks |-> NoRow]
  /\ audited = 0
  /\ clerk = [w \in Clerks |-> Free]
  /\ generated = {}

-----------------------------------------------------------------------------
(* Helpers                                                                 *)

ClerkAt(w, pc) == clerk[w].pc = pc

Begin(w, request) ==
  /\ clerk[w] = Free
  /\ clerk' = [clerk EXCEPT ![w] = request]
  /\ generated' = generated \ {w}
  /\ UNCHANGED store

(* The request ends, with what it was asked for or with a refusal. *)
Finish(w) == clerk' = [clerk EXCEPT ![w] = Free] /\ UNCHANGED generated

(* The rules that have a finding the services can read. *)
Found == {f.rule : f \in findings}

(* Mutation of NextFinding: the findings are read in no particular order. *)
NextFindingUnordered(w) == clerk[w].todo

(* The finding a request turns to: the one with the least id. *)
NextFinding(w) == {c \in clerk[w].todo : \A d \in clerk[w].todo : c <= d}

(* The clerks whose open transaction has inserted the identity of c. *)
Holders(c) == {v \in Clerks : c \in clerk[v].inserted}

-----------------------------------------------------------------------------
(* Mutations of the actions below, which the runs must refute              *)

(* The loop ends at the first recommendation that exists already. *)
SkipExistingBreaks(w, c) ==
  /\ ClerkAt(w, "generating")
  /\ c \in NextFinding(w)
  /\ recommended[c].status # "absent"
  /\ clerk' = [clerk EXCEPT ![w].todo = {}]
  /\ UNCHANGED <<store, generated>>

(* The row's finding is not a foreign key. *)
InsertRowUnfounded(w, c) ==
  /\ ClerkAt(w, "inserting")
  /\ c \in NextFinding(w)
  /\ Holders(c) = {}
  /\ recommended[c].status = "absent"
  /\ clerk' = [clerk EXCEPT ![w].pc = IF clerk[w].op = "create"
                                      THEN "created" ELSE "generating",
                            ![w].todo = @ \ {c},
                            ![w].inserted = @ \union {c}]
  /\ UNCHANGED <<store, generated>>

(* The audit event counts the findings instead of the new rows. *)
CommitGenerationMiscounted(w) ==
  /\ ClerkAt(w, "generating")
  /\ clerk[w].todo = {}
  /\ recommended' = [c \in Checks |->
                       IF c \in clerk[w].inserted THEN NewRow ELSE recommended[c]]
  /\ audited' = audited + Cardinality(Found)
  /\ clerk' = [clerk EXCEPT ![w] = Free]
  /\ generated' = generated \union {w}

(* The transition checks the loaded status and writes by id. *)
ApplyTransitionStale(w, c) ==
  /\ ClerkAt(w, "loaded")
  /\ clerk[w].todo = {c}
  /\ recommended[c].status # "absent"
  /\ recommended' = [recommended EXCEPT ![c] =
       [status |-> clerk[w].target, reviewed |-> TRUE,
        implemented |-> clerk[w].target = "implemented" \/ @.implemented]]
  /\ Finish(w)
  /\ UNCHANGED audited

-----------------------------------------------------------------------------
(* Generation                                                              *)

Generate(w) ==
  /\ findings # {}
  /\ Begin(w, [Free EXCEPT !.pc = "generating", !.todo = Found])

(* No analysis, or one without findings: also one that is still running. *)
RefuseGenerate(w) ==
  /\ findings = {}
  /\ Begin(w, Free)

(* The recommendation is there already, committed. *)
SkipExisting(w, c) ==
  /\ ClerkAt(w, "generating")
  /\ c \in NextFinding(w)
  /\ recommended[c].status # "absent"
  /\ clerk' = [clerk EXCEPT ![w].todo = @ \ {c}]
  /\ UNCHANGED <<store, generated>>

FindMissing(w, c) ==
  /\ ClerkAt(w, "generating")
  /\ c \in NextFinding(w)
  /\ recommended[c].status = "absent"
  /\ clerk' = [clerk EXCEPT ![w].pc = "inserting"]
  /\ UNCHANGED <<store, generated>>

(* The row is flushed into the open transaction. *)
InsertRow(w, c) ==
  /\ ClerkAt(w, "inserting")
  /\ c \in NextFinding(w)
  /\ Holders(c) = {}
  /\ c \in Found
  /\ recommended[c].status = "absent"
  /\ clerk' = [clerk EXCEPT ![w].pc = IF clerk[w].op = "create"
                                      THEN "created" ELSE "generating",
                            ![w].todo = @ \ {c},
                            ![w].inserted = @ \union {c}]
  /\ UNCHANGED <<store, generated>>

(* The identity is taken, or the finding is gone: every row of the         *)
(* transaction is rolled back.                                             *)
InsertionFails(w, c) ==
  /\ ClerkAt(w, "inserting")
  /\ c \in NextFinding(w)
  /\ Holders(c) = {}
  /\ c \notin Found \/ recommended[c].status # "absent"
  /\ IF clerk[w].op = "create"
     THEN Finish(w)
     ELSE /\ clerk' = [clerk EXCEPT ![w].pc = "failing", ![w].inserted = {}]
          /\ UNCHANGED generated
  /\ UNCHANGED store

(* A statement raises, with the same outcome. *)
GenerationError(w) ==
  /\ clerk[w].pc \in {"generating", "inserting"}
  /\ clerk[w].op = "generate"
  /\ clerk' = [clerk EXCEPT ![w].pc = "failing", ![w].inserted = {}]
  /\ UNCHANGED <<store, generated>>

(* The failure's audit event is committed on its own. *)
RecordFailure(w) ==
  /\ ClerkAt(w, "failing")
  /\ Finish(w)
  /\ UNCHANGED store

CommitGeneration(w) ==
  /\ ClerkAt(w, "generating")
  /\ clerk[w].todo = {}
  /\ recommended' = [c \in Checks |->
                       IF c \in clerk[w].inserted THEN NewRow ELSE recommended[c]]
  /\ audited' = audited + Cardinality(clerk[w].inserted)
  /\ clerk' = [clerk EXCEPT ![w] = Free]
  /\ generated' = generated \union {w}

-----------------------------------------------------------------------------
(* Creation of a single recommendation, which looks for none before        *)

CreateOne(w, c) ==
  /\ c \in Found
  /\ Begin(w, [Free EXCEPT !.pc = "inserting", !.op = "create", !.todo = {c}])

CommitCreate(w) ==
  /\ ClerkAt(w, "created")
  /\ recommended' = [c \in Checks |->
                       IF c \in clerk[w].inserted THEN NewRow ELSE recommended[c]]
  /\ audited' = audited + Cardinality(clerk[w].inserted)
  /\ Finish(w)

-----------------------------------------------------------------------------
(* Review, acceptance, rejection and implementation                        *)

AllowedTargets(seen) ==
  CASE seen = "pending"  -> {"reviewed"}
    [] seen = "reviewed" -> {"accepted", "rejected"}
    [] seen = "accepted" -> {"implemented"}
    [] OTHER             -> {}

LoadRow(w, c, target) ==
  /\ recommended[c].status # "absent"
  /\ Begin(w, [Free EXCEPT !.pc = "loaded", !.op = "transition", !.todo = {c},
                           !.seen = recommended[c].status, !.target = target])

(* The conditional UPDATE, with the columns the target calls for. *)
ApplyTransition(w, c) ==
  /\ ClerkAt(w, "loaded")
  /\ clerk[w].todo = {c}
  /\ clerk[w].target \in AllowedTargets(clerk[w].seen)
  /\ recommended[c].status = clerk[w].seen
  /\ recommended' = [recommended EXCEPT ![c] =
       [status |-> clerk[w].target,
        reviewed |-> @.reviewed \/ clerk[w].target \in {"reviewed", "accepted", "rejected"},
        implemented |-> @.implemented \/ clerk[w].target = "implemented"]]
  /\ Finish(w)
  /\ UNCHANGED audited

RefuseTransition(w, c) ==
  /\ ClerkAt(w, "loaded")
  /\ clerk[w].todo = {c}
  /\ \/ clerk[w].target \notin AllowedTargets(clerk[w].seen)
     \/ recommended[c].status # clerk[w].seen
  /\ Finish(w)
  /\ UNCHANGED store

-----------------------------------------------------------------------------
(* The process dies: its open transaction is rolled back. *)
ClerkCrash(w) ==
  /\ MayCrash
  /\ clerk[w] # Free
  /\ clerk' = [clerk EXCEPT ![w] = Free]
  /\ UNCHANGED <<store, generated>>

(* A deletion waits for the transactions that inserted a recommendation of *)
(* the device, and takes the recommendations with it.                      *)
DeleteAll ==
  /\ \A c \in Checks : Holders(c) = {}
  /\ DeleteDevice
  /\ recommended' = [c \in Checks |-> NoRow]
  /\ UNCHANGED <<audited, clerk, generated>>

Analyse ==
  /\ FinishDiagnostics \/ \E w \in Workers : Request(w) \/ Serve(w) \/ Crash(w)
  /\ UNCHANGED recommendationVars

ServeClerk(w) ==
  \/ \E c \in Checks : \/ SkipExisting(w, c) \/ FindMissing(w, c)
                       \/ InsertRow(w, c) \/ InsertionFails(w, c)
                       \/ ApplyTransition(w, c) \/ RefuseTransition(w, c)
  \/ GenerationError(w) \/ RecordFailure(w)
  \/ CommitGeneration(w) \/ CommitCreate(w)

AskClerk(w) ==
  \/ Generate(w) \/ RefuseGenerate(w)
  \/ \E c \in Checks : \/ CreateOne(w, c)
                       \/ \E target \in ReviewStatuses \ {"pending"} : LoadRow(w, c, target)

Recommend(w) ==
  /\ AskClerk(w) \/ ServeClerk(w) \/ ClerkCrash(w)
  /\ UNCHANGED analysisVars

PipelineNext == Analyse \/ DeleteAll \/ \E w \in Clerks : Recommend(w)

PipelineSpec == PipelineInit /\ [][PipelineNext]_pipelineVars

-----------------------------------------------------------------------------
(* Properties                                                              *)

(* Every column, request and outcome holds one of the values it can have. *)
PipelineTypeOK ==
  /\ TypeOK
  /\ recommended \in [Checks -> [status : ReviewStatuses \union {"absent"},
                                 reviewed : BOOLEAN, implemented : BOOLEAN]]
  /\ audited \in Nat
  /\ clerk \in [Clerks -> [pc : ClerkPCs, op : {"generate", "create", "transition"},
                           todo : SUBSET Checks, inserted : SUBSET Checks,
                           seen : ReviewStatuses, target : ReviewStatuses \ {"pending"}]]
  /\ generated \subseteq Clerks

(* Recommendations rest on what their analysis found: none is stored       *)
(* before it completed, and none outlives it.                              *)
RecommendationsAreFounded == Recommendations \subseteq Found

(* A generation that succeeded covered every finding, with its own rows or *)
(* with those of the generations and creations it raced with, and no later *)
(* failure or rollback takes one of them away.                             *)
GenerationCovers ==
  generated # {} => Found \subseteq Recommendations

(* The audit trail accounts for every stored recommendation exactly once,  *)
(* whatever was rolled back on the way.                                    *)
AuditAccountsForRows ==
  status # "deleted" => audited = Cardinality(Recommendations)

(* Open transactions never wait for each other in a circle: the identities *)
(* are inserted in one order.                                              *)
Waits(w, v) ==
  /\ ClerkAt(w, "inserting")
  /\ v # w
  /\ NextFinding(w) \cap clerk[v].inserted # {}
NoCircularWait ==
  \A group \in (SUBSET Clerks) \ {{}} : \E w \in group : \A v \in group : ~Waits(w, v)

(* The columns of a decision are set exactly from that decision on. *)
DecisionsAreDated ==
  \A c \in Checks :
    /\ recommended[c].reviewed <=> recommended[c].status \notin {"absent", "pending"}
    /\ recommended[c].implemented <=> recommended[c].status = "implemented"

(* A recommendation is reviewed before it is decided upon and decided upon *)
(* once: an acceptance and a rejection never overwrite each other, nor     *)
(* does a repeated or late request take a step back.                       *)
ReviewOrder ==
  [][\A c \in Checks :
       LET old == recommended[c].status
           new == recommended'[c].status
       IN new # old => \/ old = "absent" /\ new = "pending"
                       \/ new \in AllowedTargets(old)
                       \/ new = "absent" /\ run' = "gone"]_recommendationVars
=============================================================================
