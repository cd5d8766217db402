------------------------ MODULE RecommendationProofs ------------------------
(***************************************************************************)
(* Proofs about the recommendation service together with the analysis it   *)
(* reads from, for any number of workers, clerks, checks and results.      *)
(***************************************************************************)
EXTENDS Recommendation, RootCauseProofs, FiniteSetTheorems, WellFoundedInduction

RowRecords == [status : ReviewStatuses \union {"absent"},
               reviewed : BOOLEAN, implemented : BOOLEAN]
ClerkRecords == [pc : ClerkPCs, op : {"generate", "create", "transition"},
                 todo : SUBSET Checks, inserted : SUBSET Checks,
                 seen : ReviewStatuses, target : ReviewStatuses \ {"pending"}]

-----------------------------------------------------------------------------
(* The analysis within the pipeline                                        *)

LEMMA AnalysisStep == [PipelineNext]_pipelineVars => [Next]_analysisVars
  BY DEF PipelineNext, Analyse, DeleteAll, Recommend, Next, pipelineVars

(* The pipeline does not disturb its analysis, whose theorems therefore    *)
(* hold of it.                                                             *)
THEOREM PipelineRunsAnalysis == PipelineSpec => Spec
<1>1. PipelineInit => Init
  BY DEF PipelineInit
<1>2. QED
  BY <1>1, AnalysisStep, PTL DEF PipelineSpec, Spec

-----------------------------------------------------------------------------
(* Types                                                                   *)

LEMMA FreeTyped == Free \in ClerkRecords
  BY DEF Free, ClerkRecords, ClerkPCs, ReviewStatuses

LEMMA ClerkTypeStep ==
  ASSUME PipelineTypeOK, [PipelineNext]_pipelineVars
  PROVE  PipelineTypeOK'
<1> USE DEF PipelineTypeOK, RowRecords, ClerkRecords
<1>1. TypeOK'
  BY AnalysisStep, TypeStep
<1>2. \A w \in Clerks : Cardinality(clerk[w].inserted) \in Nat
  BY RootCauseAssumption, FS_Subset, FS_CardinalityType DEF RootCauseAssumption
<1>3. CASE UNCHANGED recommendationVars
  BY <1>1, <1>3 DEF recommendationVars, store
<1>4. CASE DeleteAll
  BY <1>1, <1>4 DEF DeleteAll, NoRow
<1>5. ASSUME NEW w \in Clerks, AskClerk(w) PROVE PipelineTypeOK'
  <2>1. PICK r \in ClerkRecords : Begin(w, r)
    <3> USE DEF ClerkPCs, ReviewStatuses, Free
    <3>1. CASE Generate(w)
      <4>1. Found \subseteq Checks
        BY DEF Found, TypeOK
      <4>2. QED
        BY <3>1, <4>1 DEF Generate
    <3>2. CASE RefuseGenerate(w)
      BY <3>2 DEF RefuseGenerate
    <3>3. ASSUME NEW c \in Checks, CreateOne(w, c)
          PROVE  \E r \in ClerkRecords : Begin(w, r)
      BY <3>3 DEF CreateOne
    <3>4. ASSUME NEW c \in Checks, NEW target \in ReviewStatuses \ {"pending"},
                 LoadRow(w, c, target)
          PROVE  \E r \in ClerkRecords : Begin(w, r)
      <4>1. recommended[c].status \in ReviewStatuses
        BY <3>4 DEF LoadRow
      <4>2. QED
        BY <3>4, <4>1 DEF LoadRow
    <3>5. QED
      BY <1>5, <3>1, <3>2, <3>3, <3>4 DEF AskClerk
  <2>2. QED
    BY <1>1, <2>1 DEF Begin, store
<1>6. ASSUME NEW w \in Clerks, ServeClerk(w) \/ ClerkCrash(w) PROVE PipelineTypeOK'
  <2> USE <1>1, FreeTyped DEF ClerkPCs, store, Finish
  <2>1. ASSUME NEW c \in Checks, SkipExisting(w, c) \/ FindMissing(w, c) \/ InsertRow(w, c)
        PROVE  PipelineTypeOK'
    BY <2>1 DEF SkipExisting, FindMissing, InsertRow
  <2>2. ASSUME NEW c \in Checks, InsertionFails(w, c) PROVE PipelineTypeOK'
    BY <2>2 DEF InsertionFails
  <2>3. ASSUME NEW c \in Checks, ApplyTransition(w, c) PROVE PipelineTypeOK'
    BY <2>3 DEF ApplyTransition
  <2>4. ASSUME NEW c \in Checks, RefuseTransition(w, c) PROVE PipelineTypeOK'
    BY <2>4 DEF RefuseTransition
  <2>5. CASE GenerationError(w)
    BY <2>5 DEF GenerationError
  <2>6. CASE RecordFailure(w) \/ ClerkCrash(w)
    BY <2>6 DEF RecordFailure, ClerkCrash
  <2>7. CASE CommitGeneration(w) \/ CommitCreate(w)
    <3>1. clerk' = [clerk EXCEPT ![w] = Free] /\ generated' \subseteq Clerks
      BY <2>7 DEF CommitGeneration, CommitCreate
    <3>2. \A c \in Checks : recommended'[c] \in {NewRow, recommended[c]}
      BY <2>7 DEF CommitGeneration, CommitCreate
    <3>3. recommended' = [c \in Checks |-> recommended'[c]]
      BY <2>7 DEF CommitGeneration, CommitCreate
    <3>4. NewRow \in RowRecords
      BY DEF NewRow, ReviewStatuses
    <3>5. audited' \in Nat
      BY <2>7, <1>2 DEF CommitGeneration, CommitCreate
    <3>6. QED
      BY <3>1, <3>2, <3>3, <3>4, <3>5
  <2>8. QED
    BY <1>6, <2>1, <2>2, <2>3, <2>4, <2>5, <2>6, <2>7 DEF ServeClerk
<1>7. QED
  BY <1>3, <1>4, <1>5, <1>6 DEF PipelineNext, Analyse, Recommend, pipelineVars

(* Every reachable state of the pipeline is well typed. *)
THEOREM PipelineTyping == PipelineSpec => []PipelineTypeOK
<1>1. PipelineInit => PipelineTypeOK
  <2>1. PipelineInit => TypeOK
    <3>1. Idle \in Requests /\ NoReply \in Replies
      BY DEF Idle, NoReply, Requests, Replies, Codes, PCs, Statuses
    <3>2. QED
      BY <3>1 DEF PipelineInit, Init, TypeOK, Requests, Replies, Codes, Phases
  <2>2. QED
    BY <2>1, FreeTyped DEF PipelineInit, PipelineTypeOK, ClerkRecords, NoRow
<1>2. QED
  BY <1>1, ClerkTypeStep, PTL DEF PipelineSpec

-----------------------------------------------------------------------------
(* Open transactions                                                       *)

TransactionRows(r) ==
  /\ r.pc \in {"free", "loaded", "failing"} => r.inserted = {}
  /\ \A c \in r.inserted, d \in r.todo : c < d

(* A generation that is under way. *)
GeneratingRow(r) == r.pc = "generating" \/ (r.pc = "inserting" /\ r.op # "create")
Treats(r) ==
  GeneratingRow(r) => Found \subseteq r.todo \union r.inserted \union Recommendations

(* What a clerk's open transaction has inserted rests on a finding, is not *)
(* stored yet, is in no other transaction and precedes what is left to do; *)
(* and a generation has treated every finding that it does not have before *)
(* it.                                                                     *)
TransactionInv ==
  /\ \A w \in Clerks :
       /\ clerk[w].inserted \subseteq Found
       /\ clerk[w].inserted \cap Recommendations = {}
       /\ TransactionRows(clerk[w])
       /\ Treats(clerk[w])
  /\ \A w, v \in Clerks : w # v => clerk[w].inserted \cap clerk[v].inserted = {}

(* A generation, under way or successful, had an analysis that had ended.  *)
GenerationInv ==
  generated # {} \/ (\E w \in Clerks : GeneratingRow(clerk[w])) =>
    status \in {"completed", "deleted"}

Commits(w) == CommitGeneration(w) \/ CommitCreate(w)

(* A commit stores what its transaction inserted. *)
LEMMA Committed ==
  ASSUME PipelineTypeOK, NEW w \in Clerks, Commits(w)
  PROVE  /\ Recommendations' = Recommendations \union clerk[w].inserted
         /\ clerk' = [clerk EXCEPT ![w] = Free]
         /\ audited' = audited + Cardinality(clerk[w].inserted)
         /\ clerk[w].inserted \subseteq Checks
<1>1. \A c \in Checks :
        recommended'[c].status # "absent" <=>
          c \in clerk[w].inserted \/ recommended[c].status # "absent"
  BY DEF Commits, CommitGeneration, CommitCreate, NewRow
<1>2. clerk[w].inserted \subseteq Checks
  BY DEF PipelineTypeOK
<1>3. QED
  BY <1>1, <1>2 DEF Commits, CommitGeneration, CommitCreate, Finish, Recommendations

(* An analysis that gains its findings was running. *)
LEMMA AnalysisGains ==
  ASSUME TypeOK, RowInv, Analyse
  PROVE  UNCHANGED findings \/ (findings = {} /\ status = "running")
<1>1. ASSUME NEW w \in Workers, Serve(w)
      PROVE  UNCHANGED findings \/ (findings = {} /\ status = "running")
  BY <1>1 DEF Serve, Insert, InsertAnother, InsertOrphan, Start, RefuseStart, Evaluate, Complete,
              LoseCompletion, Report, ReportCurrent, ReportMissing, ExecutionError, MarkFailed,
              MarkFailedTooLate, Cancel, RefuseCancel, Swap, RowInv, row
<1>2. QED
  BY <1>1 DEF Analyse, FinishDiagnostics, Request, CheckRun, RefuseCreate, Missing, Load, Crash, row

(* The steps of clerks other than an insertion into the open transaction   *)
(* and a commit: what the clerk's row becomes.                             *)
Settles(w, r) ==
  /\ clerk' = [clerk EXCEPT ![w] = r]
  /\ r.inserted \in {{}, clerk[w].inserted}
  /\ r.pc \in {"free", "loaded", "failing"} => r.inserted = {}
  /\ r.todo \subseteq clerk[w].todo \/ r.inserted = {}
  /\ Treats(r)

LEMMA ClerkSettles ==
  ASSUME PipelineTypeOK, TransactionInv, NEW w \in Clerks,
         AskClerk(w) \/ ServeClerk(w) \/ ClerkCrash(w)
  PROVE  \/ \E c \in Checks : InsertRow(w, c)
         \/ Commits(w)
         \/ \E r \in ClerkRecords : Settles(w, r)
<1> DEFINE Goal == \E r \in ClerkRecords : Settles(w, r)
<1> USE DEF TransactionInv, TransactionRows
<1>1. clerk[w] \in ClerkRecords
  BY DEF PipelineTypeOK, ClerkRecords
<1>2. CASE clerk' = [clerk EXCEPT ![w] = Free]
  BY <1>2, FreeTyped DEF Settles, Free, Treats, GeneratingRow
<1>3. ASSUME NEW r \in ClerkRecords, Begin(w, r), r.inserted = {}, Treats(r) PROVE Goal
  BY <1>3 DEF Begin, Settles
<1>4. CASE Generate(w)
  <2> DEFINE r == [Free EXCEPT !.pc = "generating", !.todo = Found]
  <2>1. Found \subseteq Checks
    BY DEF PipelineTypeOK, TypeOK, Found
  <2>2. r \in ClerkRecords /\ r.inserted = {} /\ r.todo = Found
    BY <2>1, FreeTyped DEF ClerkRecords, Free, ClerkPCs
  <2>3. Begin(w, r)
    BY <1>4 DEF Generate
  <2>4. QED
    BY <1>3, <2>2, <2>3 DEF Treats
<1>5. ASSUME NEW c \in Checks, CreateOne(w, c) PROVE Goal
  <2> DEFINE r == [Free EXCEPT !.pc = "inserting", !.op = "create", !.todo = {c}]
  <2>1. r \in ClerkRecords /\ r.inserted = {} /\ ~GeneratingRow(r)
    BY FreeTyped DEF ClerkRecords, Free, ClerkPCs, GeneratingRow
  <2>2. QED
    BY <1>3, <1>5, <2>1 DEF CreateOne, Treats
<1>6. ASSUME NEW c \in Checks, NEW target \in ReviewStatuses \ {"pending"}, LoadRow(w, c, target)
      PROVE  Goal
  <2> DEFINE r == [Free EXCEPT !.pc = "loaded", !.op = "transition", !.todo = {c},
                               !.seen = recommended[c].status, !.target = target]
  <2>1. recommended[c].status \in ReviewStatuses
    BY <1>6 DEF LoadRow, PipelineTypeOK
  <2>2. r \in ClerkRecords /\ r.inserted = {} /\ ~GeneratingRow(r)
    BY <2>1, FreeTyped DEF ClerkRecords, Free, ClerkPCs, GeneratingRow
  <2>3. QED
    BY <1>3, <1>6, <2>2 DEF LoadRow, Treats
<1>7. ASSUME NEW c \in Checks, SkipExisting(w, c) PROVE Goal
  <2> DEFINE r == [clerk[w] EXCEPT !.todo = @ \ {c}]
  <2>1. r \in ClerkRecords /\ clerk' = [clerk EXCEPT ![w] = r]
    BY <1>1, <1>7 DEF SkipExisting, ClerkRecords
  <2>2. r.pc = clerk[w].pc /\ r.op = clerk[w].op /\ r.inserted = clerk[w].inserted
          /\ r.todo = clerk[w].todo \ {c}
    BY <1>1 DEF ClerkRecords
  <2>3. Treats(r)
    BY <1>7, <2>2 DEF Treats, GeneratingRow, SkipExisting, Recommendations
  <2>4. QED
    BY <2>1, <2>2, <2>3 DEF Settles
<1>8. ASSUME NEW c \in Checks, FindMissing(w, c) PROVE Goal
  <2> DEFINE r == [clerk[w] EXCEPT !.pc = "inserting"]
  <2>1. r \in ClerkRecords /\ clerk' = [clerk EXCEPT ![w] = r]
    BY <1>1, <1>8 DEF FindMissing, ClerkRecords, ClerkPCs
  <2>2. r.pc = "inserting" /\ r.inserted = clerk[w].inserted /\ r.todo = clerk[w].todo
    BY <1>1 DEF ClerkRecords
  <2>3. Treats(r)
    BY <1>8, <2>2 DEF Treats, GeneratingRow, FindMissing, ClerkAt
  <2>4. QED
    BY <2>1, <2>2, <2>3 DEF Settles
<1>9. CASE clerk' = [clerk EXCEPT ![w].pc = "failing", ![w].inserted = {}]
  <2> DEFINE r == [clerk[w] EXCEPT !.pc = "failing", !.inserted = {}]
  <2>1. r \in ClerkRecords /\ clerk' = [clerk EXCEPT ![w] = r] /\ r.inserted = {} /\ r.pc = "failing"
    BY <1>1, <1>9 DEF ClerkRecords, ClerkPCs
  <2>2. QED
    BY <2>1 DEF Settles, Treats, GeneratingRow
<1>10. QED
  BY <1>2, <1>4, <1>5, <1>6, <1>7, <1>8, <1>9
  DEF AskClerk, ServeClerk, ClerkCrash, RefuseGenerate, Begin, InsertionFails, GenerationError,
      RecordFailure, ApplyTransition, RefuseTransition, Finish, Commits

(* Other steps than commits store, report and forget nothing. *)
LEMMA StoreKept ==
  ASSUME PipelineTypeOK, NEW w \in Clerks, AskClerk(w) \/ ServeClerk(w) \/ ClerkCrash(w)
  PROVE  \/ Commits(w)
         \/ Recommendations' = Recommendations /\ audited' = audited /\ generated' \subseteq generated
<1>1. ASSUME NEW c \in Checks, ApplyTransition(w, c)
      PROVE  Recommendations' = Recommendations /\ audited' = audited /\ generated' \subseteq generated
  <2>1. clerk[w].target # "absent" /\ recommended[c].status # "absent"
    BY <1>1 DEF ApplyTransition, PipelineTypeOK, ReviewStatuses
  <2>2. \A d \in Checks : recommended'[d].status # "absent" <=> recommended[d].status # "absent"
    BY <1>1, <2>1 DEF ApplyTransition, PipelineTypeOK
  <2>3. QED
    BY <1>1, <2>2 DEF ApplyTransition, Finish, Recommendations
<1>2. CASE UNCHANGED store /\ generated' \subseteq generated
  BY <1>2 DEF store, Recommendations
<1>3. QED
  BY <1>1, <1>2
  DEF AskClerk, ServeClerk, ClerkCrash, Generate, RefuseGenerate, CreateOne, LoadRow, Begin,
      SkipExisting, FindMissing, InsertRow, InsertionFails, GenerationError, RecordFailure,
      RefuseTransition, Finish, Commits

LEMMA DeletionClears ==
  ASSUME PipelineTypeOK, DeleteAll
  PROVE  /\ Recommendations' = {} /\ Found' = {}
         /\ \A w \in Clerks : clerk[w].inserted = {}
  BY DEF PipelineTypeOK, DeleteAll, DeleteDevice, NoRow, Recommendations, Found, Holders

LEMMA TransactionStep ==
  ASSUME PipelineTypeOK, RowInv, TransactionInv, GenerationInv, [PipelineNext]_pipelineVars
  PROVE  TransactionInv'
<1> USE DEF TransactionInv, TransactionRows, Treats
<1>1. CASE UNCHANGED pipelineVars
  BY <1>1 DEF pipelineVars, analysisVars, row, recommendationVars, store, Found, Recommendations
<1>2. CASE DeleteAll
  BY <1>2, DeletionClears DEF DeleteAll
<1>3. CASE Analyse
  <2>1. UNCHANGED <<clerk, Recommendations>>
    BY <1>3 DEF Analyse, recommendationVars, store, Recommendations
  <2>2. CASE UNCHANGED findings
    BY <2>1, <2>2 DEF Found
  <2>3. CASE findings = {} /\ status = "running"
    <3>1. Found = {} /\ \A w \in Clerks : ~GeneratingRow(clerk[w])
      BY <2>3 DEF Found, GenerationInv
    <3>2. QED
      BY <2>1, <3>1 DEF GeneratingRow
  <2>4. QED
    BY <1>3, <2>2, <2>3, AnalysisGains DEF PipelineTypeOK
<1>4. ASSUME NEW w \in Clerks, AskClerk(w) \/ ServeClerk(w) \/ ClerkCrash(w), UNCHANGED analysisVars
      PROVE  TransactionInv'
  <2>1. Found' = Found
    BY <1>4 DEF analysisVars, row, Found
  <2>2. CASE Commits(w)
    <3>1. clerk'[w] = Free /\ \A v \in Clerks \ {w} : clerk'[v] = clerk[v]
      BY <2>2, Committed DEF PipelineTypeOK
    <3>2. Recommendations' = Recommendations \union clerk[w].inserted
      BY <2>2, Committed
    <3>3. QED
      BY <2>1, <3>1, <3>2 DEF Free, GeneratingRow
  <2>3. ASSUME NEW c \in Checks, InsertRow(w, c) PROVE TransactionInv'
    <3>1. /\ clerk'[w].inserted = clerk[w].inserted \union {c}
          /\ clerk'[w].todo = clerk[w].todo \ {c}
          /\ clerk'[w].op = clerk[w].op
          /\ clerk'[w].pc = IF clerk[w].op = "create" THEN "created" ELSE "generating"
          /\ \A v \in Clerks \ {w} : clerk'[v] = clerk[v]
      BY <2>3 DEF InsertRow, PipelineTypeOK
    <3>2. /\ c \in Found /\ c \notin Recommendations
          /\ \A v \in Clerks : c \notin clerk[v].inserted
      BY <2>3 DEF InsertRow, Recommendations, Holders
    <3>3. \A d \in clerk[w].todo \ {c} : c < d
      <4>1. \A d \in clerk[w].todo : c <= d
        BY <2>3 DEF InsertRow, NextFinding
      <4>2. clerk[w].todo \subseteq Nat /\ c \in Nat
        BY RootCauseAssumption DEF RootCauseAssumption, PipelineTypeOK
      <4>3. QED
        BY <4>1, <4>2
    <3>4. Recommendations' = Recommendations
      BY <2>3 DEF InsertRow, store, Recommendations
    <3>5. GeneratingRow(clerk'[w]) => GeneratingRow(clerk[w])
      BY <2>3, <3>1 DEF InsertRow, ClerkAt, GeneratingRow
    <3>6. QED
      BY <2>1, <3>1, <3>2, <3>3, <3>4, <3>5
  <2>4. ASSUME NEW r \in ClerkRecords, Settles(w, r), ~Commits(w) PROVE TransactionInv'
    <3>1. clerk'[w] = r /\ \A v \in Clerks \ {w} : clerk'[v] = clerk[v]
      BY <2>4 DEF Settles, PipelineTypeOK
    <3>2. Recommendations' = Recommendations
      BY <1>4, <2>4, StoreKept
    <3>3. QED
      BY <2>1, <2>4, <3>1, <3>2 DEF Settles
  <2>5. QED
    BY <1>4, <2>2, <2>3, <2>4, ClerkSettles
<1>5. QED
  BY <1>1, <1>2, <1>3, <1>4 DEF PipelineNext, Recommend

LEMMA GenerationStep ==
  ASSUME PipelineTypeOK, RowInv, TransactionInv, GenerationInv, [PipelineNext]_pipelineVars
  PROVE  GenerationInv'
<1> USE DEF GenerationInv
<1>1. status \in {"completed", "deleted"} => status' \in {"completed", "deleted"}
  BY AnalysisStep, Forward DEF PipelineTypeOK, Terminal
<1>2. CASE UNCHANGED <<clerk, generated>>
  BY <1>1, <1>2
<1>3. ASSUME NEW w \in Clerks, AskClerk(w) \/ ServeClerk(w) \/ ClerkCrash(w), UNCHANGED analysisVars
      PROVE  GenerationInv'
  <2>1. \A v \in Clerks \ {w} : clerk'[v] = clerk[v]
    BY <1>3, ClerkSettles, Committed DEF InsertRow, Settles, PipelineTypeOK
  <2>2. CASE Generate(w)
    <3>1. status = "completed"
      BY <2>2 DEF Generate, RowInv
    <3>2. QED
      BY <1>1, <3>1
  <2>3. CASE ~Generate(w)
    <3>1. GeneratingRow(clerk'[w]) => GeneratingRow(clerk[w])
      <4> USE DEF PipelineTypeOK, GeneratingRow, ClerkAt
      <4>1. CASE AskClerk(w)
        <5>1. CASE RefuseGenerate(w)
          BY <5>1 DEF RefuseGenerate, Begin, Free
        <5>2. ASSUME NEW c \in Checks, CreateOne(w, c)
              PROVE  ~GeneratingRow(clerk'[w])
          <6>1. clerk'[w].pc = "inserting" /\ clerk'[w].op = "create"
            BY <5>2 DEF CreateOne, Begin, Free
          <6>2. QED
            BY <6>1
        <5>3. ASSUME NEW c \in Checks, NEW target \in ReviewStatuses \ {"pending"},
                     LoadRow(w, c, target)
              PROVE  ~GeneratingRow(clerk'[w])
          <6>1. clerk'[w].pc = "loaded"
            BY <5>3 DEF LoadRow, Begin, Free
          <6>2. QED
            BY <6>1
        <5>4. QED
          BY <2>3, <4>1, <5>1, <5>2, <5>3 DEF AskClerk
      <4>2. ASSUME NEW c \in Checks, SkipExisting(w, c) \/ FindMissing(w, c) \/ InsertRow(w, c)
            PROVE  GeneratingRow(clerk'[w]) => GeneratingRow(clerk[w])
        BY <4>2 DEF SkipExisting, FindMissing, InsertRow
      <4>3. CASE clerk'[w].pc \in {"free", "failing"}
        BY <4>3
      <4>4. CASE ClerkCrash(w) \/ Commits(w) \/ RecordFailure(w) \/ GenerationError(w)
        <5>1. clerk'[w].pc \in {"free", "failing"}
          BY <4>4 DEF ClerkCrash, Commits, CommitGeneration, CommitCreate, RecordFailure,
                      GenerationError, Finish, Free
        <5>2. QED
          BY <4>3, <5>1
      <4>5. ASSUME NEW c \in Checks,
                   InsertionFails(w, c) \/ ApplyTransition(w, c) \/ RefuseTransition(w, c)
            PROVE  clerk'[w].pc \in {"free", "failing"}
        BY <4>5 DEF InsertionFails, ApplyTransition, RefuseTransition, Finish, Free
      <4>6. QED
        BY <1>3, <4>1, <4>2, <4>3, <4>4, <4>5 DEF ServeClerk, Commits
    <3>2. generated' \subseteq generated \/ GeneratingRow(clerk[w])
      BY <1>3, StoreKept
      DEF Commits, CommitGeneration, CommitCreate, Finish, ClerkAt, GeneratingRow
    <3>3. QED
      BY <1>1, <2>1, <3>1, <3>2
  <2>4. QED
    BY <2>2, <2>3
<1>4. QED
  BY <1>2, <1>3
  DEF PipelineNext, Recommend, Analyse, DeleteAll, pipelineVars, recommendationVars

PipelineInv == RowInv /\ TransactionInv /\ GenerationInv

LEMMA PipelineInvariant == PipelineSpec => []PipelineInv
<1>1. PipelineInit => TransactionInv /\ GenerationInv
  BY DEF PipelineInit, TransactionInv, TransactionRows, Treats, GenerationInv, GeneratingRow, Free
<1>2. PipelineTypeOK /\ PipelineInv /\ [PipelineNext]_pipelineVars => (TransactionInv /\ GenerationInv)'
  BY TransactionStep, GenerationStep DEF PipelineInv
<1>3. QED
  BY <1>1, <1>2, PipelineTyping, PipelineRunsAnalysis, RowInvariant, PTL DEF PipelineSpec, PipelineInv

-----------------------------------------------------------------------------
(* Recommendations                                                         *)

(* No recommendation is stored without a finding of the analysis, whatever *)
(* completions, generations and deletions overlap.                         *)
THEOREM Founded == PipelineSpec => []RecommendationsAreFounded
<1>1. PipelineInit => RecommendationsAreFounded
  BY DEF PipelineInit, NoRow, RecommendationsAreFounded, Recommendations
<1>2. ASSUME PipelineTypeOK, PipelineInv, RecommendationsAreFounded, [PipelineNext]_pipelineVars
      PROVE  RecommendationsAreFounded'
  <2> USE <1>2 DEF RecommendationsAreFounded
  <2>1. CASE DeleteAll
    BY <2>1, DeletionClears
  <2>2. CASE Analyse
    <3>1. Recommendations' = Recommendations
      BY <2>2 DEF Analyse, recommendationVars, store, Recommendations
    <3>2. Found \subseteq Found'
      BY <2>2, AnalysisGains DEF PipelineTypeOK, PipelineInv, Found
    <3>3. QED
      BY <3>1, <3>2
  <2>3. ASSUME NEW w \in Clerks, AskClerk(w) \/ ServeClerk(w) \/ ClerkCrash(w),
               UNCHANGED analysisVars
        PROVE  RecommendationsAreFounded'
    <3>1. Found' = Found /\ clerk[w].inserted \subseteq Found
      BY <2>3 DEF analysisVars, row, Found, PipelineInv, TransactionInv
    <3>2. QED
      BY <2>3, <3>1, StoreKept, Committed
  <2>4. CASE UNCHANGED pipelineVars
    BY <2>4 DEF pipelineVars, analysisVars, row, recommendationVars, store, Found, Recommendations
  <2>5. QED
    BY <2>1, <2>2, <2>3, <2>4 DEF PipelineNext, Recommend
<1>3. QED
  BY <1>1, <1>2, PipelineTyping, PipelineInvariant, PTL DEF PipelineSpec

(* Every generation that succeeded left every finding covered, with its    *)
(* own recommendations or those of the requests it raced with.             *)
THEOREM GenerationsCover == PipelineSpec => []GenerationCovers
<1>1. PipelineInit => GenerationCovers
  BY DEF PipelineInit, GenerationCovers
<1>2. ASSUME PipelineTypeOK, PipelineInv, GenerationCovers, [PipelineNext]_pipelineVars
      PROVE  GenerationCovers'
  <2> USE <1>2 DEF GenerationCovers
  <2>1. CASE DeleteAll
    BY <2>1, DeletionClears
  <2>2. CASE Analyse
    <3>1. UNCHANGED <<Recommendations, generated>>
      BY <2>2 DEF Analyse, recommendationVars, store, Recommendations
    <3>2. generated # {} => Found' = Found
      BY <2>2, AnalysisGains DEF PipelineTypeOK, PipelineInv, GenerationInv, Found
    <3>3. QED
      BY <3>1, <3>2
  <2>3. ASSUME NEW w \in Clerks, AskClerk(w) \/ ServeClerk(w) \/ ClerkCrash(w),
               UNCHANGED analysisVars
        PROVE  GenerationCovers'
    <3>1. Found' = Found
      BY <2>3 DEF analysisVars, row, Found
    <3>2. CASE Recommendations' = Recommendations /\ generated' \subseteq generated
      BY <3>1, <3>2
    <3>3. CASE CommitCreate(w)
      BY <3>1, <3>3, Committed DEF Commits, CommitCreate, Finish
    <3>4. CASE CommitGeneration(w)
      <4>1. Found \subseteq clerk[w].inserted \union Recommendations
        BY <3>4
        DEF CommitGeneration, ClerkAt, PipelineInv, TransactionInv, Treats, GeneratingRow
      <4>2. QED
        BY <3>1, <3>4, <4>1, Committed DEF Commits
    <3>5. QED
      BY <2>3, <3>2, <3>3, <3>4, StoreKept DEF Commits
  <2>4. CASE UNCHANGED pipelineVars
    BY <2>4 DEF pipelineVars, analysisVars, row, recommendationVars, store, Found, Recommendations
  <2>5. QED
    BY <2>1, <2>2, <2>3, <2>4 DEF PipelineNext, Recommend
<1>3. QED
  BY <1>1, <1>2, PipelineTyping, PipelineInvariant, PTL DEF PipelineSpec

(* The audit events account for every stored recommendation once: what a   *)
(* commit adds to both is in no other transaction and not stored before.   *)
THEOREM AuditAccounts == PipelineSpec => []AuditAccountsForRows
<1>1. PipelineInit => AuditAccountsForRows
  <2>1. PipelineInit => Recommendations = {} /\ audited = 0
    BY DEF PipelineInit, NoRow, Recommendations
  <2>2. QED
    BY <2>1, FS_EmptySet DEF AuditAccountsForRows
<1>2. ASSUME PipelineTypeOK, PipelineInv, RecommendationsAreFounded, AuditAccountsForRows,
             [PipelineNext]_pipelineVars
      PROVE  AuditAccountsForRows'
  <2> USE <1>2 DEF AuditAccountsForRows
  <2>1. status' # "deleted" => status # "deleted"
    BY AnalysisStep, Forward DEF PipelineTypeOK
  <2>2. CASE DeleteAll
    <3>1. CASE status = "absent"
      <4>1. Recommendations = {} /\ Recommendations' = {}
        BY <2>2, <3>1, DeletionClears DEF RecommendationsAreFounded, Found, PipelineInv, RowInv
      <4>2. QED
        BY <2>2, <3>1, <4>1 DEF DeleteAll
    <3>2. CASE status # "absent"
      BY <2>2, <3>2 DEF DeleteAll, DeleteDevice, PipelineTypeOK, TypeOK, Phases
    <3>3. QED
      BY <3>1, <3>2
  <2>3. CASE UNCHANGED <<Recommendations, audited>>
    BY <2>1, <2>3
  <2>4. ASSUME NEW w \in Clerks, Commits(w) PROVE AuditAccountsForRows'
    <3>1. /\ clerk[w].inserted \cap Recommendations = {}
          /\ IsFiniteSet(Recommendations) /\ IsFiniteSet(clerk[w].inserted)
      BY <2>4, Committed, FS_Subset, RootCauseAssumption
      DEF PipelineInv, TransactionInv, RootCauseAssumption, Recommendations
    <3>2. Cardinality(Recommendations \union clerk[w].inserted) =
            Cardinality(Recommendations) + Cardinality(clerk[w].inserted)
      <4>1. Recommendations \cap clerk[w].inserted = {}
        BY <3>1
      <4>2. Cardinality(Recommendations) \in Nat /\ Cardinality(clerk[w].inserted) \in Nat
        BY <3>1, FS_CardinalityType
      <4>3. QED
        BY <3>1, <4>1, <4>2, FS_Union, FS_EmptySet
    <3>3. QED
      BY <2>1, <2>4, <3>2, Committed
  <2>5. QED
    <3>1. CASE Analyse \/ UNCHANGED pipelineVars
      BY <2>3, <3>1 DEF Analyse, pipelineVars, recommendationVars, store, Recommendations
    <3>2. QED
      BY <2>2, <2>3, <2>4, <3>1, StoreKept DEF PipelineNext, Recommend
<1>3. QED
  BY <1>1, <1>2, PipelineTyping, PipelineInvariant, Founded, PTL DEF PipelineSpec
-----------------------------------------------------------------------------
(* Waiting                                                                 *)

(* Transactions that insert at once never wait for each other in a circle, *)
(* however many they are: who waits turns to an identity below the one its *)
(* holder turns to next.                                                   *)
THEOREM NoDeadlock == PipelineSpec => []NoCircularWait
<1>1. ASSUME PipelineTypeOK, PipelineInv PROVE NoCircularWait
  <2>1. SUFFICES ASSUME NEW group \in (SUBSET Clerks) \ {{}},
                        \A w \in group : \E v \in group : Waits(w, v)
                 PROVE  FALSE
    BY DEF NoCircularWait
  <2> DEFINE M == {c \in Checks : \E w \in group : ClerkAt(w, "inserting") /\ c \in NextFinding(w)}
             Above(c) == {d \in M : c < d}
             Sets == {Above(c) : c \in M}
  <2>2. Checks \subseteq Nat /\ IsFiniteSet(Checks) /\ M \subseteq Checks
    BY RootCauseAssumption DEF RootCauseAssumption
  <2>3. \A w \in Clerks : NextFinding(w) \subseteq Checks
    BY <1>1 DEF PipelineTypeOK, NextFinding
  <2>4. \A c \in M : \E d \in M : c < d
    <3>1. TAKE c \in M
    <3>2. PICK w \in group : ClerkAt(w, "inserting") /\ c \in NextFinding(w)
      OBVIOUS
    <3>3. PICK v \in group : Waits(w, v)
      BY <2>1
    <3>4. NextFinding(w) = {c}
      <4>1. ASSUME NEW d \in NextFinding(w) PROVE d = c
        <5>1. c <= d /\ d <= c
          BY <3>2, <4>1 DEF NextFinding
        <5>2. c \in Nat /\ d \in Nat
          <6>1. w \in Clerks /\ c \in Checks
            OBVIOUS
          <6>2. d \in Checks
            BY <2>3, <4>1, <6>1
          <6>3. QED
            BY <2>2, <6>1, <6>2
        <5>3. QED
          BY <5>1, <5>2
      <4>2. QED
        BY <3>2, <4>1
    <3>5. c \in clerk[v].inserted
      BY <3>3, <3>4 DEF Waits
    <3>6. PICK u \in group : Waits(v, u)
      BY <2>1
    <3>7. PICK d \in NextFinding(v) : TRUE
      BY <3>6 DEF Waits
    <3>8. d \in M
      BY <2>3, <3>6, <3>7 DEF Waits
    <3>9. c < d
      BY <1>1, <3>5, <3>7 DEF PipelineInv, TransactionInv, TransactionRows, NextFinding
    <3>10. QED
      BY <3>8, <3>9
  <2>5. M # {}
    <3>1. PICK w \in group : TRUE
      OBVIOUS
    <3>2. PICK v \in group : Waits(w, v)
      BY <2>1
    <3>3. QED
      BY <2>3, <3>2 DEF Waits
  <2>6. PICK c \in M : \A d \in M : ~(Above(d) \subseteq Above(c) /\ Above(d) # Above(c))
    <3>1. IsFiniteSet(M)
      BY <2>2, FS_Subset
    <3>2. Sets \subseteq FiniteSubsetsOf(M)
      <4>1. SUFFICES ASSUME NEW c \in M PROVE Above(c) \in FiniteSubsetsOf(M)
        OBVIOUS
      <4>2. Above(c) \subseteq M
        OBVIOUS
      <4>3. QED
        BY <3>1, <4>2, FS_Subset DEF FiniteSubsetsOf
    <3>3. Sets # {}
      <4>1. PICK c \in M : TRUE
        BY <2>5
      <4>2. Above(c) \in Sets
        OBVIOUS
      <4>3. QED
        BY <4>2
    <3>4. IsWellFoundedOn(StrictSubsetOrdering(M), FiniteSubsetsOf(M))
      BY FS_StrictSubsetOrderingWellFounded
    <3>5. PICK s \in Sets : \A t \in Sets : ~(<<t, s>> \in StrictSubsetOrdering(M))
      BY <3>2, <3>3, <3>4, WFMin
    <3>6. PICK c \in M : s = Above(c)
      OBVIOUS
    <3>7. ASSUME NEW d \in M, Above(d) \subseteq Above(c), Above(d) # Above(c) PROVE FALSE
      <4>1. Above(d) \in Sets /\ Above(d) \in SUBSET M /\ Above(c) \in SUBSET M
        BY <3>7
      <4>2. <<Above(d), Above(c)>> \in StrictSubsetOrdering(M)
        BY <3>7, <4>1 DEF StrictSubsetOrdering
      <4>3. QED
        BY <3>5, <3>6, <4>1, <4>2
    <3>8. QED
      BY <3>7
  <2>7. PICK d \in M : c < d
    BY <2>4
  <2>8. Above(d) \subseteq Above(c) /\ d \in Above(c) /\ d \notin Above(d)
    <3>1. M \subseteq Nat /\ c \in Nat /\ d \in Nat
      BY <2>2
    <3>2. \A e \in M : d < e => c < e
      BY <2>7, <3>1
    <3>3. QED
      BY <2>7, <3>1, <3>2
  <2>9. QED
    BY <2>6, <2>8
<1>2. QED
  BY <1>1, PipelineTyping, PipelineInvariant, PTL

-----------------------------------------------------------------------------
(* Review                                                                  *)

(* A row after a transition. *)
Moved(old, target) ==
  [status |-> target,
   reviewed |-> old.reviewed \/ target \in {"reviewed", "accepted", "rejected"},
   implemented |-> old.implemented \/ target = "implemented"]

RowMoves(old, new) ==
  \/ new = old
  \/ old.status = "absent" /\ new = NewRow
  \/ \E target \in AllowedTargets(old.status) : new = Moved(old, target)

(* What a step of a clerk does to a recommendation. *)
LEMMA ReviewSteps ==
  ASSUME PipelineTypeOK, PipelineInv, NEW w \in Clerks, AskClerk(w) \/ ServeClerk(w) \/ ClerkCrash(w),
         NEW c \in Checks
  PROVE  RowMoves(recommended[c], recommended'[c])
<1>1. CASE Commits(w)
  <2>1. clerk[w].inserted \cap Recommendations = {}
    BY DEF PipelineInv, TransactionInv
  <2>2. recommended'[c] = IF c \in clerk[w].inserted THEN NewRow ELSE recommended[c]
    BY <1>1 DEF Commits, CommitGeneration, CommitCreate
  <2>3. QED
    BY <2>1, <2>2 DEF Recommendations, RowMoves
<1>2. ASSUME NEW d \in Checks, ApplyTransition(w, d)
      PROVE  RowMoves(recommended[c], recommended'[c])
  <2>1. CASE c # d
    BY <1>2, <2>1 DEF ApplyTransition, PipelineTypeOK, RowMoves
  <2>2. CASE c = d
    <3>1. clerk[w].target \in AllowedTargets(recommended[c].status)
      BY <1>2, <2>2 DEF ApplyTransition
    <3>2. recommended'[c] = Moved(recommended[c], clerk[w].target)
      BY <1>2, <2>2 DEF ApplyTransition, PipelineTypeOK, Moved
    <3>3. QED
      BY <3>1, <3>2 DEF RowMoves
  <2>3. QED
    BY <2>1, <2>2
<1>3. CASE UNCHANGED store
  BY <1>3 DEF store, RowMoves
<1>4. CASE AskClerk(w)
  BY <1>3, <1>4 DEF AskClerk, Generate, RefuseGenerate, CreateOne, LoadRow, Begin
<1>5. CASE ServeClerk(w) \/ ClerkCrash(w)
  <2>1. ASSUME NEW d \in Checks, SkipExisting(w, d) \/ FindMissing(w, d) \/ InsertRow(w, d)
                                  \/ InsertionFails(w, d) \/ RefuseTransition(w, d)
        PROVE  UNCHANGED store
    BY <2>1 DEF SkipExisting, FindMissing, InsertRow, InsertionFails, RefuseTransition, store
  <2>2. CASE GenerationError(w) \/ RecordFailure(w) \/ ClerkCrash(w)
    BY <1>3, <2>2 DEF GenerationError, RecordFailure, ClerkCrash, store
  <2>3. QED
    BY <1>1, <1>2, <1>3, <1>5, <2>1, <2>2 DEF ServeClerk, Commits
<1>6. QED
  BY <1>4, <1>5

(* A recommendation is reviewed before it is decided upon and decided upon *)
(* once, whatever reviews overlap.                                         *)
THEOREM Ordered == PipelineSpec => ReviewOrder
<1> DEFINE Order ==
      \A c \in Checks :
        LET old == recommended[c].status
            new == recommended'[c].status
        IN new # old => \/ old = "absent" /\ new = "pending"
                        \/ new \in AllowedTargets(old)
                        \/ new = "absent" /\ run' = "gone"
<1>1. ASSUME PipelineTypeOK, PipelineInv, [PipelineNext]_pipelineVars
      PROVE  [Order]_recommendationVars
  <2>1. CASE UNCHANGED recommended
    BY <2>1
  <2>2. CASE DeleteAll
    <3>1. run' = "gone" /\ \A c \in Checks : recommended'[c].status = "absent"
      BY <2>2 DEF DeleteAll, DeleteDevice, NoRow
    <3>2. QED
      BY <3>1
  <2>3. ASSUME NEW w \in Clerks, AskClerk(w) \/ ServeClerk(w) \/ ClerkCrash(w)
        PROVE  Order
    <3>1. TAKE c \in Checks
    <3>2. CASE recommended'[c] = recommended[c]
      BY <3>2
    <3>3. CASE recommended[c].status = "absent" /\ recommended'[c] = NewRow
      BY <3>3 DEF NewRow
    <3>4. ASSUME NEW target \in AllowedTargets(recommended[c].status),
                 recommended'[c] = Moved(recommended[c], target)
          PROVE  recommended'[c].status \in AllowedTargets(recommended[c].status)
      BY <3>4 DEF Moved
    <3>5. RowMoves(recommended[c], recommended'[c])
      BY <1>1, <2>3, <3>1, ReviewSteps
    <3>6. QED
      BY <3>2, <3>3, <3>4, <3>5 DEF RowMoves
  <2>4. QED
    BY <1>1, <2>1, <2>2, <2>3
    DEF PipelineNext, Recommend, Analyse, pipelineVars, recommendationVars, store
<1>2. [][Order]_recommendationVars <=> ReviewOrder
  BY DEF ReviewOrder
<1>3. QED
  BY <1>1, <1>2, PipelineTyping, PipelineInvariant, PTL DEF PipelineSpec

(* The dates of a recommendation tell which decisions were taken. *)
THEOREM Dated == PipelineSpec => []DecisionsAreDated
<1>1. PipelineInit => DecisionsAreDated
  BY DEF PipelineInit, NoRow, DecisionsAreDated
<1>2. ASSUME PipelineTypeOK, PipelineInv, DecisionsAreDated, [PipelineNext]_pipelineVars
      PROVE  DecisionsAreDated'
  <2> USE <1>2 DEF DecisionsAreDated
  <2>1. CASE UNCHANGED recommended
    BY <2>1
  <2>2. CASE DeleteAll
    BY <2>2 DEF DeleteAll, NoRow
  <2>3. ASSUME NEW w \in Clerks, AskClerk(w) \/ ServeClerk(w) \/ ClerkCrash(w)
        PROVE  DecisionsAreDated'
    <3>1. SUFFICES ASSUME NEW c \in Checks
                   PROVE  /\ recommended'[c].reviewed
                              <=> recommended'[c].status \notin {"absent", "pending"}
                          /\ recommended'[c].implemented <=> recommended'[c].status = "implemented"
      OBVIOUS
    <3>2. CASE recommended'[c] = recommended[c]
      BY <3>2
    <3>3. CASE recommended'[c] = NewRow
      BY <3>3 DEF NewRow
    <3>4. ASSUME NEW target \in AllowedTargets(recommended[c].status),
                 recommended'[c] = Moved(recommended[c], target)
          PROVE  /\ recommended'[c].reviewed
                     <=> recommended'[c].status \notin {"absent", "pending"}
                 /\ recommended'[c].implemented <=> recommended'[c].status = "implemented"
      <4>1. /\ target \in {"reviewed", "accepted", "rejected", "implemented"}
            /\ target = "implemented" <=> recommended[c].status = "accepted"
            /\ recommended[c].status # "implemented"
        BY <3>4 DEF AllowedTargets, PipelineTypeOK, ReviewStatuses
      <4>2. /\ recommended'[c].status = target
            /\ recommended'[c].reviewed =
                 (recommended[c].reviewed \/ target \in {"reviewed", "accepted", "rejected"})
            /\ recommended'[c].implemented = (recommended[c].implemented \/ target = "implemented")
        BY <3>4 DEF Moved
      <4>3. QED
        BY <4>1, <4>2
    <3>5. RowMoves(recommended[c], recommended'[c])
      BY <2>3, <3>1, ReviewSteps
    <3>6. QED
      BY <3>2, <3>3, <3>4, <3>5 DEF RowMoves
  <2>4. QED
    BY <2>1, <2>2, <2>3
    DEF PipelineNext, Recommend, Analyse, pipelineVars, recommendationVars, store
<1>3. QED
  BY <1>1, <1>2, PipelineTyping, PipelineInvariant, PTL DEF PipelineSpec

-----------------------------------------------------------------------------
(* From results to recommendations                                         *)

(* The checks that the run's results fail.                                 *)
FailedChecks == {verdict[r] : r \in Results} \ {Passed}

LEMMA FoundIsFailed ==
  ASSUME PipelineTypeOK, RowInv
  PROVE  Found = IF status = "completed" THEN FailedChecks ELSE {}
<1>1. CASE status = "completed"
  <2>1. findings = RuleFindings
    BY <1>1 DEF RowInv
  <2>2. ASSUME NEW c \in Found PROVE c \in FailedChecks
    <3>1. PICK f \in RuleFindings : f.rule = c
      BY <2>1, <2>2 DEF Found
    <3>2. c \in Checks /\ Evidence(c) # {}
      BY <3>1 DEF RuleFindings
    <3>3. c # Passed
      BY <3>2, RootCauseAssumption DEF RootCauseAssumption
    <3>4. QED
      BY <3>2, <3>3 DEF Evidence, FailedChecks
  <2>3. ASSUME NEW c \in FailedChecks PROVE c \in Found
    <3>1. PICK r \in Results : verdict[r] = c
      BY <2>3 DEF FailedChecks
    <3>2. c \in Checks /\ r \in Evidence(c)
      BY <2>3, <3>1 DEF FailedChecks, PipelineTypeOK, TypeOK, Evidence
    <3>3. [rule |-> c, evidence |-> Evidence(c)] \in RuleFindings
      BY <3>2 DEF RuleFindings
    <3>4. QED
      BY <2>1, <3>3 DEF Found
  <2>4. QED
    BY <1>1, <2>2, <2>3
<1>2. CASE status # "completed"
  BY <1>2 DEF RowInv, Found
<1>3. QED
  BY <1>1, <1>2

(* What is recommended answers a check that a stored result of a completed *)
(* run fails; after a generation that succeeded every failed check has its *)
(* recommendation, for as long as the analysis exists.                     *)
RecommendationsRestOnResults ==
  \A c \in Recommendations : run = "completed" /\ \E r \in Results : verdict[r] = c
RecommendationsMatchResults ==
  generated # {} /\ status = "completed" => Recommendations = FailedChecks

(* The chain from a diagnosis through its analysis to the recommendations  *)
(* is sound and complete, whatever requests overlap along it.              *)
THEOREM DiagnosisReachesRecommendations ==
  PipelineSpec => [](RecommendationsRestOnResults /\ RecommendationsMatchResults)
<1>1. ASSUME PipelineTypeOK, RowInv, RunInv, RecommendationsAreFounded, GenerationCovers
      PROVE  RecommendationsRestOnResults /\ RecommendationsMatchResults
  <2>1. Found = IF status = "completed" THEN FailedChecks ELSE {}
    BY <1>1, FoundIsFailed
  <2>2. Recommendations \subseteq Found
    BY <1>1 DEF RecommendationsAreFounded
  <2>3. ASSUME NEW c \in Recommendations
        PROVE  run = "completed" /\ \E r \in Results : verdict[r] = c
    <3>1. status = "completed" /\ c \in FailedChecks
      BY <2>1, <2>2, <2>3
    <3>2. QED
      BY <1>1, <3>1 DEF RunInv, Statuses, FailedChecks
  <2>4. RecommendationsMatchResults
    BY <1>1, <2>1, <2>2 DEF GenerationCovers, RecommendationsMatchResults
  <2>5. QED
    BY <2>3, <2>4 DEF RecommendationsRestOnResults
<1>2. QED
  BY <1>1, PipelineRunsAnalysis, RowInvariant, RunInvariant, PipelineTyping, Founded,
     GenerationsCover, PTL

-----------------------------------------------------------------------------
(* The end of requests                                                     *)

(* The steps that a clerk's request can still take.                        *)
ClerkSteps(w) ==
  CASE ClerkAt(w, "free")       -> 0
    [] ClerkAt(w, "generating") -> 2 * Cardinality(clerk[w].todo) + 3
    [] ClerkAt(w, "inserting")  -> 2 * Cardinality(clerk[w].todo) + 2
    [] OTHER                    -> 1

(* Each step of a request brings it nearer to its end, and the requests    *)
(* beside it do not take it back.                                          *)
RequestsWindDown ==
  \A w \in Clerks :
    ~ClerkAt(w, "free") =>
      /\ ClerkSteps(w)' <= ClerkSteps(w)
      /\ Recommend(w) => ClerkSteps(w)' < ClerkSteps(w)

LEMMA TodoShrinks ==
  ASSUME NEW T \in SUBSET Checks
  PROVE  /\ Cardinality(T) \in Nat
         /\ \A c \in T : Cardinality(T \ {c}) = Cardinality(T) - 1
<1>1. IsFiniteSet(T)
  BY RootCauseAssumption, FS_Subset DEF RootCauseAssumption
<1>2. QED
  BY <1>1, FS_CardinalityType, FS_RemoveElement

LEMMA ClerkAdvances ==
  ASSUME PipelineTypeOK, NEW w \in Clerks, ~ClerkAt(w, "free"),
         AskClerk(w) \/ ServeClerk(w) \/ ClerkCrash(w)
  PROVE  ClerkSteps(w) \in Nat /\ ClerkSteps(w)' \in Nat /\ ClerkSteps(w)' < ClerkSteps(w)
<1> DEFINE n == Cardinality(clerk[w].todo)
           goal == ClerkSteps(w) \in Nat /\ ClerkSteps(w)' \in Nat /\ ClerkSteps(w)' < ClerkSteps(w)
<1>1. n \in Nat /\ \A c \in clerk[w].todo : Cardinality(clerk[w].todo \ {c}) = n - 1
  BY TodoShrinks DEF PipelineTypeOK
<1>2. ~AskClerk(w)
  <2>1. clerk[w] # Free
    BY DEF Free, ClerkAt
  <2>2. QED
    BY <2>1 DEF AskClerk, Generate, RefuseGenerate, CreateOne, LoadRow, Begin
<1>3. CASE clerk' = [clerk EXCEPT ![w] = Free]
  <2>1. ClerkSteps(w)' = 0
    BY <1>3 DEF ClerkSteps, ClerkAt, Free, PipelineTypeOK
  <2>2. ClerkSteps(w) \in Nat /\ ClerkSteps(w) > 0
    BY <1>1 DEF ClerkSteps, ClerkAt
  <2>3. QED
    BY <2>1, <2>2
<1>4. ASSUME NEW c, SkipExisting(w, c) PROVE goal
  <2>1. ClerkAt(w, "generating") /\ c \in clerk[w].todo
    BY <1>4 DEF SkipExisting, NextFinding
  <2>2. clerk'[w].pc = "generating" /\ clerk'[w].todo = clerk[w].todo \ {c}
    BY <1>4 DEF SkipExisting, ClerkAt, PipelineTypeOK
  <2>3. Cardinality(clerk'[w].todo) = n - 1 /\ n - 1 \in Nat
    BY <2>1, <2>2, TodoShrinks DEF PipelineTypeOK
  <2>4. QED
    BY <1>1, <2>1, <2>2, <2>3 DEF ClerkSteps, ClerkAt
<1>5. ASSUME NEW c, FindMissing(w, c) PROVE goal
  <2>1. clerk'[w].pc = "inserting" /\ clerk'[w].todo = clerk[w].todo /\ ClerkAt(w, "generating")
    BY <1>5 DEF FindMissing, ClerkAt, PipelineTypeOK
  <2>2. QED
    BY <1>1, <2>1 DEF ClerkSteps, ClerkAt
<1>6. ASSUME NEW c, InsertRow(w, c) PROVE goal
  <2>1. ClerkAt(w, "inserting") /\ c \in clerk[w].todo
    BY <1>6 DEF InsertRow, NextFinding
  <2>2. clerk'[w].pc \in {"created", "generating"} /\ clerk'[w].todo = clerk[w].todo \ {c}
    BY <1>6 DEF InsertRow, ClerkAt, PipelineTypeOK
  <2>3. Cardinality(clerk'[w].todo) = n - 1 /\ n - 1 \in Nat
    BY <2>1, <2>2, TodoShrinks DEF PipelineTypeOK
  <2>4. QED
    BY <1>1, <2>1, <2>2, <2>3 DEF ClerkSteps, ClerkAt
<1>7. ASSUME clerk' = [clerk EXCEPT ![w].pc = "failing", ![w].inserted = {}],
             clerk[w].pc \in {"generating", "inserting"}
      PROVE  goal
  <2>1. clerk'[w].pc = "failing"
    BY <1>7 DEF PipelineTypeOK
  <2>2. QED
    BY <1>1, <1>7, <2>1 DEF ClerkSteps, ClerkAt
<1>8. ASSUME NEW c, InsertionFails(w, c) PROVE goal
  BY <1>3, <1>7, <1>8 DEF InsertionFails, Finish, ClerkAt
<1>9. ASSUME NEW c, ApplyTransition(w, c) \/ RefuseTransition(w, c) PROVE goal
  BY <1>3, <1>9 DEF ApplyTransition, RefuseTransition, Finish
<1>10. CASE GenerationError(w)
  BY <1>7, <1>10 DEF GenerationError
<1>11. CASE RecordFailure(w) \/ CommitGeneration(w) \/ CommitCreate(w) \/ ClerkCrash(w)
  BY <1>3, <1>11 DEF RecordFailure, CommitGeneration, CommitCreate, ClerkCrash, Finish
<1>12. QED
  BY <1>2, <1>4, <1>5, <1>6, <1>8, <1>9, <1>10, <1>11 DEF ServeClerk

(* However many findings and requests there are, a request has only so     *)
(* many steps to take: as no transactions wait for each other in a circle  *)
(* either (NoDeadlock), a generation neither hangs nor goes on for ever.   *)
THEOREM RequestsEnd == PipelineSpec => [][RequestsWindDown]_pipelineVars
<1>1. ASSUME PipelineTypeOK, [PipelineNext]_pipelineVars, NEW w \in Clerks, ~ClerkAt(w, "free")
      PROVE  /\ ClerkSteps(w)' <= ClerkSteps(w)
             /\ Recommend(w) => ClerkSteps(w)' < ClerkSteps(w)
  <2>1. ClerkSteps(w) \in Nat
    BY <1>1, TodoShrinks DEF PipelineTypeOK, ClerkSteps
  <2>2. CASE Recommend(w)
    BY <1>1, <2>2, ClerkAdvances DEF Recommend
  <2>3. CASE ~Recommend(w)
    <3>1. clerk'[w] = clerk[w]
      <4>1. ASSUME NEW v \in Clerks, Recommend(v) PROVE clerk'[w] = clerk[w]
        <5>1. PICK r : clerk' = [clerk EXCEPT ![v] = r]
          BY <4>1
          DEF Recommend, AskClerk, ServeClerk, Generate, RefuseGenerate, CreateOne, LoadRow,
              Begin, SkipExisting, FindMissing, InsertRow, InsertionFails, ApplyTransition,
              RefuseTransition, GenerationError, RecordFailure, CommitGeneration, CommitCreate,
              ClerkCrash, Finish
        <5>2. v # w
          BY <2>3, <4>1
        <5>3. QED
          BY <1>1, <5>1, <5>2 DEF PipelineTypeOK
      <4>2. QED
        BY <1>1, <4>1
        DEF PipelineNext, Analyse, DeleteAll, pipelineVars, recommendationVars
    <3>2. ClerkSteps(w)' = ClerkSteps(w)
      BY <3>1 DEF ClerkSteps, ClerkAt
    <3>3. QED
      BY <2>1, <2>3, <3>2
  <2>4. QED
    BY <2>2, <2>3
<1>2. PipelineTypeOK /\ [PipelineNext]_pipelineVars => [RequestsWindDown]_pipelineVars
  BY <1>1 DEF RequestsWindDown
<1>3. QED
  BY <1>2, PipelineTyping, PTL DEF PipelineSpec
=============================================================================
