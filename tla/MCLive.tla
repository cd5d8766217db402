------------------------------- MODULE MCLive -------------------------------
(***************************************************************************)
(* What must end, ends: the executions of remediation plans, diagnostics,  *)
(* discovery jobs and root-cause analyses, when no process dies, and the   *)
(* agent's run once it is stopped.                                         *)
(*                                                                         *)
(* A behaviour is one of one part, which is chosen in the initial state.   *)
(* The four services give their variables the same names for the same      *)
(* roles; a variable that the chosen part does not have keeps one value.   *)
(***************************************************************************)
EXTENDS AgentRuntime

CONSTANTS w1, w2, w3, admin, t1, j1, j2, r1, r2, Unused

VARIABLES
  part,
  recommendation, plan, approvedBy, executed, verification, action, verifiedRow,
  started, job, results, run, verdict, findings,
  status, completed, cancelled, error, req, reply

planVars == <<recommendation, plan, approvedBy, executed, verification, action, verifiedRow>>
analysisVars == <<run, verdict, findings>>
stampVars == <<completed, cancelled, error>>
serviceVars == <<planVars, analysisVars, stampVars, status, started, job, results, req, reply>>
liveVars == <<part, serviceVars, runtimeVars>>

(* An admin holds every permission that a plan needs. *)
AdminGrants ==
  [u \in {admin} |->
     {"remediation:create", "remediation:verify", "remediation:approve",
      "remediation:manage", "remediation:execute"}]

TwoWorkers == {w1, w2}
ThreeWorkers == {w1, w2, w3}

Plan == INSTANCE Remediation WITH
          Workers <- TwoWorkers, Users <- {admin}, Grants <- AdminGrants,
          Nobody <- Unused, NoPlan <- Unused, MayCrash <- FALSE
Diagnostic == INSTANCE Diagnostics WITH Workers <- ThreeWorkers, MayCrash <- FALSE
Job == INSTANCE Discovery WITH
         Workers <- TwoWorkers, Targets <- {t1}, Jobs <- {j1, j2},
         NoJob <- Unused, NoTarget <- Unused, MayCrash <- FALSE
Analysis == INSTANCE RootCause WITH
              Workers <- TwoWorkers, Checks <- {1, 2}, Results <- {r1, r2},
              MaxEvidence <- 1, MayCrash <- FALSE

(* Without the variables of one service only. *)
NoPlans ==
  /\ recommendation = Unused /\ plan = Unused /\ approvedBy = Unused /\ executed = Unused
  /\ verification = Unused /\ action = Unused /\ verifiedRow = Unused
NoAnalyses == run = Unused /\ verdict = Unused /\ findings = Unused
NoJobs == job = [j \in {j1, j2} |-> Job!Absent]
NoStamps == completed = Unused /\ cancelled = Unused /\ error = Unused

LiveInit ==
  /\ RuntimeInit
  /\ \/ /\ part = "plan" /\ Plan!Init
        /\ NoAnalyses /\ NoStamps /\ started = Unused /\ NoJobs /\ results = Unused
     \/ /\ part = "diagnostic" /\ Diagnostic!Init
        /\ NoPlans /\ NoAnalyses /\ NoJobs
     \/ /\ part = "job" /\ Job!Init
        /\ NoPlans /\ NoAnalyses /\ NoStamps /\ started = Unused /\ status = Unused
     \/ /\ part = "analysis" /\ Analysis!Init
        /\ NoPlans /\ started = Unused /\ NoJobs /\ results = Unused
     \/ /\ part = "runtime"
        /\ NoPlans /\ NoAnalyses /\ NoStamps /\ started = Unused /\ NoJobs
        /\ results = Unused /\ status = Unused /\ req = Unused /\ reply = Unused

(* A step of one part leaves the variables that are not its own alone. *)
PlanStep(step) ==
  /\ part = "plan" /\ step
  /\ UNCHANGED <<part, analysisVars, stampVars, started, job, results, runtimeVars>>
DiagnosticStep(step) ==
  part = "diagnostic" /\ step /\ UNCHANGED <<part, planVars, analysisVars, job, runtimeVars>>
JobStep(step) ==
  /\ part = "job" /\ step
  /\ UNCHANGED <<part, planVars, analysisVars, stampVars, started, status, runtimeVars>>
AnalysisStep(step) ==
  part = "analysis" /\ step /\ UNCHANGED <<part, planVars, started, job, results, runtimeVars>>
RuntimeStep(step) == part = "runtime" /\ step /\ UNCHANGED <<part, serviceVars>>

LiveNext ==
  \/ PlanStep(Plan!Next)
  \/ DiagnosticStep(Diagnostic!Next)
  \/ JobStep(Job!Next)
  \/ AnalysisStep(Analysis!Next)
  \/ RuntimeStep(RuntimeNext)

(* A thread that has begun a request keeps running it, and so does the one *)
(* in the agent's loop.                                                    *)
Serves(w) ==
  \/ DiagnosticStep(Diagnostic!Serve(w))
  \/ /\ w \in TwoWorkers
     /\ \/ PlanStep(Plan!Serve(w)) \/ JobStep(Job!Serve(w)) \/ AnalysisStep(Analysis!Serve(w))

LiveSpec ==
  /\ LiveInit /\ [][LiveNext]_liveVars
  /\ \A w \in ThreeWorkers : WF_liveVars(Serves(w))
  /\ WF_liveVars(RuntimeStep(InsideRun)) /\ WF_liveVars(RuntimeStep(TimePasses))

-----------------------------------------------------------------------------
(* Properties                                                              *)

(* Whatever overlaps and whatever raises in the try blocks, every plan,    *)
(* diagnostic run, discovery job and root-cause analysis whose execution   *)
(* started leaves its running status, while no process dies.  What raises  *)
(* outside them, where no handler is, leaves the row like a death.         *)
ExecutionsEnd ==
  /\ part = "plan" => Plan!ExecutionEnds
  /\ part = "diagnostic" => Diagnostic!ExecutionEnds
  /\ Job!RunsEnd
  /\ part = "analysis" => Analysis!AnalysisEnds
=============================================================================
