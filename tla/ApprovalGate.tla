---------------------------- MODULE ApprovalGate ----------------------------
(***************************************************************************)
(* What a remediation plan promises, without its lifecycle: its actions    *)
(* run only after somebody has approved it, its outcome is verified only   *)
(* after they ran, and none of the three facts is ever taken back.         *)
(***************************************************************************)
VARIABLES
  approved,   (* somebody has approved the plan                            *)
  ran,        (* the dry-run of the plan's actions is on record            *)
  verified    (* a verification of the plan is on record                   *)

gateVars == <<approved, ran, verified>>

Init ==
  /\ approved = FALSE
  /\ ran = FALSE
  /\ verified = FALSE

Approve ==
  /\ approved' = TRUE
  /\ UNCHANGED <<ran, verified>>

Run ==
  /\ approved
  /\ ran' = TRUE
  /\ UNCHANGED <<approved, verified>>

Verify ==
  /\ ran
  /\ verified' = TRUE
  /\ UNCHANGED <<approved, ran>>

Next == Approve \/ Run \/ Verify

Spec == Init /\ [][Next]_gateVars
=============================================================================
