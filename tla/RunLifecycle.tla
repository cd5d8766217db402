---------------------------- MODULE RunLifecycle ----------------------------
(***************************************************************************)
(* What a diagnostic run or a discovery job promises: it is executed at    *)
(* most once, its results appear in the very step that completes it and    *)
(* with no other outcome, and a terminal state is final.  The record may   *)
(* be deleted, with its results, at any time.                              *)
(***************************************************************************)
VARIABLES
  phase,      (* the lifecycle status, or absent                           *)
  published   (* the results are visible                                   *)

lifecycleVars == <<phase, published>>

Init ==
  /\ phase = "absent"
  /\ published = FALSE

Move(from, to, result) ==
  /\ phase \in from
  /\ phase' = to
  /\ published' = result

Create   == Move({"absent"}, "pending", FALSE)
Start    == Move({"pending"}, "running", FALSE)
Complete == Move({"running"}, "completed", TRUE)
Fail     == Move({"running"}, "failed", FALSE)
Cancel   == Move({"pending", "running"}, "cancelled", FALSE)
Delete   == Move({"pending", "running", "completed", "failed", "cancelled"}, "deleted", FALSE)

Next == Create \/ Start \/ Complete \/ Fail \/ Cancel \/ Delete

Spec == Init /\ [][Next]_lifecycleVars
=============================================================================
