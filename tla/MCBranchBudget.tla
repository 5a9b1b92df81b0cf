-------------------------- MODULE MCBranchBudget --------------------------
(* Three branches, a pool that their caps exceed and that does not divide  *)
(* evenly among them, charges up to one above the cap.                     *)
EXTENDS BranchBudget

MCBranches == 1..3
MCMetrics == 0..1
=============================================================================
