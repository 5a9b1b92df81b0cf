---------------------------- MODULE LoopControl ----------------------------
(***************************************************************************)
(* The accounting of orchestration/loops.py: what one finished iteration   *)
(* does to the tracker of a bounded loop, and which boundaries stop it.    *)
(* The progress metric itself is left out: an iteration either improves on *)
(* the best value seen (by more than min_progress_delta) or it does not.   *)
(***************************************************************************)
EXTENDS Integers

CONSTANTS
  max_iterations,      \* LoopSpec.max_iterations
  budget_ceiling,      \* LoopSpec.budget_ceiling
  no_progress_window   \* LoopSpec.no_progress_window

ASSUME LoopSpecAssumption ==
  /\ max_iterations \in Nat \ {0}
  /\ budget_ceiling \in Nat
  /\ no_progress_window \in Nat \ {0}

Trackers == [iteration : Nat, budget_used : Nat, no_progress_count : Nat]

StartTracker == [iteration |-> 0, budget_used |-> 0, no_progress_count |-> 0]

(* Mutant: the iteration is compared with the whole ceiling. *)
OverspentOnItsOwn(tracker, consumed) == consumed > budget_ceiling

(* advance raises ValueError for an iteration that spent more than the     *)
(* ceiling leaves.                                                         *)
Overspent(tracker, consumed) == consumed > budget_ceiling - tracker.budget_used

(* Mutant: the tracker keeps the last iteration's spending only. *)
AdvancedForgetful(tracker, consumed, improved) ==
  [ iteration         |-> tracker.iteration + 1,
    budget_used       |-> consumed,
    no_progress_count |-> IF improved THEN 0 ELSE tracker.no_progress_count + 1 ]

Advanced(tracker, consumed, improved) ==
  [ iteration         |-> tracker.iteration + 1,
    budget_used       |-> tracker.budget_used + consumed,
    no_progress_count |-> IF improved THEN 0 ELSE tracker.no_progress_count + 1 ]

Boundaries(tracker) ==
  {boundary \in {"budget_ceiling", "max_iterations", "no_progress_window"} :
     CASE boundary = "budget_ceiling"     -> tracker.budget_used >= budget_ceiling
       [] boundary = "max_iterations"     -> tracker.iteration >= max_iterations
       [] boundary = "no_progress_window" -> tracker.no_progress_count >= no_progress_window}

(* A sufficient result, or a budget under the decision-weaving threshold,  *)
(* stops the loop as well; "stop" is either of the two.                    *)
Route(tracker, stop) ==
  IF stop \/ Boundaries(tracker) # {} THEN "stop" ELSE "continue"
=============================================================================
