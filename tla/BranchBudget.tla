--------------------------- MODULE BranchBudget ---------------------------
(***************************************************************************)
(* The lifetime of orchestration/budget.py's BranchBudget: research_prepare *)
(* allocates it once per process, research_join charges every branch, and  *)
(* research_join (single pass) or research_loop_decide (research loop)     *)
(* redistributes what is left.  Every method runs under the object's lock, *)
(* so a method is one step.  A process that dies or returns loses the      *)
(* object and keeps the run's warnings, which are checkpointed state; the  *)
(* next process allocates a new one.                                       *)
(***************************************************************************)
EXTENDS BranchAllocation

CONSTANTS
  total_budget,        \* search calls of the run
  planned_iterations,  \* research_loop_max_iterations, 1 when the loop is off
  verify_min,          \* decision_weaving_verify_min_allocation
  MaxCharge            \* bound: the largest number of calls a branch reports

ASSUME BudgetAssumption ==
  /\ total_budget \in Nat
  /\ planned_iterations \in Nat \ {0}
  /\ verify_min \in Nat
  /\ MaxCharge \in Nat

VARIABLES
  budget,           \* run_scope.branch_budget, <<>> while it is None
  coverage_warnings,\* branches with a warning in state.metadata
  total_exhausted   \* the run-wide warning in state.metadata

vars == <<budget, coverage_warnings, total_exhausted>>

Created == DOMAIN budget # {}

Init ==
  /\ budget = <<>>
  /\ coverage_warnings = {}
  /\ total_exhausted = FALSE

Allocate(ordered) ==
  /\ ~ Created
  /\ budget' = Allocated(ordered, total_budget, per_branch_cap, planned_iterations)
  /\ UNCHANGED <<coverage_warnings, total_exhausted>>

Consume(b, amount) ==
  /\ Created
  /\ budget' = Consumed(budget, b, amount, total_budget)
  /\ coverage_warnings' = IF Marked(budget, b, amount, total_budget)
                          THEN coverage_warnings \cup {b}
                          ELSE coverage_warnings
  /\ total_exhausted' = (\/ total_exhausted
                         \/ /\ ~ Refused(budget, b, amount, total_budget)
                            /\ total_remaining(budget', total_budget) = 0)

Redistributed(metric, verify) ==
  Reallocated(budget, metric, verify, verify_min, total_budget, per_branch_cap)

Reallocate(metric, verify) ==
  /\ Created
  /\ budget' = Redistributed(metric, verify)
  /\ coverage_warnings' = coverage_warnings \ Lifted(budget, budget')
  /\ UNCHANGED total_exhausted

(* The process ends, normally or not; the next one starts without a budget. *)
ScopeLost ==
  /\ Created
  /\ budget' = <<>>
  /\ UNCHANGED <<coverage_warnings, total_exhausted>>

Next ==
  \/ \E ordered \in Orders : Allocate(ordered)
  \/ \E b \in Branches, amount \in 0..MaxCharge : Consume(b, amount)
  \/ \E metric \in [Branches -> Metrics], verify \in SUBSET Branches :
       Reallocate(metric, verify)
  \/ ScopeLost

Spec == Init /\ [][Next]_vars

---------------------------------------------------------------------------
(* Every account is a natural within the per-branch cap, and warnings name *)
(* branches of the plan.                                                   *)
TypeOK ==
  /\ Created => budget \in Budgets
  /\ coverage_warnings \subseteq Branches
  /\ total_exhausted \in BOOLEAN

(* docs/orchestration_contracts.md: redistribution keeps what was used and *)
(* is always bound by the branch cap and the run total.  What the branches *)
(* may still call never exceeds what the run has left, and nothing a       *)
(* branch has used is beyond what it was given.                            *)
WithinBudget ==
  Created => /\ \A b \in Branches : budget.used[b] <= budget.allocated[b]
             /\ Total(budget.used) <= total_budget
             /\ Total(budget.allocated) <= total_budget

(* "Branch exhausted" is visible to the reader of the report: a branch     *)
(* marked exhausted has its warning on the run's list, whatever refills,   *)
(* refusals and restarts happened since.                                   *)
ExhaustionIsReported ==
  Created => \A b \in Branches : budget.exhausted[b] => b \in coverage_warnings

(* Redistribution serves the weakest coverage first: whatever budget it is  *)
(* called on, a branch that gets fewer new calls than a better covered one *)
(* either reaches its cap or loses its turn to the floor of a verification *)
(* branch.                                                                 *)
WeakestFirst ==
  Created =>
    \A metric \in [Branches -> Metrics], verify \in SUBSET Branches :
      LET fresh == Redistributed(metric, verify).allocated
      IN  \A b \in Branches, c \in Branches \ verify :
            Weaker(metric, b, c) =>
              \/ fresh[b] - budget.used[b] >= fresh[c] - budget.used[c]
              \/ fresh[b] = per_branch_cap

(* Redistribution strands nothing: every branch reaches its cap, or the    *)
(* whole run budget is allocated.                                          *)
NothingStranded ==
  Created =>
    \A metric \in [Branches -> Metrics], verify \in SUBSET Branches :
      LET fresh == Redistributed(metric, verify).allocated
      IN  Total(fresh) = total_budget \/ \A b \in Branches : fresh[b] = per_branch_cap
=============================================================================
