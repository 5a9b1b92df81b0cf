SPECIFICATION Spec
CONSTANTS
  Branches <- MCBranches
  total_budget = 5
  per_branch_cap = 2
  planned_iterations = 1
  verify_min = 2
  Metrics <- MCMetrics
  MaxCharge = 3
INVARIANTS
  TypeOK
  WithinBudget
  ExhaustionIsReported
  WeakestFirst
  NothingStranded
