SPECIFICATION Spec
CONSTANTS
  Branches <- MCBranches
  per_branch_cap = 2
  branch_total_budget = 3
  budget_ceiling = 4
  max_iterations = 3
  no_progress_window = 2
  max_critic_iter = 2
  Metrics <- MCMetrics
  StopPhases <- MCStopPhases
  MaxResumes = 1
INVARIANT
  EveryRoundIsDecided
CHECK_DEADLOCK FALSE
