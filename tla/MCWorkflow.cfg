SPECIFICATION Spec
CONSTANTS
  Branches <- MCBranches
  per_branch_cap = 2
  branch_total_budget = 3
  budget_ceiling = 3
  max_iterations = 2
  no_progress_window = 2
  max_critic_iter = 2
  Metrics <- MCMetrics
  StopPhases <- MCStopPhases
  MaxResumes = 1
INVARIANTS
  TypeOK
  LoopWithinBounds
  ReportIsEarned
  LedgersAgree
  PlanNeverOverCharged
  RecursionLimitNeverHit
CHECK_DEADLOCK FALSE
PROPERTIES
  ImplementsLifecycle
