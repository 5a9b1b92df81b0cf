SPECIFICATION Spec
CONSTANTS
  DemoCallers = {d1, d2}
  ResearchCallers = {r1}
  None = None
  limit = 5
  llm_budget = 2
  MaxRunCost = 2
  MaxDays = 1
INVARIANT
  DailyCap
