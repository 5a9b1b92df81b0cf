SPECIFICATION Spec
CHECK_DEADLOCK FALSE
CONSTANTS
  engine = engine
  rag = rag
  branch1 = branch1
  branch2 = branch2
  embedding = embedding
  Clients = {engine, rag}
  Callers = {branch1, branch2, embedding}
  External = {embedding}
  ClientOf <- ClientOfCaller
  None = None
  budget_cny = 2
  estimate = 1
  Costs = {1, 2}
  max_attempts = 2
  MaxCalls <- CallsOfCaller
  MaxStarts <- StartsOfClient
INVARIANTS
  TypeOK
  PendingIsOwed
  PaidIsRecorded
  BudgetUpToBlindSpot
  NeverOvercharged
  AnswersAreOwn
SYMMETRY BranchSymmetry
