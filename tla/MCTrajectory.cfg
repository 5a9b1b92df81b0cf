SPECIFICATION Spec
CONSTANTS
  Branches <- MCBranches
  retry_queue <- MCRetryQueue
  ByQuestion <- MCByQuestion
  Ranked = 1
  max_searches = 3
  max_search_requests = 4
  max_fetch_requests = 2
  max_authority_requests = 1
  MaxRequests <- MCMaxRequests
  finance_pack = FALSE
INVARIANTS
  TypeOK RefusalKeepsWork RetriesFit TraceAccepted ReplayReproduces QueryReserved
CHECK_DEADLOCK FALSE
VIEW MCView
