SPECIFICATION FairSpec
CHECK_DEADLOCK FALSE
CONSTANTS
  Callers = {c1, c2}
  Workers = {t1, t2}
  None = None
  max_attempts = 2
  failure_threshold = 1
  half_open_max_calls = 1
  max_retries = 1
  max_requests <- Requests
  OpRequests <- Requests
  MaxCalls = 3
INVARIANTS
  TypeOK
  CircuitSound
  AttemptsAreBudgeted
  RequestsAreCharged
  StopsAtBoundary
PROPERTIES
  CallReturns
