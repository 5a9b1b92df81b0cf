SPECIFICATION Spec
CHECK_DEADLOCK FALSE
CONSTANTS
  Callers = {c1, c2}
  Workers = {t1, t2}
  None = None
  max_attempts = 2
  failure_threshold = 2
  half_open_max_calls = 1
  max_retries = 1
  max_requests <- Requests
  OpRequests <- Requests
  MaxCalls = 3
PROPERTY
  QuarantineHolds
