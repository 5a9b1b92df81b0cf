SPECIFICATION Spec
CONSTANTS
  Handlers = {h1, h2}
  Threads = {w1, w2}
  None = None
  queue_limit = 1
  Sections = 2
  MaxJobs = 3
  MaxRestarts = 1
  MaxFaults = 1
INVARIANTS
  TypeOK
  OneWorker
  ServedInOrder
  QueueBounded
  DoneIsDelivered
PROPERTIES
  JobsSettle
  WorkerServesQueue
CHECK_DEADLOCK FALSE
