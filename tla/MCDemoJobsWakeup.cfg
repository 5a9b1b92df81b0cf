SPECIFICATION Spec
CONSTANTS
  Handlers = {h1, h2}
  Threads = {w1, w2}
  None = None
  queue_limit = 1
  Sections = 1
  MaxJobs = 2
  MaxRestarts = 0
  MaxFaults = 0
PROPERTY
  NoLostWakeup
CHECK_DEADLOCK FALSE
