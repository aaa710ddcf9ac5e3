SPECIFICATION Spec
CONSTANTS
  None = None
  Docs = {d1}
  Workers = {w1}
  Clients = {c1}
  MaxAttempts = 1
  BatchSize = 1
  MaxCrashes = 0
  MaxOverruns = 0
  MaxCancels = 1
  MaxReprocesses = 0
CHECK_DEADLOCK FALSE
PROPERTY CancelledIsFinal
