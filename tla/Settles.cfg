SPECIFICATION FairSpec
CONSTANTS
  None = None
  Docs = {d1}
  Workers = {w1, w2}
  Clients = {c1}
  MaxAttempts = 2
  BatchSize = 2
  MaxCrashes = 1
  MaxOverruns = 0
  MaxCancels = 0
  MaxReprocesses = 1
CHECK_DEADLOCK FALSE
PROPERTIES EverythingSettles FollowsLifecycle
