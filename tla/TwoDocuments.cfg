SPECIFICATION Spec
CONSTANTS
  None = None
  Docs = {d1, d2}
  Workers = {w1, w2}
  Clients = {c1}
  MaxAttempts = 1
  BatchSize = 2
  MaxCrashes = 1
  MaxOverruns = 0
  MaxCancels = 1
  MaxReprocesses = 0
SYMMETRY Symmetry
CHECK_DEADLOCK FALSE
INVARIANTS
  OneStageAtATime
  ClaimsAreExclusive
  JobTracksQueue
  NoStrandedDocument
