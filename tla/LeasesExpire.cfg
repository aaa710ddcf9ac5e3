SPECIFICATION Spec
CONSTANTS
  None = None
  Docs = {d1}
  Workers = {w1, w2}
  Clients = {c1}
  MaxAttempts = 2
  BatchSize = 2
  MaxCrashes = 0
  MaxOverruns = 1
  MaxCancels = 0
  MaxReprocesses = 0
SYMMETRY Symmetry
CHECK_DEADLOCK FALSE
INVARIANTS TypeOK TerminalIsAudited StatusIsEarned RetryBudget
