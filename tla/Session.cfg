SPECIFICATION FairSpec
CONSTANTS
  Calls = {c1, c2}
  Users = {alice, bob}
  None = None
  MaxTokens = 3
  MaxRefusals = 1
  MaxReloads = 1
INVARIANTS TypeOK SingleFlight RetryIsFresh SessionIsCurrent
PROPERTY CallsSettle
CHECK_DEADLOCK FALSE
