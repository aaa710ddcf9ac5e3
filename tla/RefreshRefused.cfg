SPECIFICATION FairSpec
CONSTANTS
  Calls = {c1}
  Users = {alice}
  None = None
  MaxTokens = 2
  MaxRefusals = 1
  MaxReloads = 0
PROPERTY RefusalClears
CHECK_DEADLOCK FALSE
