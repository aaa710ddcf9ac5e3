SPECIFICATION GatewaySpec
CONSTANTS
  a = a
  A = A
  b = b
  da = da
  db = db
  Keys = {k1}
  PerMinute = 1
  Minute = 2
  Horizon = 2
  None = None
  Requests = {r1, r2, r3}
  Emails = {a, A, b}
  Lower <- MCLower
  Seeded = b
  AccessTtl = 0
  RefreshTtl = 1
  Docs = {da, db}
  OwnerOf <- MCOwnerOf
  Vectors = {0, 1}
  MaxRuns = 2
  TopK = 1
  Ef = 1
INVARIANTS GatewayTypeOK WithinAllowance RefusalIsDeserved OneAccountPerEmail RegistrationsAreTrue HitsAreAllowed SelfIsFound
SYMMETRY Symmetry
CHECK_DEADLOCK FALSE
