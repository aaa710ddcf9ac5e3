SPECIFICATION Spec
CONSTANTS
  Workers = {w1, w2}
  Users = {u1}
  Items = {a, b}
  Pages = {p1}
  Roles = {a}
  PageOf <- MCPageOf
  None = None
  MaxRuns = 3
  MaxWishes = 1
  MaxRequests = 1
INVARIANTS NothingDangles PagesOfOneRun RebuildsAreClean CompleteIsSearchable
SYMMETRY Symmetry
CHECK_DEADLOCK FALSE
