SPECIFICATION Spec
CONSTANTS
  Editors = {e1, e2}
  Handlers = {h1}
  Values = {v1, v2}
  None = None
  MaxVersion = 3
INVARIANTS HistoryIsContiguous
PROPERTIES OnlyHandlersRollBack EditLeavesEditable
SYMMETRY Symmetry
CHECK_DEADLOCK FALSE
