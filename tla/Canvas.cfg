SPECIFICATION Spec
CONSTANTS
  Tabs = {t1, t2}
  Keys = {k1, k2}
  Axes = {x, y}
  Lengths = {0, 1}
  None = None
  Asked = Asked
  MaxChanges = 2
  MaxTroubled = 1
INVARIANTS TypeOK ShownIsSaved SavedIsTrue
PROPERTIES OnlyStaleDragsResize
SYMMETRY Symmetry
CHECK_DEADLOCK FALSE
