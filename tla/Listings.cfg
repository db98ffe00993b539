\* Four items, pages of 1 to 3, default 2 instead of 10, cap 3 instead of 100.
SPECIFICATION Spec
CONSTANTS
  Items = {i1, i2, i3, i4}
  Ranks = {1, 2, 3, 4}
  Sizes = {0, 1, 9}
  Default = 2
  Cap = 3
SYMMETRY Alike
CHECK_DEADLOCK FALSE
INVARIANTS
  HistoryComplete
  FewEventsHidden
  EventsShownOnce
PROPERTIES
  PageAgreesWithTotal
