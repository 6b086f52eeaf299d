SPECIFICATION Spec
CONSTANTS
  Day = 2
  Horizon = 44
  MaxRanges = 3
  Attributes = {1, 2}
INVARIANTS TypeOK EverySecondOnce RangesAreAnswerable RowsUnderHeader NeverPanics PastIsLastWhole
CHECK_DEADLOCK FALSE
