SPECIFICATION Spec
CONSTANTS
  Threads = {t1}
  Sets = {s1}
  MaxIndex = 7
  MaxLength = 4
  Locations = {0, 1, 2}
  Reuse = FALSE
  MaxRefs = 1
INVARIANTS RangeHasItsLength
