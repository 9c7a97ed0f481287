SPECIFICATION Spec
CONSTANTS
  Threads = {t1}
  Sets = {s1}
  MaxIndex = 3
  MaxLength = 2
  Locations = {0}
  Reuse = TRUE
  MaxRefs = 1
INVARIANTS ReuseHasItsLength
