SPECIFICATION FairSpec
CONSTANTS
  Threads = {t1, t2, t3}
  Sets = {s1, s2}
  MaxIndex = 3
  MaxLength = 3
  Locations = {0}
  Reuse = FALSE
  MaxRefs = 2
INVARIANTS TypeOK FreedOnceUnused UnownedIsBeingFreed HoldsWhatWasAsked QueriesTellTheTruth
PROPERTIES UnownedIsFreed SetsAreShared
