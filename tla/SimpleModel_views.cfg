SPECIFICATION FairSpec
CONSTANTS
  Views = {v1, v2}
  Texts = {x, y}
  ArrayAddresses = {a1, a2}
  NULL = NULL
  MaxTexts = 2
  MaxEvents = 3
  MaxDepth = 3
INVARIANTS TypeOK TextsFound ModelUsable ToldIsInStep
PROPERTIES InStep CaughtUp
CHECK_DEADLOCK FALSE
