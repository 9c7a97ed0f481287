SPECIFICATION Spec
CONSTANTS
  Views = {v1}
  Texts = {x}
  ArrayAddresses = {a1, a2}
  NULL = NULL
  MaxTexts = 2
  MaxEvents = 2
  MaxDepth = 2
INVARIANTS NoEventLeft
CHECK_DEADLOCK FALSE
