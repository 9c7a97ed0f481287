SPECIFICATION FairSpec
CONSTANTS
  Controllers = {c1}
  FinalizeControllers = {c1}
  Events = {e1}
  Handlers = {h1, h2}
  Types = {t1, t2}
  Vals = {v1, v2}
  ZERO = ZERO
  BAD = BAD
  NULL = NULL
  MaxIndices = 2
  MaxRefs = 1
  MaxDepth = 2
INVARIANTS NothingLeftBehind
PROPERTIES EventsOnlyGrow ReadingsStay CallsEnd AllReleased
