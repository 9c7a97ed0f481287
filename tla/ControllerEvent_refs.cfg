SPECIFICATION Spec
CONSTANTS
  Controllers = {c1, c2}
  FinalizeControllers = {c2}
  Events = {e1, e2}
  Handlers = {h1}
  Types = {t1}
  Vals = {v1}
  ZERO = ZERO
  BAD = BAD
  NULL = NULL
  MaxIndices = 0
  MaxRefs = 1
  MaxDepth = 3
INVARIANTS TypeOK CountsBalanced InUseIsLive
SYMMETRY Symmetry
