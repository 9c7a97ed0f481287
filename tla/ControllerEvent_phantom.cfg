SPECIFICATION Spec
CONSTANTS
  Controllers = {c1}
  FinalizeControllers = {}
  Events = {e1}
  Handlers = {h1}
  Types = {t1}
  Vals = {v1}
  ZERO = ZERO
  BAD = BAD
  NULL = NULL
  MaxIndices = 2
  MaxRefs = 1
  MaxDepth = 2
INVARIANTS NoPhantomIndex
