SPECIFICATION Spec
CONSTANTS
  ArrayControllers = {}
  PtrArrayControllers = {c1}
  HashControllers = {}
  Arrays = {}
  PtrArrays = {p1}
  HashTables = {}
  NULL = NULL
  MaxRefs = 1
  MaxDepth = 2
  FreeFuncsReenter = FALSE
INVARIANTS
  DisposedHoldsNothing
