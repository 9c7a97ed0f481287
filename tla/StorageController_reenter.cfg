SPECIFICATION Spec
CONSTANTS
  ArrayControllers = {c1}
  PtrArrayControllers = {}
  HashControllers = {}
  Arrays = {a1, a2}
  PtrArrays = {}
  HashTables = {}
  NULL = NULL
  MaxRefs = 1
  MaxDepth = 3
  FreeFuncsReenter = TRUE
INVARIANTS
  RefsBalanced
