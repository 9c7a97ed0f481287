SPECIFICATION Spec
CONSTANTS
  ArrayControllers = {c1}
  PtrArrayControllers = {c2}
  HashControllers = {}
  Arrays = {a1, a2, a3}
  PtrArrays = {p1}
  HashTables = {}
  NULL = NULL
  MaxRefs = 2
  MaxDepth = 3
  FreeFuncsReenter = TRUE
SYMMETRY Symmetry
CONSTRAINT LeakBound
INVARIANTS NeverUndercounted NoDanglingUnlessRead ObjRefsBalanced FreedByOneCall
PROPERTIES CallsEnd
