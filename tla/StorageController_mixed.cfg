SPECIFICATION FairSpec
CONSTANTS
  ArrayControllers = {}
  PtrArrayControllers = {c3}
  HashControllers = {c1, c2}
  Arrays = {}
  PtrArrays = {p1}
  HashTables = {h1, h2, h3}
  NULL = NULL
  MaxRefs = 1
  MaxDepth = 3
  FreeFuncsReenter = FALSE
INVARIANTS TypeOK RefsBalanced NoDanglingStorage ObjRefsBalanced DisposersHoldNothing NothingLeftBehind
PROPERTIES KeepsStorageAlive AllReleased
