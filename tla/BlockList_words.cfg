SPECIFICATION Spec
CONSTANTS
  o = o t1 = t1 t2 = t2
  b1 = b1 b2 = b2 b3 = b3
  NULL = NULL
  Owner = o
  Thread = {o, t1, t2}
  Block = {b1, b2, b3}
SYMMETRY Sym
INVARIANT BlockListsIntact
PROPERTY ImplementsSets
