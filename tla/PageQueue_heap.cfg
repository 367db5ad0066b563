SPECIFICATION Spec
CONSTANTS
  p1 = p1
  p2 = p2
  p3 = p3
  Page = {p1, p2, p3}
  EMPTY = EMPTY
  Sizes = {5, 9, 257}
  SmallMax = 10
  SmallObjMax = 8
  LargeMax = 256
  Padding = 1
  Reserved = 2
  MaxExtend = 1
  RetireCycles = 4
INVARIANTS DirectExact QueuesExact ClassFits
SYMMETRY Perm
