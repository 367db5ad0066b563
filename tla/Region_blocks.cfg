SPECIFICATION Spec
CONSTANTS
  main = main t1 = t1 t2 = t2
  Main = main
  Thread = {main, t1, t2}
  MaxRegions = 2
  Width = 2
  MaxObj = 2
  Options <- AllProcesses
  RelaxedInfo = FALSE
SYMMETRY Sym
INVARIANTS BlocksExclusive InUseExact CountSettles AllocationMapped TrueWhenSaid
