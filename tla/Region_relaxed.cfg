SPECIFICATION Spec
CONSTANTS
  main = main t1 = t1 t2 = t2
  Main = main
  Thread = {main, t1}
  MaxRegions = 2
  Width = 2
  MaxObj = 2
  Options <- Claiming
  RelaxedInfo = TRUE
INVARIANT BlocksExclusive
