SPECIFICATION FairSpec
CONSTANTS
  m = m t1 = t1 t2 = t2
  p1 = p1 p2 = p2
  b1 = b1 b2 = b2 b3 = b3
  NULL = NULL
  Main = m
  MaxExtend = 1
  MaxTries = 2
  MaxVisits = 2
  Thread = {m, t1}
  Page = {p1}
  Block = {b1, b2}
  PageOf <- TwoOnOne
  Reuse = FALSE
PROPERTY CallsReturn
