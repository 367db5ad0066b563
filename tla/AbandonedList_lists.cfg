SPECIFICATION FairSpec
CONSTANTS
  t1 = t1 t2 = t2 t3 = t3
  s1 = s1 s2 = s2
  NULL = NULL
  Thread = {t1, t2, t3}
  Segment = {s1, s2}
  Direct = {}
  MaxCalls = 5
  TagMod = 11
INVARIANTS ListsIntact NoReadOfReset
PROPERTIES PopNullExcused ImplementsSet ListCallsReturn
CHECK_DEADLOCK FALSE
