SPECIFICATION Spec
CONSTANTS
  t1 = t1 t2 = t2 t3 = t3
  s1 = s1 s2 = s2
  NULL = NULL
  Thread = {t1, t2}
  Segment = {s1, s2}
  Direct = {s1}
  MaxCalls = 4
  TagMod = 9
INVARIANT NoReadOfReset
CHECK_DEADLOCK FALSE
