SPECIFICATION Spec
CONSTANTS
  t1 = t1
  t2 = t2
  s1 = s1
  s2 = s2
  Thread = {t1, t2}
  Segment = {s1, s2}
  NULL = NULL
  Main = t1
  Capacity <- MCCapacity
  Kinds = {"small", "large", "huge"}
  Options <- MCOptions
  CacheFraction = 1
INVARIANTS CountsExact FreeQueueExact ResetQueueOwn PageUsable NothingLost
SYMMETRY Perm
