SPECIFICATION Spec
CONSTANTS
  t1 = t1
  t2 = t2
  Thread = {t1, t2}
  PageCount = 6
  PageSize = 2
  SegmentSize = 2
  LargePage = 2
  GoodLimit = 3
  GoodAlign = 2
  HintStart = 2
  HintEnd = 4
  MaxBase = 6
  LargeTry = 2
  BlockSize = 4
  FieldBits = 2
  HugeBlocks = 1
  MaxArenas = 2
  MaxHuge = 4
  NumaCount = 2
  Options <- AllProcesses
INVARIANTS ArenaTypeOK AllocsMapped DataKept ArenaBlocks HugeDisjoint SlotsFilled HugeCounted
SYMMETRY Perm
