SPECIFICATION MCSpec
CONSTANTS
  t1 = t1
  t2 = t2
  t3 = t3
  Task = {t1, t2, t3}
  NoTask = NoTask
  TSK_INIT = t1
  TSK_INIT_PRI = 2
  NUM_PRI = 3
  BITMAPSZ = 2
  INT_MAX = 1
  IPM_MAX = 1
  p1 = p1
  p2 = p2
  p3 = p3
  Gcb = {p1, p2, p3}
  TaTpri = {p1, p2, p3}
  Pis = {p1, p2, p3}
  IsBefore <- InOrder
  MAX_CHAIN = 4
  Parts = {"ordered", "chg_pri", "deadlock"}
VIEW View
INVARIANTS
  OwnersSound
  InheritsUnlessChanged
  PisQueueSorted
