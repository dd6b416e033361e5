SPECIFICATION MCSpec
CONSTANTS
  t1 = t1
  t2 = t2
  t3 = t3
  Task = {t1, t2, t3}
  NoTask = NoTask
  TSK_INIT = t1
  TSK_INIT_PRI = 0
  NUM_PRI = 1
  BITMAPSZ = 1
  INT_MAX = 1
  IPM_MAX = 1
  cal1 = cal1
  cal2 = cal2
  acp1 = acp1
  acp2 = acp2
  Gcb = {cal1, acp1, cal2, acp2}
  TaTpri = {}
  p1 = p1
  p2 = p2
  Por = {p1, p2}
  call_queue <- MCcall_queue
  accept_queue <- MCaccept_queue
  maxrmsz <- MCmaxrmsz
  Patterns = {{1}, {2}}
  MAXRDV = 2
  ALLRDV = 3
VIEW View
SYMMETRY TaskSymmetry
INVARIANTS
  NoMissedRendezvous
  AnsweredByOne
  RepliesSound
CHECK_DEADLOCK FALSE
