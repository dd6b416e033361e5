SPECIFICATION TasksSpec
CONSTANTS
  Task = {t1, t2, t3}
  NoTask = NoTask
  TSK_INIT = t1
  TSK_INIT_PRI = 1
  NUM_PRI = 2
  BITMAPSZ = 1
  INT_MAX = 2
  IPM_MAX = 2
  Gcb = {}
  TaTpri = {}
VIEW TaskView
INVARIANTS
  NoLostWakeup
  TimeoutOnlyWhileWaiting
  ReadyQueueExact
  SchedtskIsTop
PROPERTIES
  DelayedDispatch
  ServedInOrder
  DispatchHappens
