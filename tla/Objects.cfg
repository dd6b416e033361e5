SPECIFICATION ObjectsSpec
CONSTANTS
  Task = {t1, t2}
  NoTask = NoTask
  TSK_INIT = t1
  TSK_INIT_PRI = 1
  NUM_PRI = 2
  BITMAPSZ = 1
  INT_MAX = 1
  IPM_MAX = 1
  Gcb = {fifo, fifo2, tpri}
  TaTpri = {tpri}
  Sem = {fifo, tpri}
  MAXSEM = 2
  Flg = {fifo, fifo2}
  TaWmul = {fifo}
  Bit = {1, 2}
  Mbx = {fifo, fifo2}
  TaMpri = {fifo2}
  m1 = m1
  m2 = m2
  m3 = m3
  Msg = {m1, m2, m3}
  msgpri <- MCmsgpri
  NULL = NULL
  NADR = NADR
  Mpf = {tpri}
  MINSIZE = 2
  BlockSizes = {1, 3}
  BlockCounts = {1, 2}
VIEW View
INVARIANTS
  QueuesExact
  NobodyWaitsForWhatIsThere
  WaitQueueSorted
  EveryBlockOnce
PROPERTIES
  WaitersKeepTheirOrder
  ConsumedOnce
  ServesMail
  ServesUnits
